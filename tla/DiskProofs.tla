---------------------------- MODULE DiskProofs ----------------------------
(***************************************************************************)
(* What the handlers of snapshot.go leave behind, on top of what           *)
(* SnapshotsProofs shows, when clients are careful and for any number of   *)
(* crashes: a disk that its guest knows and snapshots that are whole       *)
(* (DiskInv); no file or VM that nobody accounts for (HeldInv); no foreign *)
(* address on the bridge (BridgeInv); no rule that no row accounts for     *)
(* (RulesInv); and what a client was told stays true (ServedInv).          *)
(***************************************************************************)
EXTENDS SnapshotsProofs

-----------------------------------------------------------------------------
(* The discipline and the invariant *)

\* Clients leave a sandbox alone while another call is at work on it, and set no
\* deadline, so that the reaper does too.
Careful == ~Overlap /\ Timeouts \subseteq {0}

\* The steps of handlers, by what they belong to.
Tail == {"get_row", "read_ports", "take_machine", "wait_vm", "remove_forwards", "delete_tap",
         "remove_rootfs", "delete_row"}
StopPCs == Tail \cup {"idle", "wait_agent", "finish_clones"}
CreatePCs == {"insert_row", "insert_restore", "copy_rootfs", "create_tap", "start_vm", "forward",
              "finish_start", "stop_force"}
ClonePCs == {"not_started", "clone_row", "clone_rootfs", "create_tap_unbridged", "start_clone",
             "loaded", "bridge", "forward_clone", "record_clone", "stop_clone"}
\* Before the VM is there; while it is there and the machine is not stored.
Unlaunched == NewPCs \cup {"insert_restore", "copy_rootfs", "clone_rootfs", "create_tap",
                           "create_tap_unbridged", "start_vm", "start_clone"}
UpPCs == {"forward", "finish_start", "store", "loaded", "bridge", "forward_clone", "record_clone"}
Unstored == Unlaunched \cup UpPCs \cup {"stop_force", "stop_clone", "wait_vm", "remove_forwards",
                                        "delete_tap", "remove_rootfs", "delete_row"}

\* Requests run create, restore, snapshot and fan-out, workers run clones.
Roles(p) ==
    /\ proc[p].pc \in CreatePCs \cup Snapshotting \cup FanoutPCs \cup {"clean_up_snapshot"} => p \in Requests
    /\ proc[p].pc \in ClonePCs => p \in Workers
    /\ proc[p].pc = "store" => p \in Requests \cup Workers
    /\ proc[p].pc \in {"insert_row", "get_row", "read_ports", "take_machine", "wait_vm", "remove_forwards"} =>
          proc[p].snap = NoRow
    /\ proc[p].staged => proc[p].pc = "bring_up"
    /\ proc[p].expires = NULL
    /\ proc[p].id < nextId

\* One goroutine per sandbox, until shutdownAll destroys sandboxes that others
\* still wait for.
Alone ==
    main # "stop_all" => \A p, q \in Goroutines : p # q /\ proc[p].id = proc[q].id => proc[p].id = 0
Quiet ==
    /\ main \in {"serve", "drain"} => \A p \in Goroutines : p \in Requests \cup Workers \/ proc[p].pc = "idle"
    /\ main = "stop_all" => \A p \in Goroutines : proc[p].pc \in StopPCs
    /\ main \notin {"recover", "abort"} => todo = {}
    /\ main \in {"down", "recover", "abort"} => machines = {}
    /\ \A r \in sandboxes : r.expires = NULL /\ r.id < nextId
    /\ \A v \in vms : v.id < nextId
    /\ \A id \in machines : id < nextId

\* A goroutine's copy of its row is right, and nobody else's row has its path.
CopyRight(p) ==
    proc[p].pc \notin NoCopy =>
        /\ proc[p].sb.id = proc[p].id
        /\ \A r \in sandboxes : r.id = proc[p].id <=> r.rootfs = proc[p].sb.rootfs
        /\ main # "stop_all" => \E r \in sandboxes : SameSandbox(r, proc[p].sb)

\* A goroutine restores a snapshot; it makes a sandbox whose path is new.
Restoring(p) == p \in Requests /\ proc[p].snap # NoRow /\ proc[p].pc \in RestorePCs
Young(p) ==
    /\ proc[p].pc \in (Unlaunched \cup UpPCs) \ (NewPCs \cup {"insert_restore", "copy_rootfs"})
    /\ ~Restoring(p)
KnownSnap(path) ==
    \/ \E s \in snapshots : s.rootfs = path
    \/ \E q \in Goroutines : proc[q].snap # NoRow /\ proc[q].snap.rootfs = path

\* A restore works on the path of its snapshot, which no fan-out is at work with;
\* nobody has a snapshot of a sandbox in the making.
PathsApart ==
    /\ \A p \in Goroutines : Restoring(p) /\ proc[p].pc # "insert_restore" => proc[p].sb.rootfs = proc[p].snap.rootfs
    /\ \A p, q \in Goroutines : Restoring(p) /\ proc[q].pc \in FanoutPCs =>
          proc[p].snap.rootfs # proc[q].snap.rootfs
    /\ \A p \in Goroutines : Young(p) => ~KnownSnap(proc[p].sb.rootfs)

\* VMs have the ids and the paths of rows, and none is of a sandbox that has not
\* started one or has taken its file away.
Up(id) == id \in machines \/ \E p \in Goroutines : proc[p].id = id /\ proc[p].pc \in UpPCs
VmsRight ==
    /\ \A v, w \in vms : v.id = w.id => v = w
    /\ \A v \in vms : v.disk # 0 => \E r \in sandboxes : r.id = v.id /\ r.rootfs = v.disk
    /\ \A v \in vms : Up(v.id) => v.disk # 0
    /\ \A p \in Goroutines, v \in vms : proc[p].id = v.id =>
          /\ proc[p].pc \notin Unlaunched
          /\ proc[p].pc = "delete_row" => v.disk = 0
MachinesRight ==
    \A p \in Goroutines :
        /\ proc[p].pc \in Unstored => proc[p].id \notin machines
        /\ proc[p].pc \in Snapshotting => proc[p].id \in machines

\* A sandbox that is up has its file; a fan-out stages, and takes away again, no
\* file that a sandbox that is up or a VM has.
Stages(p) == proc[p].pc = "stage" \/ proc[p].staged
FilesRight ==
    /\ \A r \in sandboxes : Up(r.id) => r.rootfs \in DOMAIN disks
    /\ \A p \in Goroutines : Stages(p) =>
          /\ \A r \in sandboxes : Up(r.id) => r.rootfs # proc[p].snap.rootfs
          /\ \A v \in vms : v.disk # proc[p].snap.rootfs

\* A file that a VM will be started on holds what its memory will know.
LaidPCs == {"create_tap", "start_vm", "create_tap_unbridged", "start_clone"}
Holds(path, c) == path \in DOMAIN disks => disks[path] = c
Laid(p) ==
    /\ proc[p].pc = "insert_row" => Holds(proc[p].id, 0)
    /\ proc[p].pc \in LaidPCs =>
          IF proc[p].snap = NoRow THEN Holds(proc[p].sb.rootfs, 0)
          ELSE files[proc[p].snap.id].mem # Absent => Holds(proc[p].sb.rootfs, files[proc[p].snap.id].mem)

\* A snapshot in the making is its maker's alone; the others are whole, or on
\* their way out.
Dir(p) == files[proc[p].snap.id]
SnapFilesRight ==
    /\ SnapshotsWhole
    /\ \A p, q \in Goroutines : p # q /\ proc[p].pc \in Snapshotting /\ proc[q].snap # NoRow =>
          proc[p].snap.id # proc[q].snap.id
    /\ \A p \in Goroutines : proc[p].pc \in Snapshotting \cup {"clean_up_snapshot"} =>
          \A s \in snapshots : s.id # proc[p].snap.id
    /\ \A p \in Goroutines : proc[p].snap # NoRow /\ proc[p].pc \notin Snapshotting => Dir(p).mem = Dir(p).disk
    /\ \A p \in Goroutines : proc[p].pc = "freeze_rootfs" =>
          Dir(p).mem # Absent /\ Holds(proc[p].sb.rootfs, Dir(p).mem)
    /\ \A p \in Goroutines : proc[p].pc \in {"resume", "record_snapshot"} =>
          Dir(p).mem # Absent /\ Dir(p).mem = Dir(p).disk
    /\ \A p \in Goroutines, v \in vms : proc[p].pc \in {"write_memory", "freeze_rootfs"} /\ v.id = proc[p].id =>
          v.paused

DiskInv ==
    /\ \A p \in Goroutines : Roles(p) /\ CopyRight(p) /\ Laid(p)
    /\ Alone /\ Quiet /\ PathsApart /\ VmsRight /\ MachinesRight /\ FilesRight /\ SnapFilesRight
    /\ GuestKeepsDisk

-----------------------------------------------------------------------------
(* The steps a goroutine may have come from *)

WalkPC(c, d) ==
    \/ c = d \/ Edge(c, d)
    \/ c = "not_started" /\ d = "clone_row"
    \/ c = "loaded" /\ d = "bridge"

\* Handlers keep to themselves.
LEMMA WalksApart ==
    ASSUME NEW c, NEW d, WalkPC(c, d)
    PROVE  /\ d \in CreatePCs => c \in CreatePCs
           /\ d \in Snapshotting => c \in Snapshotting
           /\ d \in FanoutPCs => c \in FanoutPCs
           /\ d \in ClonePCs => c \in ClonePCs
           /\ d = "clean_up_snapshot" => c = d
           /\ d = "store" => c \in {"store", "finish_start", "record_clone"}
           /\ d = "insert_row" => c = d
           /\ d = "get_row" => c \in {"get_row", "wait_agent", "stop_clone"}
           /\ c \in StopPCs => d \in StopPCs
BY DEF WalkPC, Edge, CreatePCs, Snapshotting, FanoutPCs, ClonePCs, StopPCs, Tail

\* The phases of a sandbox follow each other.
LEMMA WalksOn ==
    ASSUME NEW c, NEW d, WalkPC(c, d)
    PROVE  /\ d \in Unlaunched => c \in Unlaunched
           /\ d \in UpPCs => c \in UpPCs \cup {"start_vm", "start_clone"}
           /\ d \in Unstored => c \in Unstored \cup {"take_machine"}
           /\ d = "delete_row" => c \in {"delete_row", "remove_rootfs"}
           /\ d \in LaidPCs => c \in LaidPCs \cup {"insert_row", "copy_rootfs", "clone_rootfs"}
           /\ d = "freeze_rootfs" => c \in {"freeze_rootfs", "write_memory"}
           /\ d = "resume" => c \in {"resume", "freeze_rootfs"}
           /\ d = "record_snapshot" => c \in {"record_snapshot", "resume"}
           /\ d = "write_memory" => c \in {"write_memory", "pause"}
           /\ d \in NewPCs => c \in NewPCs
BY DEF WalkPC, Edge, Unlaunched, UpPCs, Unstored, LaidPCs, NewPCs

\* What a goroutine is after a handler's step.
Walk(p, q) ==
    LET x == proc[q]
        y == proc'[q] IN
    /\ (y.pc = "idle" /\ y.id = 0) \/ (y.pc # "idle" /\ y.id = x.id /\ WalkPC(x.pc, y.pc))
    /\ y.snap = x.snap \/ (y.snap = NoRow /\ y.pc \in {"idle", "get_row"})
    /\ x.pc \in Snapshotting /\ y.pc \notin Snapshotting => y.snap = NoRow
    /\ y.pc \notin NoCopy =>
          \/ y.sb = x.sb /\ x.pc \notin NoCopy
          \/ q = p /\ x.pc \in Reads /\ y.sb \in sandboxes' /\ y.sb.id = y.id
    /\ y.expires \in {x.expires, NULL}
    /\ y.staged => y.pc = "bring_up" /\ (x.staged \/ x.pc = "stage")
    /\ q # p => y = x \/ (q \in Workers /\ x.pc \in {"not_started", "loaded"})
    /\ q = p => Edge(x.pc, y.pc)
    /\ y.pc = "get_row" => x.pc = "get_row" \/ y.snap = NoRow

\* Every goroutine.
LEMMA GoroutinesWalk ==
    ASSUME FramesOK, \A q \in Goroutines : Roles(q), NEW p \in Goroutines, StepProc(p), NEW q \in Goroutines
    PROVE  Walk(p, q)
<1> DEFINE x == proc[q]
           y == proc'[q]
<1>0. SnapLocal(x) /\ Roles(q) BY DEF FramesOK
<1>1. /\ Idle.pc = "idle" /\ Idle.id = 0 /\ Idle.snap = NoRow /\ Idle.expires = NULL /\ Idle.staged = FALSE
      /\ "idle" \in NoCopy
  BY DEF Idle, NoCopy, NoSandbox
<1>2. x.staged => x.pc = "bring_up" BY <1>0 DEF Roles
<1>3. CASE y = Idle
  <2>1. q = p => Edge(x.pc, y.pc) BY DEF StepProc, Goes
  <2>2. q # p => y = x \/ (q \in Workers /\ x.pc \in {"not_started", "loaded"}) BY DEF StepProc, CloneGoes
  <2> QED BY <1>1, <1>3, <2>1, <2>2 DEF Walk
<1>4. CASE y = x /\ q # p
  <2>1. x.pc = "idle" => x.id = 0 BY <1>0 DEF SnapLocal
  <2> QED BY <1>2, <1>4, <2>1 DEF Walk, WalkPC
<1>5. CASE q # p /\ y # x /\ y # Idle
  <2>1. /\ q \in Workers /\ Same(x, y)
        /\ (x.pc = "not_started" /\ y.pc = "clone_row") \/ (x.pc = "loaded" /\ y.pc = "bridge")
    BY <1>5 DEF StepProc, CloneGoes
  <2> QED BY <1>2, <1>5, <2>1 DEF Walk, WalkPC, Same, Keeps, Snapshotting, NoCopy, NoSandbox, FanoutPCs
<1>6. CASE q = p /\ y # Idle
  <2>1. Goes(p, x, y) /\ Edge(x.pc, y.pc) BY <1>6 DEF StepProc, Goes
  <2>a. Edge(x.pc, y.pc) /\ x.pc \in Snapshotting /\ y.pc \notin Snapshotting => y.pc = "idle"
    BY DEF Edge, Snapshotting
  <2>b. Edge(x.pc, y.pc) /\ x.pc \in NoCopy /\ y.pc \notin NoCopy => x.pc \in Reads
    BY DEF Edge, NoCopy, NoSandbox, FanoutPCs, Reads
  <2>c. y.pc \in FanoutPCs \cup {"get_row"} => y.pc \in NoCopy /\ y.pc \notin Snapshotting /\ y.pc # "idle"
    BY DEF NoCopy, NoSandbox, FanoutPCs, Snapshotting
  <2>d. Edge(x.pc, y.pc) /\ y.pc = "get_row" => x.pc \in {"wait_agent", "stop_clone"} BY DEF Edge
  <2>e. x.pc \in FanoutPCs => x.pc \notin Snapshotting BY DEF FanoutPCs, Snapshotting
  <2>2. CASE Same(x, y) /\ y.pc \notin {"idle", "get_row"} /\ x.pc \notin Reads \cup {"bring_up"}
    BY <1>2, <1>6, <2>1, <2>2, <2>a, <2>b DEF Walk, WalkPC, Same, Keeps
  <2>3. CASE y.pc = "get_row" /\ y.id = x.id /\ y.snap = NoRow /\ ~y.staged /\ y.expires = NULL
    BY <1>6, <2>1, <2>3, <2>c DEF Walk, WalkPC
  <2>4. CASE /\ x.pc \in Reads /\ y.pc # "idle" /\ Keeps(x, y) /\ y.staged = x.staged
             /\ y.sb \in sandboxes' /\ y.sb.id = y.id
    <3>1. x.pc \notin Snapshotting /\ x.pc # "bring_up" BY <2>4 DEF Reads, Snapshotting
    <3>2. ~y.staged BY <1>2, <2>4, <3>1
    <3>3. y.pc # "get_row" BY <2>1, <2>4, <2>d DEF Reads
    <3> QED BY <1>6, <2>1, <2>4, <3>1, <3>2, <3>3 DEF Walk, WalkPC, Keeps
  <2>5. CASE /\ x.pc \in FanoutPCs /\ y.pc \in FanoutPCs /\ Keeps(x, y)
             /\ y.staged => x.pc = "stage" /\ y.pc = "bring_up"
    <3>1. y.pc # "get_row" BY <2>5 DEF FanoutPCs
    <3> QED BY <1>6, <2>1, <2>5, <2>c, <2>e, <3>1 DEF Walk, WalkPC, Keeps
  <2> QED BY <1>6, <2>1, <2>2, <2>3, <2>4, <2>5 DEF Goes
<1> QED BY <1>3, <1>4, <1>5, <1>6

-----------------------------------------------------------------------------
(* Handlers keep the invariant *)

Works(p) == SnapInv /\ SnapInv' /\ DiskInv /\ Handles(p)
Effects(p) ==
    /\ \A q \in Goroutines : Walk(p, q)
    /\ StepElsewhere /\ StepRows(p) /\ StepSnaps(p) /\ StepVms(p) /\ StepDisks(p) /\ StepMachines(p) /\ StepFiles(p)

\* All that a handler's step does.
LEMMA WorkEffects == ASSUME NEW p \in Goroutines, Works(p) PROVE Effects(p)
<1>1. SnapInv /\ Handles(p) /\ FramesOK /\ \A q \in Goroutines : Roles(q) BY DEF Works, DiskInv, SnapInv
<1>2. StepProc(p) BY <1>1, HandlerWalks
<1>3. \A q \in Goroutines : Walk(p, q) BY <1>1, <1>2, GoroutinesWalk
<1>4. StepRows(p) /\ StepVms(p) /\ StepDisks(p) /\ StepMachines(p) /\ StepFiles(p)
  BY <1>1, RowsStep, VmsStep, DisksStep, MachinesStep, FilesStep
<1>5. StepElsewhere /\ StepSnaps(p) BY <1>1, ElsewhereStep, SnapsStep
<1> QED BY <1>3, <1>4, <1>5 DEF Effects

\* A goroutine that starts a VM has its file.
LEMMA LaunchedOnFile ==
    ASSUME SnapInv, NEW p \in Goroutines, Handles(p),
           \/ proc[p].pc = "start_vm" /\ proc'[p].pc = "forward"
           \/ proc[p].pc = "start_clone" /\ proc'[p].pc = "loaded"
    PROVE  main = "serve" /\ proc[p].sb.rootfs \in DOMAIN disks
<1>1. FramesOK BY DEF SnapInv
<1>2. ~Rollback(p) BY <1>1, JumpGoes
<1>3. StartVM(p) \/ LoadSnapshot(p) \/ StartClone(p)
  BY DEF Handles, Step, SnapStep, InsertRow, CreateTap, AddPortForward, RecordStart, StopForce, StoreMachine,
     WaitForAgent, GetRow, ReadPorts, TakeMachine, WaitVM, RemoveForwards, DeleteTap, RemoveRootfs, DeleteRow,
     AllocatePort, ForwardExtra, UndoPort, Pause, WriteMemory, FreezeRootfs, Resume, RecordSnapshot, CleanupSnapshot,
     InsertRestore, CopyRootfs, StatBaked, StageBaked, Unstage, Settle, FanoutDone, CloneRow,
     CloneRootfs, CreateTapUnbridged, AttachTapToBridge, ForwardClone, RecordClone, StopClone
<1> QED BY <1>2, <1>3 DEF StartVM, LoadSnapshot, StartClone

\* The ids of goroutines, sandboxes and VMs are numbers.
LEMMA IdsTyped ==
    ASSUME SnapInv
    PROVE  /\ Ids \subseteq Int /\ 0 \notin Ids /\ nextId \in Int /\ 0 < nextId
           /\ \A q \in Goroutines : proc[q].id \in Ids \cup {0} /\ (proc[q].pc \notin NoSandbox => proc[q].id \in Ids)
           /\ \A q \in Goroutines : proc[q].snap # NoRow =>
                 proc[q].snap.rootfs \in Ids /\ proc[q].snap.tap \in Taps /\ proc[q].snap.id \in SnapIds
           /\ \A q \in Goroutines : proc[q].pc \notin NoCopy => proc[q].sb.rootfs \in Ids
           /\ \A r \in sandboxes : r.id \in Ids /\ r.rootfs \in Ids /\ r.tap \in Taps
           /\ \A s \in snapshots : s.id \in SnapIds /\ s.rootfs \in Ids /\ s.tap \in Taps
           /\ \A v \in vms : v.id \in Ids /\ v.disk \in Ids \cup {0} /\ v.ver \in Content
<1>1. Ids \subseteq Int /\ 0 \notin Ids /\ nextId \in Int /\ 0 < nextId
  BY CardinalityIds DEF SnapInv, HostTyped, EnvOK
<1>2. \A q \in Goroutines : proc[q] \in SnapFrame /\ SnapLocal(proc[q]) BY DEF SnapInv, FramesOK
<1>3. \A q \in Goroutines : proc[q].id \in Ids \cup {0} /\ (proc[q].pc \notin NoSandbox => proc[q].id \in Ids)
  BY <1>2 DEF SnapFrame, SnapLocal
<1>4. \A q \in Goroutines : proc[q].snap # NoRow => proc[q].snap \in Snapshot BY <1>2 DEF SnapLocal
<1>5. \A q \in Goroutines : proc[q].pc \notin NoCopy => proc[q].sb \in Sandbox BY <1>2 DEF SnapLocal
<1>6. \A r \in sandboxes : r \in Sandbox BY DEF SnapInv, RegInv, RegTypeOK
<1>7. \A s \in snapshots : s \in Snapshot BY DEF SnapInv, RegInv, RegTypeOK
<1>8. \A v \in vms : v \in VM /\ v.ver \in Content BY DEF SnapInv, HostTyped, VmsTyped
<1> QED BY <1>1, <1>3, <1>4, <1>5, <1>6, <1>7, <1>8 DEF Sandbox, Snapshot, VM

\* The goroutines stay in their parts.
LEMMA WorkRoles == ASSUME NEW p \in Goroutines, Works(p) PROVE \A q \in Goroutines : Roles(q)'
<1> SUFFICES ASSUME NEW q \in Goroutines PROVE Roles(q)' OBVIOUS
<1> DEFINE x == proc[q]
           y == proc'[q]
<1>1. Walk(p, q) /\ Roles(q) /\ UNCHANGED nextId BY WorkEffects DEF Effects, Works, DiskInv, StepElsewhere
<1>2. y.pc = "idle" \/ WalkPC(x.pc, y.pc) BY <1>1 DEF Walk
<1>3. 0 < nextId BY IdsTyped DEF Works
<1>4. y.expires = NULL /\ y.id < nextId' BY <1>1, <1>3 DEF Walk, Roles
<1>5. y.staged => y.pc = "bring_up" BY <1>1 DEF Walk
<1>6. /\ y.pc \in CreatePCs \cup Snapshotting \cup FanoutPCs \cup {"clean_up_snapshot"} => q \in Requests
      /\ y.pc \in ClonePCs => q \in Workers
      /\ y.pc = "store" => q \in Requests \cup Workers
  <2>1. CASE y.pc = "idle" BY <2>1 DEF CreatePCs, Snapshotting, FanoutPCs, ClonePCs
  <2>2. CASE WalkPC(x.pc, y.pc)
    <3>1. "finish_start" \in CreatePCs /\ "record_clone" \in ClonePCs BY DEF CreatePCs, ClonePCs
    <3> QED BY <1>1, <2>2, <3>1, WalksApart DEF Roles
  <2> QED BY <1>2, <2>1, <2>2
<1>7. ASSUME y.pc \in {"insert_row", "get_row", "read_ports", "take_machine", "wait_vm", "remove_forwards"}
      PROVE  y.snap = NoRow
  <2>1. WalkPC(x.pc, y.pc) BY <1>2, <1>7
  <2>2. CASE x.pc \in {"insert_row", "get_row", "read_ports", "take_machine", "wait_vm", "remove_forwards"}
    BY <1>1, <1>7, <2>2 DEF Walk, Roles
  <2>3. CASE x.pc \notin {"insert_row", "get_row", "read_ports", "take_machine", "wait_vm", "remove_forwards"}
    <3>1. y.pc = "get_row" BY <1>7, <2>1, <2>3 DEF WalkPC, Edge
    <3> QED BY <1>1, <2>3, <3>1 DEF Walk
  <2> QED BY <2>2, <2>3
<1> QED BY <1>4, <1>5, <1>6, <1>7 DEF Roles

\* Goroutines keep their ids, or have none.
LEMMA WorkAlone == ASSUME NEW p \in Goroutines, Works(p) PROVE Alone'
<1>1. \A q \in Goroutines : proc'[q].id \in {proc[q].id, 0} BY WorkEffects DEF Effects, Walk
<1>2. UNCHANGED main BY WorkEffects DEF Effects, StepElsewhere
<1>3. Alone BY DEF Works, DiskInv
<1> QED BY <1>1, <1>2, <1>3 DEF Alone

\* A goroutine that is not at the end of its work has its sandbox for itself.
LEMMA HasItsOwn ==
    ASSUME SnapInv, DiskInv, NEW p \in Goroutines, proc[p].pc \notin StopPCs \cup NoSandbox
    PROVE  main # "stop_all" /\ \A q \in Goroutines \ {p} : proc[q].id # proc[p].id
<1>1. main # "stop_all" BY DEF DiskInv, Quiet
<1>2. proc[p].id \in Ids /\ 0 \notin Ids BY IdsTyped
<1> QED BY <1>1, <1>2 DEF DiskInv, Alone

\* No row, no snapshot and no goroutine's snapshot names the path of a sandbox
\* before its row.
LEMMA NewPathUnknown ==
    ASSUME SnapInv, NEW p \in Goroutines, proc[p].pc \in NewPCs
    PROVE  (\A r \in sandboxes : r.rootfs # proc[p].id) /\ ~KnownSnap(proc[p].id)
<1>1. \A path \in Ids, t \in Taps : Knows(path, t) => proc[p].id # path BY DEF SnapInv, PathsOK
<1>2. ASSUME NEW r \in sandboxes PROVE r.rootfs # proc[p].id BY <1>1, IdsTyped DEF Knows
<1>3. ASSUME NEW s \in snapshots PROVE s.rootfs # proc[p].id BY <1>1, IdsTyped DEF Knows
<1>4. ASSUME NEW q \in Goroutines, proc[q].snap # NoRow PROVE proc[q].snap.rootfs # proc[p].id
  <2>1. proc[q].snap.rootfs \in Ids /\ proc[q].snap.tap \in Taps BY <1>4, IdsTyped
  <2>2. Knows(proc[q].snap.rootfs, proc[q].snap.tap) BY <1>4 DEF Knows
  <2> QED BY <1>1, <2>1, <2>2
<1> QED BY <1>2, <1>3, <1>4 DEF KnownSnap

\* Rows differ in their ids and in their disk paths.
RowsDiffer == \A r, s \in sandboxes : r.id = s.id \/ r.rootfs = s.rootfs => r = s

\* No index says so of the paths.
LEMMA RowsApart == SnapInv => RowsDiffer
<1> SUFFICES ASSUME SnapInv, NEW r \in sandboxes, NEW s \in sandboxes, r.id = s.id \/ r.rootfs = s.rootfs
             PROVE  r = s
  BY DEF RowsDiffer
<1>1. CASE r.id = s.id BY <1>1 DEF SnapInv, RegInv, Exclusive, RowsExclusive
<1>2. CASE r.rootfs = s.rootfs
  <2>1. r.rootfs \in Ids /\ r.tap \in Taps /\ s.tap \in Taps BY IdsTyped
  <2>2. Knows(r.rootfs, r.tap) /\ Knows(r.rootfs, s.tap) BY <1>2 DEF Knows
  <2>3. r.tap = s.tap BY <2>1, <2>2 DEF SnapInv, PathsOK
  <2> QED BY <2>3 DEF SnapInv, RegInv, Exclusive, RowsExclusive
<1> QED BY <1>1, <1>2

\* So do the rows after a step.
LEMMA RowsApartNext == SnapInv' => RowsDiffer'
BY RowsApart, PTL

\* Copies of rows stay right.
LEMMA WorkCopies == ASSUME NEW p \in Goroutines, Works(p) PROVE \A q \in Goroutines : CopyRight(q)'
<1> SUFFICES ASSUME NEW q \in Goroutines, proc'[q].pc \notin NoCopy
             PROVE  /\ proc'[q].sb.id = proc'[q].id
                    /\ \A r \in sandboxes' : r.id = proc'[q].id <=> r.rootfs = proc'[q].sb.rootfs
                    /\ main' # "stop_all" => \E r \in sandboxes' : SameSandbox(r, proc'[q].sb)
  BY DEF CopyRight
<1> DEFINE x == proc[p]
           y == proc'[q]
<1>1. Walk(p, q) /\ StepRows(p) /\ UNCHANGED main BY WorkEffects DEF Effects, StepElsewhere
<1>2. SnapInv /\ SnapInv' /\ DiskInv BY DEF Works
<1>3. CASE q = p /\ x.pc \in Reads /\ y.sb \in sandboxes' /\ y.sb.id = y.id
  BY <1>2, <1>3, RowsApartNext DEF SameSandbox, RowsDiffer
<1>4. CASE y.sb = proc[q].sb /\ proc[q].pc \notin NoCopy
  <2>1. y.pc # "idle" /\ y.id = proc[q].id BY <1>1 DEF Walk, NoCopy, NoSandbox
  <2>2. CopyRight(q) BY <1>2 DEF DiskInv
  <2>3. proc[q].id \in Ids /\ 0 \notin Ids BY <1>2, <1>4, IdsTyped DEF NoCopy
  <2>4. ASSUME main # "stop_all" PROVE \E r \in sandboxes' : SameSandbox(r, y.sb)
    <3>1. PICK s \in sandboxes : SameSandbox(s, y.sb) BY <1>4, <2>2, <2>4 DEF CopyRight
    <3>2. ~(x.pc = "delete_row" /\ s.id = x.id)
      <4>1. SUFFICES ASSUME x.pc = "delete_row", s.id = x.id PROVE FALSE OBVIOUS
      <4>2. x.id = proc[q].id BY <1>4, <2>2, <3>1, <4>1 DEF CopyRight, SameSandbox
      <4>3. q = p BY <1>2, <2>3, <2>4, <4>2 DEF DiskInv, Alone
      <4>4. Edge("delete_row", y.pc) BY <1>1, <4>1, <4>3 DEF Walk
      <4> QED BY <2>1, <4>4 DEF Edge
    <3>3. PICK r \in sandboxes' : SameSandbox(r, s) BY <1>1, <3>2 DEF StepRows
    <3> QED BY <3>1, <3>3 DEF SameSandbox
  <2>5. ASSUME NEW r \in sandboxes' PROVE r.id = y.id <=> r.rootfs = y.sb.rootfs
    <3>1. CASE \E s \in sandboxes : SameSandbox(r, s)
      BY <1>4, <2>1, <2>2, <3>1 DEF CopyRight, SameSandbox
    <3>2. CASE x.pc \in Inserts /\ r.id = x.id
      <4>1. x.pc \notin StopPCs \cup NoSandbox
        BY <3>2 DEF Inserts, StopPCs, Tail, NoSandbox, FanoutPCs
      <4>2. q # p
        <5>1. SUFFICES ASSUME q = p PROVE FALSE OBVIOUS
        <5>2. x.pc \in NoCopy BY <3>2 DEF Inserts, NoCopy
        <5> QED BY <1>4, <5>1, <5>2
      <4>3. main # "stop_all" /\ proc[q].id # x.id BY <1>2, <4>1, <4>2, HasItsOwn
      <4>4. PICK s \in sandboxes' : SameSandbox(s, y.sb) BY <2>4, <4>3
      <4>5. s.id = proc[q].id BY <1>4, <2>2, <4>4 DEF CopyRight, SameSandbox
      <4>6. r.rootfs # s.rootfs BY <1>2, <3>2, <4>3, <4>5, RowsApartNext DEF RowsDiffer
      <4> QED BY <2>1, <3>2, <4>3, <4>4, <4>6 DEF SameSandbox
    <3> QED BY <1>1, <3>1, <3>2 DEF StepRows
  <2> QED BY <1>1, <1>4, <2>1, <2>2, <2>4, <2>5 DEF CopyRight
<1> QED BY <1>1, <1>3, <1>4 DEF Walk

\* The phases of the server stay apart.
LEMMA WorkQuiet == ASSUME NEW p \in Goroutines, Works(p) PROVE Quiet'
<1> DEFINE x == proc[p]
<1>1. /\ \A q \in Goroutines : Walk(p, q)
      /\ StepElsewhere /\ StepRows(p) /\ StepVms(p) /\ StepMachines(p)
  BY WorkEffects DEF Effects
<1>2. SnapInv /\ Quiet /\ (\A q \in Goroutines : Roles(q) /\ CopyRight(q)) BY DEF Works, DiskInv
<1>3. UNCHANGED <<main, todo, nextId>> BY <1>1 DEF StepElsewhere
<1>4. Edge(x.pc, proc'[p].pc) /\ x.id < nextId BY <1>1, <1>2 DEF Walk, Roles
<1>5. x.pc # "idle" BY <1>4 DEF Edge
<1>6. main \in {"serve", "drain"} => \A q \in Goroutines : q \in Requests \cup Workers \/ proc'[q].pc = "idle"
  <2> SUFFICES ASSUME main \in {"serve", "drain"}, NEW q \in Goroutines, q \notin Requests \cup Workers
               PROVE  proc'[q].pc = "idle"
    OBVIOUS
  <2>1. proc[q].pc = "idle" BY <1>2 DEF Quiet
  <2>2. q # p BY <1>5, <2>1
  <2> QED BY <1>1, <2>1, <2>2 DEF Walk
<1>7. main = "stop_all" => \A q \in Goroutines : proc'[q].pc \in StopPCs
  <2> SUFFICES ASSUME main = "stop_all", NEW q \in Goroutines PROVE proc'[q].pc \in StopPCs OBVIOUS
  <2>1. proc[q].pc \in StopPCs BY <1>2 DEF Quiet
  <2>2. CASE proc'[q].pc = "idle" BY <2>2 DEF StopPCs
  <2> QED BY <1>1, <2>1, <2>2, WalksApart DEF Walk
<1>8. main \in {"down", "recover", "abort"} => machines' = {}
  <2> SUFFICES ASSUME main \in {"down", "recover", "abort"} PROVE machines' = {} OBVIOUS
  <2>1. machines = {} BY <1>2 DEF Quiet
  <2>2. x.pc # "store" BY <1>2 DEF SnapInv, RecoveryOK, ReconcilePCs
  <2> QED BY <1>1, <2>1, <2>2 DEF StepMachines
<1>9. \A r \in sandboxes' : r.expires = NULL /\ r.id < nextId
  BY <1>1, <1>2, <1>4 DEF StepRows, Quiet, Roles, SameSandbox
<1>10. ASSUME NEW w \in vms' PROVE w.id < nextId
  <2>1. CASE \E v \in vms : w.id = v.id BY <1>2, <2>1 DEF Quiet
  <2>2. CASE w.id = x.sb.id /\ x.pc \in {"start_vm", "start_clone"}
    <3>1. x.sb.id = x.id BY <1>2, <2>2 DEF CopyRight, NoCopy, NoSandbox, FanoutPCs
    <3> QED BY <1>4, <2>2, <3>1
  <2> QED BY <1>1, <2>1, <2>2 DEF StepVms, VmKept, VmNew
<1>11. \A id \in machines' : id < nextId BY <1>1, <1>2, <1>4 DEF StepMachines, Quiet
<1> QED BY <1>2, <1>3, <1>6, <1>7, <1>8, <1>9, <1>10, <1>11 DEF Quiet

\* Nobody learns of a path that no snapshot names.
LEMMA KnownBefore ==
    ASSUME NEW p \in Goroutines, Works(p), NEW path, KnownSnap(path)' PROVE KnownSnap(path)
<1>1. StepSnaps(p) /\ \A q \in Goroutines : Walk(p, q) BY WorkEffects DEF Effects
<1>2. CASE \E s \in snapshots' : s.rootfs = path
  <2>1. PICK s \in snapshots' : s.rootfs = path BY <1>2
  <2>2. CASE s \in snapshots BY <2>1, <2>2 DEF KnownSnap
  <2>3. CASE proc[p].pc = "record_snapshot" /\ s.rootfs = proc[p].sb.rootfs
    <3>1. SnapLocal(proc[p]) BY DEF Works, SnapInv, FramesOK
    <3>2. proc[p].snap # NoRow /\ proc[p].snap.rootfs = path
      BY <2>1, <2>3, <3>1 DEF SnapLocal, HasSnapshot, Snapshotting
    <3> QED BY <3>2 DEF KnownSnap
  <2> QED BY <1>1, <2>2, <2>3 DEF StepSnaps
<1>3. CASE \E q \in Goroutines : proc'[q].snap # NoRow /\ proc'[q].snap.rootfs = path
  BY <1>1, <1>3 DEF Walk, KnownSnap
<1> QED BY <1>2, <1>3 DEF KnownSnap

\* A goroutine restores a snapshot only if it did before, with the same one.
LEMMA RestoringBefore ==
    ASSUME NEW p \in Goroutines, Works(p), NEW q \in Goroutines, Restoring(q)'
    PROVE  /\ Restoring(q) /\ proc'[q].snap = proc[q].snap /\ WalkPC(proc[q].pc, proc'[q].pc)
           /\ proc[q].pc \in NoCopy => proc[q].pc = "insert_restore"
<1> DEFINE x == proc[q]
           y == proc'[q]
<1>1. Walk(p, q) /\ Roles(q) BY WorkEffects DEF Effects, Works, DiskInv
<1>2. q \in Requests /\ y.snap # NoRow /\ y.pc \in RestorePCs BY DEF Restoring
<1>3. y.pc # "idle" /\ y.snap = x.snap /\ WalkPC(x.pc, y.pc) BY <1>1, <1>2 DEF Walk, RestorePCs
<1>4. x.pc \notin ClonePCs BY <1>1, <1>2, GoroutinesAssumption DEF Roles
<1>5. x.pc \notin {"insert_row", "remove_forwards"} BY <1>1, <1>2, <1>3 DEF Roles
<1>6. x.pc \in RestorePCs BY <1>2, <1>3, <1>4, <1>5 DEF WalkPC, Edge, RestorePCs, ClonePCs
<1>7. x.pc \in NoCopy => x.pc = "insert_restore" BY <1>6 DEF RestorePCs, NoCopy, NoSandbox, FanoutPCs
<1> QED BY <1>2, <1>3, <1>6, <1>7 DEF Restoring

\* A goroutine makes a sandbox with a new path only if it did or begins to.
LEMMA YoungBefore ==
    ASSUME NEW p \in Goroutines, Works(p), NEW q \in Goroutines, Young(q)'
    PROVE  \/ Young(q) /\ proc'[q].sb = proc[q].sb
           \/ q = p /\ proc[q].pc \in NewPCs /\ proc'[q].sb.rootfs = proc[q].id
<1> DEFINE x == proc[q]
           y == proc'[q]
           Here == (Unlaunched \cup UpPCs) \ (NewPCs \cup {"insert_restore", "copy_rootfs"})
<1>1. Walk(p, q) /\ Roles(q) /\ SnapLocal(x) /\ StepRows(p)
  BY WorkEffects DEF Effects, Works, DiskInv, SnapInv, FramesOK
<1>2. y.pc \in Here /\ ~Restoring(q)' BY DEF Young
<1>3. /\ y.pc \notin {"idle", "get_row", "not_started"} /\ y.pc \notin NoCopy
      /\ y.pc \in {"clone_rootfs", "create_tap", "create_tap_unbridged", "start_vm", "start_clone",
                   "forward", "finish_start", "store", "loaded", "bridge", "forward_clone", "record_clone"}
  BY <1>2 DEF Unlaunched, UpPCs, NewPCs, NoCopy, NoSandbox, FanoutPCs
<1>4. y.snap = x.snap /\ WalkPC(x.pc, y.pc) BY <1>1, <1>3 DEF Walk
<1>5. CASE x.pc \in {"insert_row", "clone_row"}
  <2>1. x.pc # y.pc BY <1>3, <1>5
  <2>2. q = p BY <1>1, <1>5, <2>1 DEF Walk
  <2>3. y.sb \in sandboxes' /\ y.sb.id = y.id /\ y.id = x.id
    BY <1>1, <1>3, <1>5 DEF Walk, NoCopy, NoSandbox
  <2>4. \A s \in sandboxes : s.id # x.id BY <1>1, <1>3, <1>5, <2>2 DEF StepRows, Inserts
  <2>5. y.sb.rootfs = x.id
    BY <1>1, <1>5, <2>2, <2>3, <2>4 DEF StepRows, SameSandbox
  <2> QED BY <1>5, <2>2, <2>5 DEF NewPCs
<1>6. CASE x.pc \notin {"insert_row", "clone_row"}
  <2>1. x.pc \in Here \cup {"copy_rootfs"}
    BY <1>3, <1>4, <1>6 DEF WalkPC, Edge, Unlaunched, UpPCs, NewPCs
  <2>2. x.pc # "copy_rootfs"
    <3>1. SUFFICES ASSUME x.pc = "copy_rootfs" PROVE FALSE OBVIOUS
    <3>2. q \in Requests /\ x.snap # NoRow BY <1>1, <3>1 DEF Roles, CreatePCs, SnapLocal, HasSnapshot
    <3>3. y.pc = "create_tap" BY <1>3, <1>4, <3>1 DEF WalkPC, Edge
    <3> QED BY <1>2, <1>4, <3>2, <3>3 DEF Restoring, RestorePCs
  <2>3. ~Restoring(q)
    <3>1. SUFFICES ASSUME Restoring(q) PROVE FALSE OBVIOUS
    <3>2. q \in Requests /\ x.snap # NoRow /\ x.pc \in RestorePCs BY <3>1 DEF Restoring
    <3>3. y.pc \in RestorePCs BY <1>3, <1>4, <3>2 DEF WalkPC, Edge, RestorePCs
    <3> QED BY <1>2, <1>4, <3>2, <3>3 DEF Restoring
  <2>4. x.pc \notin NoCopy
    BY <2>1, <2>2 DEF Unlaunched, UpPCs, NewPCs, NoCopy, NoSandbox, FanoutPCs
  <2>5. x.pc \notin Reads BY <2>4, <1>6 DEF Reads, NoCopy
  <2>6. y.sb = x.sb BY <1>1, <1>3, <2>5 DEF Walk
  <2> QED BY <2>1, <2>2, <2>3, <2>6 DEF Young
<1> QED BY <1>5, <1>6

\* Restores, fan-outs and new sandboxes keep to their paths.
LEMMA WorkPaths == ASSUME NEW p \in Goroutines, Works(p) PROVE PathsApart'
<1>0. SnapInv /\ SnapInv' /\ PathsApart BY DEF Works, DiskInv
<1>1. \A q \in Goroutines : Walk(p, q) BY WorkEffects DEF Effects
<1>2. ASSUME NEW q \in Goroutines, Restoring(q)', proc'[q].pc # "insert_restore"
      PROVE  proc'[q].sb.rootfs = proc'[q].snap.rootfs
  <2> DEFINE x == proc[q]
             y == proc'[q]
  <2>1. /\ Restoring(q) /\ y.snap = x.snap /\ WalkPC(x.pc, y.pc) /\ (x.pc \in NoCopy => x.pc = "insert_restore")
    BY <1>2, RestoringBefore
  <2>2. y.pc \notin NoCopy /\ y.pc # "idle" BY <1>2 DEF Restoring, RestorePCs, NoCopy, NoSandbox, FanoutPCs
  <2>3. CASE x.pc = "insert_restore"
    <3>1. q = p BY <1>1, <1>2, <2>3 DEF Walk
    <3>2. StepRows(p) BY WorkEffects DEF Effects
    <3>3. \A s \in sandboxes : s.id # x.id BY <2>2, <2>3, <3>1, <3>2 DEF StepRows, Inserts
    <3>4. y.sb \in sandboxes' /\ y.sb.id = x.id BY <1>1, <2>2, <2>3 DEF Walk, NoCopy
    <3> QED BY <2>1, <2>3, <3>1, <3>2, <3>3, <3>4 DEF StepRows, SameSandbox
  <2>4. CASE x.pc # "insert_restore"
    <3>1. x.pc \notin Reads BY <2>1, <2>4 DEF Reads, NoCopy
    <3>2. y.sb = x.sb BY <1>1, <2>2, <3>1 DEF Walk
    <3> QED BY <1>0, <2>1, <2>4, <3>2 DEF PathsApart
  <2> QED BY <2>3, <2>4
<1>3. ASSUME NEW q \in Goroutines, NEW f \in Goroutines, Restoring(q)', proc'[f].pc \in FanoutPCs
      PROVE  proc'[q].snap.rootfs # proc'[f].snap.rootfs
  <2>1. Restoring(q) /\ proc'[q].snap = proc[q].snap BY <1>3, RestoringBefore
  <2>2. proc'[f].pc \notin {"idle", "get_row"} BY <1>3 DEF FanoutPCs
  <2>3. proc[f].pc \in FanoutPCs /\ proc'[f].snap = proc[f].snap BY <1>1, <1>3, <2>2, WalksApart DEF Walk
  <2> QED BY <1>0, <2>1, <2>3 DEF PathsApart
<1>4. ASSUME NEW q \in Goroutines, Young(q)' PROVE (~KnownSnap(proc[q].sb.rootfs))'
  <2>1. PICK path : path = proc'[q].sb.rootfs OBVIOUS
  <2>2. CASE Young(q) /\ proc'[q].sb = proc[q].sb
    <3>1. ~KnownSnap(proc[q].sb.rootfs) BY <1>0, <2>2 DEF PathsApart
    <3>2. ~KnownSnap(path) BY <2>1, <2>2, <3>1
    <3>3. ~KnownSnap(path)' BY <3>2, KnownBefore
    <3> QED BY <2>1, <3>3 DEF KnownSnap
  <2>3. CASE proc[q].pc \in NewPCs /\ proc'[q].sb.rootfs = proc[q].id
    <3>1. ~KnownSnap(proc[q].id) BY <1>0, <2>3, NewPathUnknown
    <3>2. ~KnownSnap(path) BY <2>1, <2>3, <3>1
    <3>3. ~KnownSnap(path)' BY <3>2, KnownBefore
    <3> QED BY <2>1, <3>3 DEF KnownSnap
  <2> QED BY <1>4, <2>2, <2>3, YoungBefore
<1> QED BY <1>2, <1>3, <1>4 DEF PathsApart

\* A goroutine starts the VM of its sandbox.
Launching(p) ==
    \/ proc[p].pc = "start_vm" /\ proc'[p].pc = "forward"
    \/ proc[p].pc = "start_clone" /\ proc'[p].pc = "loaded"

\* A sandbox is up if it was, or if its goroutine starts the VM.
LEMMA UpBefore ==
    ASSUME NEW p \in Goroutines, Works(p), NEW id \in Ids, Up(id)'
    PROVE  Up(id) \/ (Launching(p) /\ id = proc[p].id)
<1>1. StepMachines(p) /\ \A q \in Goroutines : Walk(p, q) BY WorkEffects DEF Effects
<1>2. CASE id \in machines'
  <2>1. id \in machines \/ (proc[p].pc = "store" /\ id = proc[p].id) BY <1>1, <1>2 DEF StepMachines
  <2> QED BY <2>1 DEF Up, UpPCs
<1>3. ASSUME NEW q \in Goroutines, proc'[q].id = id, proc'[q].pc \in UpPCs
      PROVE  Up(id) \/ (Launching(p) /\ id = proc[p].id)
  <2>1. proc'[q].pc # "idle" BY <1>3 DEF UpPCs
  <2>2. proc[q].id = id /\ WalkPC(proc[q].pc, proc'[q].pc) BY <1>1, <1>3, <2>1 DEF Walk
  <2>3. CASE proc[q].pc \in UpPCs BY <2>2, <2>3 DEF Up
  <2>4. CASE proc[q].pc \in {"start_vm", "start_clone"}
    <3>1. proc'[q].pc # proc[q].pc BY <1>3, <2>4 DEF UpPCs
    <3>2. q = p BY <1>1, <2>4, <3>1 DEF Walk
    <3>3. Launching(p) BY <1>3, <2>2, <2>4, <3>2 DEF Launching, WalkPC, Edge, UpPCs
    <3> QED BY <2>2, <3>2, <3>3
  <2> QED BY <1>3, <2>2, <2>3, <2>4, WalksOn
<1> QED BY <1>2, <1>3 DEF Up

\* What is known of a goroutine that starts a VM.
LEMMA LaunchingFacts ==
    ASSUME NEW p \in Goroutines, Works(p), proc[p].pc \in {"start_vm", "start_clone"}
    PROVE  /\ main # "stop_all" /\ proc[p].sb.id = proc[p].id /\ proc[p].id \in Ids
           /\ proc[p].sb.rootfs \in Ids
           /\ \A q \in Goroutines \ {p} : proc[q].id # proc[p].id
           /\ \A v \in vms : v.id # proc[p].id
           /\ \A r \in sandboxes : r.id = proc[p].id <=> r.rootfs = proc[p].sb.rootfs
           /\ \E r \in sandboxes : r.id = proc[p].id /\ r.rootfs = proc[p].sb.rootfs
           /\ Restoring(p) \/ Young(p)
<1>0. SnapInv /\ DiskInv BY DEF Works
<1>1. /\ proc[p].pc \notin StopPCs \cup NoSandbox /\ proc[p].pc \notin NoCopy /\ proc[p].pc \in Unlaunched
      /\ proc[p].pc \notin NewPCs \cup {"insert_restore", "copy_rootfs"}
  BY DEF StopPCs, Tail, NoSandbox, FanoutPCs, NoCopy, Unlaunched, NewPCs
<1>2. main # "stop_all" /\ \A q \in Goroutines \ {p} : proc[q].id # proc[p].id BY <1>0, <1>1, HasItsOwn
<1>3. CopyRight(p) BY <1>0 DEF DiskInv
<1>4. proc[p].id \in Ids /\ proc[p].sb.rootfs \in Ids BY <1>0, <1>1, IdsTyped
<1>5. \A v \in vms : v.id # proc[p].id BY <1>0, <1>1 DEF DiskInv, VmsRight
<1>6. Restoring(p) \/ Young(p) BY <1>1 DEF Young
<1> QED BY <1>1, <1>2, <1>3, <1>4, <1>5, <1>6 DEF CopyRight, SameSandbox

\* A sandbox whose file is being removed is not up.
LEMMA RemovedNotUp ==
    ASSUME NEW p \in Goroutines, Works(p), proc[p].pc = "remove_rootfs" PROVE ~Up(proc[p].id)
<1>0. SnapInv /\ DiskInv BY DEF Works
<1>1. proc[p].id \notin machines BY <1>0 DEF DiskInv, MachinesRight, Unstored
<1>2. ASSUME NEW q \in Goroutines, proc[q].id = proc[p].id, proc[q].pc \in UpPCs PROVE FALSE
  <2>1. proc[q].pc \notin StopPCs \cup NoSandbox BY <1>2 DEF UpPCs, StopPCs, Tail, NoSandbox, FanoutPCs
  <2>2. q # p BY <1>2 DEF UpPCs
  <2> QED BY <1>0, <1>2, <2>1, <2>2, HasItsOwn
<1> QED BY <1>1, <1>2 DEF Up

\* A VM's row and path.
LEMMA VmPath ==
    ASSUME SnapInv, DiskInv, NEW p \in Goroutines, proc[p].pc \notin NoCopy, NEW v \in vms, v.disk # 0,
           v.disk = proc[p].sb.rootfs
    PROVE  v.id = proc[p].id
<1>1. PICK r \in sandboxes : r.id = v.id /\ r.rootfs = v.disk BY DEF DiskInv, VmsRight
<1> QED BY <1>1 DEF DiskInv, CopyRight

\* VMs keep to the ids and paths of rows.
LEMMA WorkVms == ASSUME NEW p \in Goroutines, Works(p) PROVE VmsRight'
<1> DEFINE x == proc[p]
           y == proc'[p]
<1>0. SnapInv /\ SnapInv' /\ DiskInv /\ VmsRight BY DEF Works, DiskInv
<1>1. StepVms(p) /\ StepRows(p) /\ \A q \in Goroutines : Walk(p, q) BY WorkEffects DEF Effects
<1>2. \A q \in Goroutines : CopyRight(q)' BY WorkCopies
<1>3. \A w \in vms' : w.id \in Ids /\ w.disk \in Ids \cup {0} BY <1>0 DEF SnapInv, HostTyped, VmsTyped, VM
<1>4. \A w \in vms' : VmNew(x, y, w) => w.id = x.id /\ Launching(p) /\ w.disk = x.sb.rootfs
  <2> SUFFICES ASSUME NEW w \in vms', VmNew(x, y, w) PROVE w.id = x.id /\ Launching(p) /\ w.disk = x.sb.rootfs
    OBVIOUS
  <2>1. Launching(p) /\ w.id = x.sb.id /\ w.disk = x.sb.rootfs BY DEF VmNew, Launching
  <2>2. x.sb.id = x.id BY <2>1, LaunchingFacts DEF Launching
  <2> QED BY <2>1, <2>2
<1>5. \A v, w \in vms' : v.id = w.id => v = w
  <2>1. OneVM BY <1>0 DEF VmsRight, OneVM
  <2>2. x.pc \in {"start_vm", "start_clone"} => \A v \in vms : v.id # x.sb.id BY LaunchingFacts
  <2>3. OneVM' BY <1>1, <2>1, <2>2 DEF StepVms
  <2> QED BY <2>3 DEF OneVM
<1>6. ASSUME NEW w \in vms', w.disk # 0 PROVE \E r \in sandboxes' : r.id = w.id /\ r.rootfs = w.disk
  <2>1. CASE \E v \in vms : VmKept(x, y, v, w)
    <3>1. PICK v \in vms : VmKept(x, y, v, w) BY <2>1
    <3>2. w.id = v.id /\ w.disk = v.disk BY <1>6, <3>1 DEF VmKept
    <3>3. PICK s \in sandboxes : s.id = v.id /\ s.rootfs = v.disk BY <1>0, <1>6, <3>2 DEF VmsRight
    <3>4. ~(x.pc = "delete_row" /\ s.id = x.id) BY <1>0, <1>6, <3>2, <3>3 DEF VmsRight
    <3> QED BY <1>1, <3>2, <3>3, <3>4 DEF StepRows, SameSandbox
  <2>2. CASE VmNew(x, y, w)
    <3>1. w.id = x.id /\ Launching(p) /\ w.disk = x.sb.rootfs BY <1>4, <2>2
    <3>2. PICK s \in sandboxes : s.id = x.id /\ s.rootfs = x.sb.rootfs BY <3>1, LaunchingFacts DEF Launching
    <3>3. x.pc # "delete_row" BY <3>1 DEF Launching
    <3> QED BY <1>1, <3>1, <3>2, <3>3 DEF StepRows, SameSandbox
  <2> QED BY <1>1, <2>1, <2>2 DEF StepVms
<1>7. ASSUME NEW w \in vms', Up(w.id)' PROVE w.disk # 0
  <2>0. 0 \notin Ids BY <1>0, IdsTyped
  <2>1. CASE VmNew(x, y, w)
    <3>1. Launching(p) /\ w.disk = x.sb.rootfs BY <1>4, <2>1
    <3> QED BY <2>0, <3>1, LaunchingFacts DEF Launching
  <2>2. CASE \E v \in vms : VmKept(x, y, v, w)
    <3>1. PICK v \in vms : VmKept(x, y, v, w) BY <2>2
    <3>2. w.id = v.id BY <3>1 DEF VmKept
    <3>a. PICK id \in Ids : id = w.id BY <1>3
    <3>b. Up(id)' BY <1>7, <3>a DEF Up
    <3>c. Up(id) \/ (Launching(p) /\ id = x.id) BY <3>b, UpBefore
    <3>3. Up(v.id) \/ (Launching(p) /\ v.id = x.id) BY <3>2, <3>a, <3>c
    <3>4. Up(v.id) BY <3>3, LaunchingFacts DEF Launching
    <3>5. v.disk # 0 BY <1>0, <3>4 DEF VmsRight
    <3>6. SUFFICES ASSUME w.disk # v.disk PROVE FALSE BY <3>5
    <3>7. Unlinks(x, v.disk) BY <3>1, <3>6 DEF VmKept
    <3>8. CASE x.pc = "remove_rootfs" /\ v.disk = x.sb.rootfs
      <4>1. x.pc \notin NoCopy BY <3>8 DEF NoCopy, NoSandbox, FanoutPCs
      <4>2. v.id = x.id BY <1>0, <3>5, <3>8, <4>1, VmPath
      <4> QED BY <3>4, <3>8, <4>2, RemovedNotUp
    <3>9. CASE x.pc = "bring_up" /\ x.staged /\ v.disk = x.snap.rootfs
      BY <1>0, <3>9 DEF DiskInv, FilesRight, Stages
    <3> QED BY <3>7, <3>8, <3>9 DEF Unlinks
  <2> QED BY <1>1, <2>1, <2>2 DEF StepVms
<1>8. ASSUME NEW q \in Goroutines, NEW w \in vms', proc'[q].id = w.id PROVE proc'[q].pc \notin Unlaunched
  <2>0. proc'[q].pc # "idle" /\ proc[q].id = w.id /\ WalkPC(proc[q].pc, proc'[q].pc)
    BY <1>0, <1>1, <1>3, <1>8, IdsTyped DEF Walk
  <2>1. CASE VmNew(x, y, w)
    <3>1. w.id = x.id /\ Launching(p) BY <1>4, <2>1
    <3>2. q = p BY <2>0, <3>1, LaunchingFacts DEF Launching
    <3> QED BY <3>1, <3>2 DEF Launching, Unlaunched, NewPCs
  <2>2. CASE \E v \in vms : VmKept(x, y, v, w)
    <3>1. PICK v \in vms : w.id = v.id BY <2>2 DEF VmKept
    <3> QED BY <1>0, <2>0, <3>1, WalksOn DEF VmsRight
  <2> QED BY <1>1, <2>1, <2>2 DEF StepVms
<1>9. ASSUME NEW q \in Goroutines, NEW w \in vms', proc'[q].id = w.id, proc'[q].pc = "delete_row" PROVE w.disk = 0
  <2>0. proc[q].id = w.id /\ WalkPC(proc[q].pc, proc'[q].pc) BY <1>1, <1>9 DEF Walk
  <2>1. CASE q = p /\ x.pc = "remove_rootfs"
    <3>1. SUFFICES ASSUME w.disk # 0 PROVE FALSE OBVIOUS
    <3>2. PICK r \in sandboxes' : r.id = w.id /\ r.rootfs = w.disk BY <1>6, <3>1
    <3>3. y.pc \notin NoCopy BY <1>9, <2>1 DEF NoCopy, NoSandbox, FanoutPCs
    <3>4. r.rootfs = y.sb.rootfs BY <1>2, <1>9, <2>1, <3>2, <3>3 DEF CopyRight
    <3>5. y.sb = x.sb BY <1>1, <2>1, <3>3 DEF Walk, Reads
    <3>6. w.disk # x.sb.rootfs BY <1>1, <2>1 DEF StepVms
    <3> QED BY <3>2, <3>4, <3>5, <3>6
  <2>2. CASE proc[q].pc = "delete_row"
    <3>1. CASE VmNew(x, y, w)
      <4>1. w.id = x.id /\ Launching(p) BY <1>4, <3>1
      <4>2. q = p BY <2>0, <4>1, LaunchingFacts DEF Launching
      <4> QED BY <2>2, <4>1, <4>2 DEF Launching
    <3>2. CASE \E v \in vms : VmKept(x, y, v, w) BY <1>0, <2>0, <2>2, <3>2 DEF VmsRight, VmKept
    <3> QED BY <1>1, <3>1, <3>2 DEF StepVms
  <2>3. proc[q].pc = "remove_rootfs" => q = p BY <1>1, <1>9 DEF Walk
  <2> QED BY <1>9, <2>0, <2>1, <2>2, <2>3, WalksOn
<1> QED BY <1>5, <1>6, <1>7, <1>8, <1>9 DEF VmsRight

\* Machines are stored while nobody else has the sandbox.
LEMMA WorkMachines == ASSUME NEW p \in Goroutines, Works(p) PROVE MachinesRight'
<1> DEFINE x == proc[p]
<1>0. SnapInv /\ DiskInv /\ MachinesRight /\ Quiet BY DEF Works, DiskInv
<1>1. StepMachines(p) /\ \A q \in Goroutines : Walk(p, q) BY WorkEffects DEF Effects
<1>2. machines' \subseteq machines \cup {x.id} BY <1>1 DEF StepMachines
<1>a. machines' \subseteq machines \/ x.pc = "store" BY <1>1 DEF StepMachines
<1>b. \A id \in machines : id \in machines' \/ (x.pc = "take_machine" /\ id = x.id) BY <1>1 DEF StepMachines
<1>3. ASSUME NEW q \in Goroutines, proc'[q].pc \in Unstored PROVE proc'[q].id \notin machines'
  <2>1. proc'[q].pc # "idle" BY <1>3 DEF Unstored, Unlaunched, NewPCs, UpPCs
  <2>2. proc'[q].id = proc[q].id /\ WalkPC(proc[q].pc, proc'[q].pc) BY <1>1, <2>1 DEF Walk
  <2>3. CASE proc[q].pc = "take_machine"
    <3>1. q = p BY <1>1, <1>3, <2>3 DEF Walk, Unstored, Unlaunched, NewPCs, UpPCs
    <3> QED BY <1>1, <2>2, <2>3, <3>1 DEF StepMachines
  <2>4. CASE proc[q].pc \in Unstored
    <3>1. proc[q].id \notin machines BY <1>0, <2>4 DEF MachinesRight
    <3>2. SUFFICES ASSUME x.pc = "store", proc[q].id = x.id PROVE FALSE BY <1>2, <1>a, <2>2, <3>1
    <3>3. x.pc \notin StopPCs \cup NoSandbox BY <3>2 DEF StopPCs, Tail, NoSandbox, FanoutPCs
    <3>4. q = p BY <1>0, <3>2, <3>3, HasItsOwn
    <3>5. proc'[q].pc = "wait_agent" BY <1>1, <3>2, <3>4 DEF Walk, Edge
    <3> QED BY <1>3, <3>5 DEF Unstored, Unlaunched, NewPCs, UpPCs
  <2> QED BY <1>3, <2>2, <2>3, <2>4, WalksOn
<1>4. ASSUME NEW q \in Goroutines, proc'[q].pc \in Snapshotting PROVE proc'[q].id \in machines'
  <2>1. proc'[q].pc # "idle" BY <1>4 DEF Snapshotting
  <2>2. proc'[q].id = proc[q].id /\ proc[q].pc \in Snapshotting BY <1>1, <1>4, <2>1, WalksApart DEF Walk
  <2>3. proc[q].id \in machines BY <1>0, <2>2 DEF MachinesRight
  <2>4. proc[q].pc \notin StopPCs \cup NoSandbox BY <2>2 DEF Snapshotting, StopPCs, Tail, NoSandbox, FanoutPCs
  <2>5. \A r \in Goroutines \ {q} : proc[r].id # proc[q].id BY <1>0, <2>4, HasItsOwn
  <2>6. ~(x.pc = "take_machine" /\ proc[q].id = x.id) BY <2>2, <2>5 DEF Snapshotting
  <2> QED BY <1>b, <2>2, <2>3, <2>6
<1> QED BY <1>3, <1>4 DEF MachinesRight

\* Who stages is in a fan-out, with a snapshot.
LEMMA StagingFacts ==
    ASSUME SnapInv, DiskInv, NEW q \in Goroutines, Stages(q)
    PROVE  proc[q].pc \in FanoutPCs /\ proc[q].snap # NoRow /\ proc[q].snap.rootfs \in Ids
<1>1. proc[q].pc \in {"stage", "bring_up"} BY DEF DiskInv, Roles, Stages
<1>2. SnapLocal(proc[q]) BY DEF SnapInv, FramesOK
<1>3. proc[q].snap # NoRow BY <1>1, <1>2 DEF SnapLocal, HasSnapshot
<1> QED BY <1>1, <1>3, IdsTyped DEF FanoutPCs

\* No VM is started on a path that is being staged.
LEMMA LaunchApart ==
    ASSUME NEW p \in Goroutines, Works(p), Launching(p), NEW q \in Goroutines, Stages(q)
    PROVE  proc[p].sb.rootfs # proc[q].snap.rootfs
<1>0. SnapInv /\ DiskInv /\ PathsApart BY DEF Works, DiskInv
<1>1. proc[q].pc \in FanoutPCs /\ proc[q].snap # NoRow BY <1>0, StagingFacts
<1>2. CASE Restoring(p) BY <1>0, <1>1, <1>2 DEF PathsApart, Launching
<1>3. CASE Young(p) BY <1>0, <1>1, <1>3 DEF PathsApart, KnownSnap
<1> QED BY <1>2, <1>3, LaunchingFacts DEF Launching

\* The row of a sandbox that is up, or whose VM starts, was there and has its file.
LEMMA UpRowBefore ==
    ASSUME NEW p \in Goroutines, Works(p), NEW r \in sandboxes', Up(r.id)'
    PROVE  \E s \in sandboxes : /\ SameSandbox(r, s)
                                /\ Up(s.id) \/ (Launching(p) /\ s.id = proc[p].id /\ s.rootfs = proc[p].sb.rootfs)
<1> DEFINE x == proc[p]
<1>0. SnapInv /\ SnapInv' /\ DiskInv BY DEF Works
<1>1. StepRows(p) BY WorkEffects DEF Effects
<1>2. PICK id \in Ids : id = r.id BY <1>0, IdsTyped DEF SnapInv, RegInv, RegTypeOK, Sandbox
<1>3. Up(id)' BY <1>2 DEF Up
<1>4. Up(id) \/ (Launching(p) /\ id = x.id) BY <1>3, UpBefore
<1>5. CASE \E s \in sandboxes : SameSandbox(r, s)
  <2>1. PICK s \in sandboxes : SameSandbox(r, s) BY <1>5
  <2>2. s.id = id BY <1>2, <2>1 DEF SameSandbox
  <2>3. CASE Up(id) BY <2>1, <2>2, <2>3
  <2>4. CASE Launching(p) /\ id = x.id BY <2>1, <2>2, <2>4, LaunchingFacts DEF Launching
  <2> QED BY <1>4, <2>3, <2>4
<1>6. CASE x.pc \in Inserts /\ r.id = x.id
  <2>1. ~Launching(p) BY <1>6 DEF Launching, Inserts
  <2>2. x.pc \in Unstored /\ x.pc \notin UpPCs /\ x.pc \notin StopPCs \cup NoSandbox
    BY <1>6 DEF Inserts, Unstored, Unlaunched, NewPCs, UpPCs, StopPCs, Tail, NoSandbox, FanoutPCs
  <2>3. x.id \notin machines BY <1>0, <2>2 DEF DiskInv, MachinesRight
  <2>4. \A q \in Goroutines : proc[q].id = x.id => q = p BY <1>0, <2>2, HasItsOwn
  <2>5. ~Up(x.id) BY <2>2, <2>3, <2>4 DEF Up
  <2> QED BY <1>2, <1>4, <1>6, <2>1, <2>5
<1> QED BY <1>1, <1>5, <1>6 DEF StepRows

\* Files are there for the sandboxes that are up, and apart from staged ones.
LEMMA WorkFiles == ASSUME NEW p \in Goroutines, Works(p) PROVE FilesRight'
<1> DEFINE x == proc[p]
           y == proc'[p]
<1>0. SnapInv /\ SnapInv' /\ DiskInv /\ FilesRight /\ GuestKeepsDisk /\ Handles(p) BY DEF Works, DiskInv
<1>1. StepVms(p) /\ StepDisks(p) /\ \A q \in Goroutines : Walk(p, q) BY WorkEffects DEF Effects
<1>2. ASSUME NEW r \in sandboxes', Up(r.id)' PROVE r.rootfs \in DOMAIN disks'
  <2>1. PICK s \in sandboxes : /\ SameSandbox(r, s)
                               /\ Up(s.id) \/ (Launching(p) /\ s.id = x.id /\ s.rootfs = x.sb.rootfs)
    BY <1>2, UpRowBefore
  <2>2. s.rootfs \in DOMAIN disks BY <1>0, <2>1, LaunchedOnFile DEF FilesRight, Launching
  <2>3. ~Removes(x, y, s.rootfs)
    <3>1. CASE x.pc = "insert_row" BY <1>0, <3>1, NewPathUnknown DEF Removes, Unlinks, NewPCs
    <3>2. CASE x.pc = "remove_rootfs" /\ s.rootfs = x.sb.rootfs
      <4>1. CopyRight(p) /\ x.pc \notin NoCopy BY <1>0, <3>2 DEF DiskInv, NoCopy, NoSandbox, FanoutPCs
      <4>2. s.id = x.id BY <3>2, <4>1 DEF CopyRight
      <4> QED BY <2>1, <3>2, <4>2, RemovedNotUp DEF Launching
    <3>3. CASE x.pc = "bring_up" /\ x.staged /\ s.rootfs = x.snap.rootfs
      BY <1>0, <2>1, <3>3 DEF FilesRight, Stages, Launching
    <3> QED BY <3>1, <3>2, <3>3 DEF Removes, Unlinks
  <2> QED BY <1>1, <2>1, <2>2, <2>3 DEF StepDisks, SameSandbox
<1>3. ASSUME NEW q \in Goroutines, Stages(q)'
      PROVE  /\ \A r \in sandboxes' : Up(r.id)' => r.rootfs # proc'[q].snap.rootfs
             /\ \A w \in vms' : w.disk # proc'[q].snap.rootfs
  <2>1. /\ proc'[q].snap = proc[q].snap
        /\ Stages(q) \/ (q = p /\ x.pc = "stat_baked" /\ y.pc = "stage")
    <3>1. proc'[q].pc \in {"stage", "bring_up"} BY <1>1, <1>3 DEF Stages, Walk
    <3>2. proc'[q].snap = proc[q].snap /\ WalkPC(proc[q].pc, proc'[q].pc) BY <1>1, <3>1 DEF Walk
    <3>3. CASE proc'[q].staged BY <1>1, <3>2, <3>3 DEF Walk, Stages
    <3>4. CASE proc'[q].pc = "stage"
      <4>1. proc[q].pc \in {"stage", "stat_baked"} BY <3>2, <3>4 DEF WalkPC, Edge
      <4>2. proc[q].pc = "stat_baked" => q = p BY <1>1, <3>4 DEF Walk
      <4> QED BY <3>2, <3>4, <4>1, <4>2 DEF Stages
    <3> QED BY <1>3, <3>3, <3>4 DEF Stages
  <2>2. CASE q = p /\ x.pc = "stat_baked" /\ y.pc = "stage"
    <3>1. x.snap.rootfs \notin DOMAIN disks' BY <1>1, <2>2 DEF StepDisks, Lays
    <3>2. SnapLocal(x) /\ x.snap # NoRow BY <1>0, <2>2 DEF SnapInv, FramesOK, SnapLocal, HasSnapshot
    <3>3. x.snap.rootfs \in Ids /\ 0 \notin Ids BY <1>0, <3>2, IdsTyped
    <3>4. x.snap.rootfs \notin DOMAIN disks BY <1>1, <2>2 DEF StepDisks
    <3>5. \A w \in vms' : \E v \in vms : w.disk \in {v.disk, 0} BY <1>1, <2>2 DEF StepVms, VmNew, VmKept
    <3> QED BY <1>0, <1>2, <2>1, <2>2, <3>1, <3>3, <3>4, <3>5 DEF GuestKeepsDisk
  <2>3. CASE Stages(q)
    <3>1. proc[q].snap.rootfs \in Ids /\ 0 \notin Ids BY <1>0, <2>3, StagingFacts, IdsTyped
    <3>2. ASSUME NEW r \in sandboxes', Up(r.id)' PROVE r.rootfs # proc[q].snap.rootfs
      <4>1. PICK s \in sandboxes : /\ SameSandbox(r, s)
                                   /\ Up(s.id) \/ (Launching(p) /\ s.id = x.id /\ s.rootfs = x.sb.rootfs)
        BY <3>2, UpRowBefore
      <4> QED BY <1>0, <2>3, <4>1, LaunchApart DEF FilesRight, SameSandbox
    <3>3. ASSUME NEW w \in vms' PROVE w.disk # proc[q].snap.rootfs
      <4>1. CASE \E v \in vms : VmKept(x, y, v, w) BY <1>0, <2>3, <3>1, <4>1 DEF VmKept, FilesRight
      <4>2. CASE VmNew(x, y, w) BY <2>3, <4>2, LaunchApart DEF VmNew, Launching
      <4> QED BY <1>1, <4>1, <4>2 DEF StepVms
    <3> QED BY <2>1, <3>2, <3>3
  <2> QED BY <2>1, <2>2, <2>3
<1> QED BY <1>2, <1>3 DEF FilesRight

\* A file that a VM has open stays as it is.
LEMMA OpenFileStays ==
    ASSUME NEW p \in Goroutines, Works(p), NEW v \in vms, v.disk # 0,
           proc[p].pc = "remove_rootfs" => v.disk # proc[p].sb.rootfs
    PROVE  v.disk \in DOMAIN disks' /\ disks'[v.disk] = v.ver
<1> DEFINE x == proc[p]
           y == proc'[p]
<1>0. SnapInv /\ DiskInv BY DEF Works
<1>1. StepDisks(p) BY WorkEffects DEF Effects
<1>2. v.disk \in DOMAIN disks /\ disks[v.disk] = v.ver BY <1>0 DEF DiskInv, GuestKeepsDisk
<1>3. PICK r \in sandboxes : r.id = v.id /\ r.rootfs = v.disk BY <1>0 DEF DiskInv, VmsRight
<1>4. \A q \in Goroutines : Stages(q) => v.disk # proc[q].snap.rootfs BY <1>0 DEF DiskInv, FilesRight
<1>5. ~Removes(x, y, v.disk)
  <2>1. x.pc = "insert_row" => v.disk # x.id BY <1>0, <1>3, NewPathUnknown DEF NewPCs
  <2> QED BY <1>4, <2>1 DEF Removes, Unlinks, Stages
<1>6. ~Lays(x, y, v.disk)
  <2>1. SUFFICES ASSUME x.pc \in {"copy_rootfs", "clone_rootfs"}, v.disk = x.sb.rootfs PROVE FALSE
    BY <1>4 DEF Lays, Stages
  <2>2. x.pc \notin NoCopy /\ x.pc \in Unlaunched BY <2>1 DEF NoCopy, NoSandbox, FanoutPCs, Unlaunched
  <2>3. v.id = x.id BY <1>0, <2>1, <2>2, VmPath
  <2> QED BY <1>0, <2>2, <2>3 DEF DiskInv, VmsRight
<1> QED BY <1>1, <1>2, <1>5, <1>6 DEF StepDisks

\* Guests keep their disks.
LEMMA WorkDisk == ASSUME NEW p \in Goroutines, Works(p) PROVE GuestKeepsDisk'
<1> DEFINE x == proc[p]
           y == proc'[p]
<1>0. SnapInv /\ DiskInv BY DEF Works
<1>1. StepVms(p) /\ StepDisks(p) BY WorkEffects DEF Effects
<1> SUFFICES ASSUME NEW w \in vms', w.disk # 0 PROVE w.disk \in DOMAIN disks' /\ disks'[w.disk] = w.ver
  BY DEF GuestKeepsDisk
<1>2. CASE \E v \in vms : VmKept(x, y, v, w)
  <2>1. PICK v \in vms : VmKept(x, y, v, w) BY <1>2
  <2>2. w.disk = v.disk /\ w.ver = v.ver BY <2>1 DEF VmKept
  <2>3. x.pc = "remove_rootfs" => v.disk # x.sb.rootfs BY <1>1, <2>2 DEF StepVms
  <2> QED BY <2>2, <2>3, OpenFileStays
<1>3. CASE VmNew(x, y, w)
  <2>1. x.pc \in {"start_vm", "start_clone"} /\ x.pc \in LaidPCs BY <1>3 DEF VmNew, LaidPCs
  <2>2. /\ w.disk = x.sb.rootfs /\ x.sb.rootfs \in DOMAIN disks
        /\ w.ver = IF x.snap = NoRow THEN 0 ELSE files[x.snap.id].mem
        /\ x.snap # NoRow => files[x.snap.id].mem # Absent
    BY <1>3 DEF VmNew
  <2>3. disks[x.sb.rootfs] = w.ver BY <1>0, <2>1, <2>2 DEF DiskInv, Laid, Holds
  <2>4. w.disk \in DOMAIN disks' /\ disks'[w.disk] = disks[w.disk]
    BY <1>1, <2>1, <2>2 DEF StepDisks, Removes, Unlinks, Lays
  <2> QED BY <2>2, <2>3, <2>4
<1> QED BY <1>1, <1>2, <1>3 DEF StepVms

\* Nobody writes over the path of a sandbox that has not started its VM.
LEMMA LaidApart ==
    ASSUME NEW p \in Goroutines, Works(p), NEW q \in Goroutines, proc[q].pc \in LaidPCs
    PROVE  ~Lays(proc[p], proc'[p], proc[q].sb.rootfs)
<1> DEFINE x == proc[p]
           z == proc[q]
<1>0. SnapInv /\ DiskInv /\ PathsApart BY DEF Works, DiskInv
<1>1. z.pc \notin NoCopy /\ (Restoring(q) \/ Young(q)) /\ CopyRight(q)
  BY <1>0 DEF LaidPCs, NoCopy, NoSandbox, FanoutPCs, Young, Unlaunched, NewPCs, DiskInv
<1>2. SUFFICES ASSUME Lays(x, proc'[p], z.sb.rootfs) PROVE FALSE OBVIOUS
<1>3. q # p BY <1>2 DEF Lays, LaidPCs
<1>4. CASE x.pc \in {"copy_rootfs", "clone_rootfs"} /\ z.sb.rootfs = x.sb.rootfs
  <2>1. x.pc \notin NoCopy /\ x.pc \notin StopPCs \cup NoSandbox
    BY <1>4 DEF NoCopy, NoSandbox, FanoutPCs, StopPCs, Tail
  <2>2. main # "stop_all" /\ z.id # x.id BY <1>0, <1>3, <2>1, HasItsOwn
  <2>3. CopyRight(p) BY <1>0 DEF DiskInv
  <2>4. PICK r \in sandboxes : SameSandbox(r, x.sb) BY <2>1, <2>2, <2>3 DEF CopyRight
  <2>5. r.id = x.id /\ r.id = z.id BY <1>1, <1>4, <2>1, <2>3, <2>4 DEF CopyRight, SameSandbox
  <2> QED BY <2>2, <2>5
<1>5. CASE x.pc = "stage" /\ z.sb.rootfs = x.snap.rootfs
  <2>1. x.pc \in FanoutPCs /\ x.snap # NoRow BY <1>0, <1>5, StagingFacts DEF Stages
  <2>2. CASE Restoring(q) BY <1>0, <1>5, <2>1, <2>2 DEF PathsApart, LaidPCs
  <2>3. CASE Young(q) BY <1>0, <1>5, <2>1, <2>3 DEF PathsApart, KnownSnap
  <2> QED BY <1>1, <2>2, <2>3
<1> QED BY <1>2, <1>4, <1>5 DEF Lays

\* A snapshot's memory stays as long as another goroutine has it, or goes.
LEMMA MemoryStays ==
    ASSUME NEW p \in Goroutines, Works(p), NEW q \in Goroutines, proc[q].snap # NoRow,
           q = p => proc[p].pc \notin Snapshotting
    PROVE  \/ files'[proc[q].snap.id] = files[proc[q].snap.id]
           \/ proc[p].pc = "clean_up_snapshot" /\ files'[proc[q].snap.id] = NoDir
<1>0. SnapInv /\ DiskInv /\ SnapFilesRight BY DEF Works, DiskInv
<1>1. StepFiles(p) BY WorkEffects DEF Effects
<1>2. PICK sid \in SnapIds : sid = proc[q].snap.id BY <1>0, IdsTyped
<1>3. CASE sid = proc[p].snap.id /\ Written(proc[p], proc'[p], files[sid], files'[sid])
  <2>1. CASE q # p
    <3>1. proc[p].pc \notin Snapshotting BY <1>0, <1>2, <1>3, <2>1 DEF SnapFilesRight
    <3> QED BY <1>2, <1>3, <3>1 DEF Written, Snapshotting
  <2>2. CASE q = p BY <1>2, <1>3, <2>2 DEF Written, Snapshotting
  <2> QED BY <2>1, <2>2
<1> QED BY <1>1, <1>2, <1>3 DEF StepFiles

\* Files laid down for a VM hold what its memory will know.
LEMMA WorkLaid == ASSUME NEW p \in Goroutines, Works(p) PROVE \A q \in Goroutines : Laid(q)'
<1> SUFFICES ASSUME NEW q \in Goroutines PROVE Laid(q)' OBVIOUS
<1> DEFINE x == proc[p]
           z == proc[q]
           y == proc'[q]
<1>0. SnapInv /\ SnapInv' /\ DiskInv /\ Laid(q) /\ Roles(q) BY DEF Works, DiskInv
<1>1. Walk(p, q) /\ StepRows(p) /\ StepDisks(p) /\ StepFiles(p) BY WorkEffects DEF Effects
<1>a. \A path \in DOMAIN disks' : Lays(x, proc'[p], path) \/ (path \in DOMAIN disks /\ disks'[path] = disks[path])
  BY <1>1 DEF StepDisks
<1>2. ASSUME y.pc = "insert_row", y.id \in DOMAIN disks' PROVE disks'[y.id] = 0
  <2>1. z.pc = "insert_row" /\ y.id = z.id BY <1>1, <1>2, WalksApart DEF Walk
  <2>2. (\A r \in sandboxes : r.rootfs # z.id) /\ ~KnownSnap(z.id) BY <1>0, <2>1, NewPathUnknown DEF NewPCs
  <2>3. ~Lays(x, proc'[p], z.id)
    <3>1. CASE x.pc \in {"copy_rootfs", "clone_rootfs"} /\ z.id = x.sb.rootfs
      <4>1. x.pc \notin NoCopy /\ x.pc \notin StopPCs \cup NoSandbox
        BY <3>1 DEF NoCopy, NoSandbox, FanoutPCs, StopPCs, Tail
      <4>2. main # "stop_all" /\ CopyRight(p) BY <1>0, <4>1, HasItsOwn DEF DiskInv
      <4>3. PICK r \in sandboxes : SameSandbox(r, x.sb) BY <4>1, <4>2 DEF CopyRight
      <4> QED BY <2>2, <3>1, <4>3 DEF SameSandbox
    <3>2. CASE x.pc = "stage" /\ z.id = x.snap.rootfs
      <4>1. x.snap # NoRow BY <1>0, <3>2, StagingFacts DEF Stages
      <4> QED BY <2>2, <3>2, <4>1 DEF KnownSnap
    <3> QED BY <3>1, <3>2 DEF Lays
  <2> QED BY <1>0, <1>2, <1>a, <2>1, <2>3 DEF Laid, Holds
<1>3. ASSUME y.pc \in LaidPCs, y.sb.rootfs \in DOMAIN disks'
      PROVE  IF y.snap = NoRow THEN disks'[y.sb.rootfs] = 0
             ELSE files'[y.snap.id].mem # Absent => disks'[y.sb.rootfs] = files'[y.snap.id].mem
  <2>0. y.pc # "idle" /\ y.pc # "get_row" /\ y.pc \notin NoCopy
    BY <1>3 DEF LaidPCs, NoCopy, NoSandbox, FanoutPCs
  <2>1. y.id = z.id /\ y.snap = z.snap /\ WalkPC(z.pc, y.pc) BY <1>1, <2>0 DEF Walk
  <2>2. z.pc \in LaidPCs \cup {"insert_row", "copy_rootfs", "clone_rootfs"} BY <1>3, <2>1, WalksOn
  <2>3. CASE z.pc \in LaidPCs
    <3>1. y.sb = z.sb BY <1>1, <2>0, <2>3 DEF Walk, LaidPCs, Reads
    <3>2. ~Lays(x, proc'[p], z.sb.rootfs) BY <2>3, LaidApart
    <3>3. z.sb.rootfs \in DOMAIN disks /\ disks'[z.sb.rootfs] = disks[z.sb.rootfs] BY <1>3, <1>a, <3>1, <3>2
    <3>4. CASE z.snap = NoRow BY <1>0, <2>1, <2>3, <3>1, <3>3, <3>4 DEF Laid, Holds
    <3>5. CASE z.snap # NoRow
      <4>1. \/ files'[z.snap.id] = files[z.snap.id]
            \/ files'[z.snap.id] = NoDir
        BY <2>3, <3>5, MemoryStays DEF LaidPCs, Snapshotting
      <4>2. NoDir.mem = Absent BY DEF NoDir
      <4> QED BY <1>0, <2>1, <2>3, <3>1, <3>3, <3>5, <4>1, <4>2 DEF Laid, Holds
    <3> QED BY <3>4, <3>5
  <2>4. CASE z.pc \in {"insert_row", "copy_rootfs", "clone_rootfs"}
    <3>1. q = p BY <1>1, <1>3, <2>4 DEF Walk, LaidPCs
    <3>2. CASE z.pc = "insert_row"
      <4>1. y.snap = NoRow BY <1>0, <2>1, <3>2 DEF Roles
      <4>2. y.sb \in sandboxes' /\ y.sb.id = z.id BY <1>1, <2>0, <2>1, <3>2 DEF Walk, NoCopy
      <4>3. \A s \in sandboxes : s.id # z.id BY <1>1, <2>0, <3>1, <3>2 DEF StepRows, Inserts
      <4>4. y.sb.rootfs = z.id BY <1>1, <3>1, <3>2, <4>2, <4>3 DEF StepRows, SameSandbox
      <4>5. ~Lays(x, proc'[p], z.id) BY <3>1, <3>2 DEF Lays
      <4> QED BY <1>0, <1>3, <1>a, <3>2, <4>1, <4>4, <4>5 DEF Laid, Holds
    <3>3. CASE z.pc \in {"copy_rootfs", "clone_rootfs"}
      <4>1. SnapLocal(z) /\ z.snap # NoRow BY <1>0, <3>3 DEF SnapInv, FramesOK, SnapLocal, HasSnapshot
      <4>2. y.sb = z.sb BY <1>1, <2>0, <3>3 DEF Walk, Reads
      <4>3. Lays(x, proc'[p], z.sb.rootfs)
        BY <1>3, <2>1, <3>1, <3>3 DEF Lays, LaidPCs, WalkPC, Edge
      <4>4. disks'[z.sb.rootfs] = files[z.snap.id].disk BY <1>1, <1>3, <3>1, <4>2, <4>3 DEF StepDisks
      <4>5. z.pc \notin Snapshotting BY <3>3 DEF Snapshotting
      <4>6. files[z.snap.id].mem = files[z.snap.id].disk
        BY <1>0, <4>1, <4>5 DEF DiskInv, SnapFilesRight, Dir
      <4>7. files'[z.snap.id] = files[z.snap.id] BY <3>1, <3>3, <4>1, <4>5, MemoryStays
      <4> QED BY <2>1, <4>1, <4>2, <4>4, <4>6, <4>7
    <3> QED BY <2>4, <3>2, <3>3
  <2> QED BY <2>2, <2>3, <2>4
<1> QED BY <1>2, <1>3 DEF Laid, Holds

\* Nobody else touches the files of a snapshot in the making.
LEMMA MakerKeeps ==
    ASSUME NEW p \in Goroutines, Works(p), NEW q \in Goroutines, q # p, proc[q].pc \in Snapshotting
    PROVE  files'[proc[q].snap.id] = files[proc[q].snap.id]
<1>0. SnapInv /\ DiskInv /\ SnapFilesRight BY DEF Works, DiskInv
<1>1. StepFiles(p) BY WorkEffects DEF Effects
<1>2. SnapLocal(proc[p]) /\ SnapLocal(proc[q]) BY <1>0 DEF SnapInv, FramesOK
<1>3. proc[q].snap # NoRow BY <1>2 DEF SnapLocal, HasSnapshot
<1>4. PICK sid \in SnapIds : sid = proc[q].snap.id BY <1>0, <1>3, IdsTyped
<1>5. CASE sid = proc[p].snap.id /\ Written(proc[p], proc'[p], files[sid], files'[sid])
  <2>1. proc[p].snap # NoRow BY <1>2, <1>5 DEF Written, SnapLocal, HasSnapshot, Snapshotting
  <2> QED BY <1>0, <1>4, <1>5, <2>1 DEF SnapFilesRight
<1> QED BY <1>1, <1>4, <1>5 DEF StepFiles

\* Nobody writes over the disk of a sandbox that is being frozen.
LEMMA FrozenApart ==
    ASSUME NEW p \in Goroutines, Works(p), NEW q \in Goroutines, q # p, proc[q].pc \in Snapshotting
    PROVE  ~Lays(proc[p], proc'[p], proc[q].sb.rootfs)
<1> DEFINE x == proc[p]
           z == proc[q]
<1>0. SnapInv /\ DiskInv BY DEF Works
<1>1. z.pc \notin NoCopy /\ z.pc \notin StopPCs \cup NoSandbox
  BY DEF Snapshotting, NoCopy, NoSandbox, FanoutPCs, StopPCs, Tail
<1>2. main # "stop_all" /\ x.id # z.id BY <1>0, <1>1, HasItsOwn
<1>3. CopyRight(q) /\ CopyRight(p) BY <1>0 DEF DiskInv
<1>4. PICK r \in sandboxes : r.id = z.id /\ r.rootfs = z.sb.rootfs BY <1>1, <1>2, <1>3 DEF CopyRight, SameSandbox
<1>5. CASE x.pc \in {"copy_rootfs", "clone_rootfs"} /\ z.sb.rootfs = x.sb.rootfs
  <2>1. x.pc \notin NoCopy BY <1>5 DEF NoCopy, NoSandbox, FanoutPCs
  <2> QED BY <1>2, <1>3, <1>4, <1>5, <2>1 DEF CopyRight
<1>6. CASE x.pc = "stage" /\ z.sb.rootfs = x.snap.rootfs
  <2>1. Up(r.id) BY <1>0, <1>4 DEF DiskInv, MachinesRight, Up
  <2> QED BY <1>0, <1>4, <1>6, <2>1 DEF DiskInv, FilesRight, Stages
<1> QED BY <1>5, <1>6 DEF Lays

\* The memory of a paused VM is written: it knows the disk.
LEMMA MemoryWritten ==
    ASSUME NEW p \in Goroutines, Works(p), proc[p].pc = "write_memory", proc'[p].pc = "freeze_rootfs"
    PROVE  /\ files'[proc[p].snap.id].mem # Absent
           /\ proc[p].sb.rootfs \in DOMAIN disks' => disks'[proc[p].sb.rootfs] = files'[proc[p].snap.id].mem
<1> DEFINE x == proc[p]
<1>0. SnapInv /\ DiskInv BY DEF Works
<1>1. StepFiles(p) /\ StepDisks(p) BY WorkEffects DEF Effects
<1>2. PICK v \in vms : v.id = x.id /\ files'[x.snap.id].mem = v.ver BY <1>1 DEF StepFiles, Written
<1>3. v.ver # Absent BY <1>0, IdsTyped, SnapshotsAssumption DEF Content, Absent
<1>4. Up(v.id) BY <1>0, <1>2 DEF DiskInv, MachinesRight, Up, Snapshotting
<1>5. v.disk # 0 /\ disks[v.disk] = v.ver BY <1>0, <1>4 DEF DiskInv, VmsRight, GuestKeepsDisk
<1>6. v.disk = x.sb.rootfs
  <2>1. PICK r \in sandboxes : r.id = v.id /\ r.rootfs = v.disk BY <1>0, <1>5 DEF DiskInv, VmsRight
  <2>2. CopyRight(p) /\ x.pc \notin NoCopy BY <1>0 DEF DiskInv, NoCopy, NoSandbox, FanoutPCs
  <2> QED BY <1>2, <2>1, <2>2 DEF CopyRight
<1>7. \A path \in DOMAIN disks' : disks'[path] = disks[path] BY <1>1 DEF StepDisks, Lays
<1> QED BY <1>2, <1>3, <1>5, <1>6, <1>7

\* A sandbox that is being frozen stays paused.
LEMMA StaysPaused ==
    ASSUME NEW p \in Goroutines, Works(p), NEW q \in Goroutines, NEW w \in vms',
           proc'[q].pc \in {"write_memory", "freeze_rootfs"}, w.id = proc'[q].id
    PROVE  w.paused
<1> DEFINE x == proc[p]
           z == proc[q]
<1>0. SnapInv /\ DiskInv BY DEF Works
<1>1. Walk(p, q) /\ StepVms(p) BY WorkEffects DEF Effects
<1>2. z.id = w.id /\ z.pc \in {"write_memory", "freeze_rootfs", "pause"} BY <1>1, WalksOn DEF Walk
<1>3. z.pc \notin StopPCs \cup NoSandbox BY <1>2 DEF StopPCs, Tail, NoSandbox, FanoutPCs
<1>4. q # p => x.id # w.id BY <1>0, <1>2, <1>3, HasItsOwn
<1>5. CASE z.pc = "pause"
  <2>1. q = p /\ proc'[p].pc = "write_memory" BY <1>1, <1>5 DEF Walk, Edge
  <2>2. OneVM BY <1>0 DEF DiskInv, VmsRight, OneVM
  <2> QED BY <1>1, <1>2, <1>5, <2>1, <2>2 DEF StepVms
<1>6. CASE z.pc # "pause"
  <2>1. CASE \E v \in vms : VmKept(x, proc'[p], v, w)
    <3>1. PICK v \in vms : VmKept(x, proc'[p], v, w) BY <2>1
    <3>2. v.paused BY <1>0, <1>2, <1>6, <3>1 DEF VmKept, DiskInv, SnapFilesRight
    <3> QED BY <1>2, <1>4, <3>1, <3>2 DEF VmKept
  <2>2. CASE VmNew(x, proc'[p], w)
    <3>1. x.pc \in {"start_vm", "start_clone"} /\ w.id = x.sb.id BY <2>2 DEF VmNew
    <3>2. w.id = x.id BY <3>1, LaunchingFacts
    <3> QED BY <1>2, <1>4, <3>1, <3>2
  <2> QED BY <1>1, <2>1, <2>2 DEF StepVms
<1> QED BY <1>5, <1>6

\* Snapshots stay whole.
LEMMA WorkSnapFiles == ASSUME NEW p \in Goroutines, Works(p) PROVE SnapFilesRight'
<1> DEFINE x == proc[p]
<1>0. SnapInv /\ DiskInv /\ SnapFilesRight BY DEF Works, DiskInv
<1>1. StepSnaps(p) /\ StepFiles(p) /\ StepDisks(p) /\ \A q \in Goroutines : Walk(p, q) BY WorkEffects DEF Effects
<1>2. \A q \in Goroutines : SnapLocal(proc[q]) BY <1>0 DEF SnapInv, FramesOK
<1>3. \A q \in Goroutines : proc'[q].snap # NoRow => proc'[q].snap = proc[q].snap BY <1>1 DEF Walk
<1>4. ASSUME NEW q \in Goroutines, proc'[q].pc \in Snapshotting \cup {"clean_up_snapshot"}
      PROVE  /\ proc[q].snap # NoRow /\ proc'[q].snap = proc[q].snap /\ WalkPC(proc[q].pc, proc'[q].pc)
             /\ proc'[q].pc \in Snapshotting => proc[q].pc \in Snapshotting
             /\ proc'[q].pc = "clean_up_snapshot" => proc[q].pc = "clean_up_snapshot"
             /\ q # p => proc'[q] = proc[q]
             /\ proc'[q].sb = proc[q].sb \/ proc'[q].pc = "clean_up_snapshot"
  <2>1. proc'[q].pc \notin {"idle", "get_row"} BY <1>4 DEF Snapshotting
  <2>2. proc'[q].snap = proc[q].snap /\ WalkPC(proc[q].pc, proc'[q].pc) BY <1>1, <2>1 DEF Walk
  <2>3. /\ proc'[q].pc \in Snapshotting => proc[q].pc \in Snapshotting
        /\ proc'[q].pc = "clean_up_snapshot" => proc[q].pc = "clean_up_snapshot"
    BY <2>2, WalksApart
  <2>4. proc[q].snap # NoRow BY <1>2, <1>4, <2>3 DEF SnapLocal, HasSnapshot
  <2>5. q # p => proc'[q] = proc[q] BY <1>1, <1>4, <2>3 DEF Walk, Snapshotting
  <2>6. proc'[q].pc \in Snapshotting => proc'[q].pc \notin NoCopy /\ proc[q].pc \notin Reads
    BY <2>3 DEF Snapshotting, NoCopy, NoSandbox, FanoutPCs, Reads
  <2>7. proc'[q].sb = proc[q].sb \/ proc'[q].pc = "clean_up_snapshot" BY <1>1, <1>4, <2>6 DEF Walk
  <2> QED BY <2>2, <2>3, <2>4, <2>5, <2>7
<1>5. ASSUME NEW s \in snapshots' PROVE files'[s.id].mem # Absent /\ files'[s.id].mem = files'[s.id].disk
  <2>1. CASE s \in snapshots
    <3>1. s.id \in SnapIds BY <1>0, <2>1, IdsTyped
    <3>2. files'[s.id] = files[s.id]
      BY <1>0, <1>1, <2>1, <3>1 DEF StepFiles, Written, SnapFilesRight, Snapshotting
    <3> QED BY <1>0, <2>1, <3>2 DEF SnapFilesRight, SnapshotsWhole
  <2>2. CASE x.pc = "record_snapshot" /\ files' = files /\ s.id = x.snap.id
    BY <1>0, <2>2 DEF SnapFilesRight, Dir
  <2> QED BY <1>1, <2>1, <2>2 DEF StepSnaps
<1>6. ASSUME NEW q \in Goroutines, NEW o \in Goroutines, q # o, proc'[q].pc \in Snapshotting, proc'[o].snap # NoRow
      PROVE  proc'[q].snap.id # proc'[o].snap.id
  BY <1>0, <1>3, <1>4, <1>6 DEF SnapFilesRight
<1>7. ASSUME NEW q \in Goroutines, proc'[q].pc \in Snapshotting \cup {"clean_up_snapshot"}, NEW s \in snapshots'
      PROVE  s.id # proc'[q].snap.id
  <2>1. proc[q].snap # NoRow /\ proc'[q].snap = proc[q].snap
        /\ proc[q].pc \in Snapshotting \cup {"clean_up_snapshot"}
    BY <1>4, <1>7
  <2>2. CASE s \in snapshots BY <1>0, <2>1, <2>2 DEF SnapFilesRight
  <2>3. CASE x.pc = "record_snapshot" /\ s.id = x.snap.id
    <3>1. q # p BY <1>1, <1>7, <2>3 DEF Walk, Edge, Snapshotting
    <3>2. x.pc \in Snapshotting BY <2>3 DEF Snapshotting
    <3> QED BY <1>0, <2>1, <2>3, <3>1, <3>2 DEF SnapFilesRight
  <2> QED BY <1>1, <2>2, <2>3 DEF StepSnaps
<1>8. ASSUME NEW q \in Goroutines, proc'[q].snap # NoRow, proc'[q].pc \notin Snapshotting
      PROVE  files'[proc'[q].snap.id].mem = files'[proc'[q].snap.id].disk
  <2>1. proc'[q].snap = proc[q].snap /\ proc[q].pc \notin Snapshotting BY <1>1, <1>8 DEF Walk
  <2>2. files'[proc[q].snap.id] \in {files[proc[q].snap.id], NoDir} BY <1>8, <2>1, MemoryStays
  <2>3. NoDir.mem = NoDir.disk BY DEF NoDir
  <2> QED BY <1>0, <1>8, <2>1, <2>2, <2>3 DEF SnapFilesRight, Dir
<1>9. ASSUME NEW q \in Goroutines, proc'[q].pc = "freeze_rootfs"
      PROVE  /\ files'[proc'[q].snap.id].mem # Absent
             /\ proc'[q].sb.rootfs \in DOMAIN disks' =>
                  disks'[proc'[q].sb.rootfs] = files'[proc'[q].snap.id].mem
  <2>1. proc'[q].pc \in Snapshotting BY <1>9 DEF Snapshotting
  <2>2. proc'[q].snap = proc[q].snap /\ proc'[q].sb = proc[q].sb /\ WalkPC(proc[q].pc, proc'[q].pc)
    BY <1>4, <1>9, <2>1
  <2>3. CASE q = p
    <3>1. x.pc = "write_memory" BY <1>1, <1>9, <2>3 DEF Walk, Edge
    <3> QED BY <1>9, <2>2, <2>3, <3>1, MemoryWritten
  <2>4. CASE q # p
    <3>1. proc[q].pc = "freeze_rootfs" /\ proc[q].pc \in Snapshotting BY <1>4, <1>9, <2>1, <2>4
    <3>2. files'[proc[q].snap.id] = files[proc[q].snap.id] BY <2>4, <3>1, MakerKeeps
    <3>3. ~Lays(x, proc'[p], proc[q].sb.rootfs) BY <2>4, <3>1, FrozenApart
    <3> QED BY <1>0, <1>1, <2>2, <3>1, <3>2, <3>3 DEF SnapFilesRight, Dir, Holds, StepDisks
  <2> QED BY <2>3, <2>4
<1>10. ASSUME NEW q \in Goroutines, proc'[q].pc \in {"resume", "record_snapshot"}
       PROVE  /\ files'[proc'[q].snap.id].mem # Absent
              /\ files'[proc'[q].snap.id].mem = files'[proc'[q].snap.id].disk
  <2>1. proc'[q].pc \in Snapshotting BY <1>10 DEF Snapshotting
  <2>2. proc'[q].snap = proc[q].snap /\ proc[q].snap # NoRow BY <1>4, <2>1
  <2>3. CASE q # p
    <3>1. proc'[q] = proc[q] /\ proc[q].pc \in Snapshotting BY <1>4, <2>1, <2>3
    <3>2. files'[proc[q].snap.id] = files[proc[q].snap.id] BY <2>3, <3>1, MakerKeeps
    <3> QED BY <1>0, <1>10, <3>1, <3>2 DEF SnapFilesRight, Dir
  <2>4. CASE q = p /\ x.pc = "freeze_rootfs" /\ proc'[p].pc = "resume"
    <3>1. /\ files'[x.snap.id].mem = files[x.snap.id].mem
          /\ x.sb.rootfs \in DOMAIN disks /\ files'[x.snap.id].disk = disks[x.sb.rootfs]
      BY <1>1, <2>4 DEF StepFiles, Written
    <3> QED BY <1>0, <2>2, <2>4, <3>1 DEF SnapFilesRight, Dir, Holds
  <2>5. CASE q = p /\ x.pc = "resume"
    <3>1. x.snap.id \in SnapIds BY <1>0, <2>2, <2>5, IdsTyped
    <3>2. files'[x.snap.id] = files[x.snap.id] BY <1>1, <2>5, <3>1 DEF StepFiles, Written
    <3> QED BY <1>0, <2>2, <2>5, <3>2 DEF SnapFilesRight, Dir
  <2>6. q = p => Edge(x.pc, proc'[p].pc) BY <1>1 DEF Walk
  <2> QED BY <1>10, <2>3, <2>4, <2>5, <2>6 DEF Edge
<1>11. \A q \in Goroutines, w \in vms' :
          proc'[q].pc \in {"write_memory", "freeze_rootfs"} /\ w.id = proc'[q].id => w.paused
  BY StaysPaused
<1> QED BY <1>5, <1>6, <1>7, <1>8, <1>9, <1>10, <1>11 DEF SnapFilesRight, SnapshotsWhole, Dir, Holds

\* Hence every step of a handler keeps the invariant.
LEMMA HandlerDisk == ASSUME NEW p \in Goroutines, Works(p) PROVE DiskInv'
BY WorkRoles, WorkCopies, WorkLaid, WorkAlone, WorkQuiet, WorkPaths, WorkVms, WorkMachines, WorkFiles, WorkSnapFiles,
   WorkDisk DEF DiskInv

-----------------------------------------------------------------------------
(* Steps outside of the handlers keep it *)

\* A goroutine's request arrives, or a loop starts a destroy: with a new sandbox,
\* with one that has a row, or with none; with a snapshot of the table or one that
\* it is about to make.
Alike(x, y) == y.pc = x.pc /\ Same(x, y)
Enter(q, y) ==
    /\ ~y.staged /\ y.expires = NULL /\ y.id < nextId'
    /\ \/ y.pc \in {"insert_row", "insert_restore"} /\ q \in Requests /\ nextId <= y.id
       \/ y.pc = "not_started" /\ q \in Workers /\ nextId <= y.id
       \/ y.pc \in {"get_row", "read_ports", "add_port"}
       \/ y.pc \in {"stat_baked", "clean_up_snapshot", "pause"} /\ q \in Requests
    /\ y.pc \in {"insert_row", "get_row", "read_ports", "add_port"} => y.snap = NoRow
    /\ y.pc = "insert_row" => (y.id \in DOMAIN disks' => disks'[y.id] = 0)
    /\ y.pc \in {"read_ports", "add_port", "pause"} => y.sb \in sandboxes /\ y.sb.id = y.id
    /\ y.pc = "pause" =>
          /\ y.id \in machines /\ y.snap.rootfs = y.sb.rootfs
          /\ \A o \in Goroutines : proc[o].id # y.id /\ proc[o].snap.id # y.snap.id
          /\ \A s \in snapshots : s.id # y.snap.id
    /\ y.pc \in {"insert_restore", "not_started", "stat_baked", "clean_up_snapshot"} => y.snap \in snapshots
    /\ y.pc = "clean_up_snapshot" => \A s \in snapshots' : s.id # y.snap.id
    /\ y.pc = "insert_restore" =>
          \A o \in Goroutines : proc[o].pc \in FanoutPCs => proc[o].snap.rootfs # y.snap.rootfs
    /\ y.pc = "stat_baked" => \A o \in Goroutines : Restoring(o) => proc[o].snap.rootfs # y.snap.rootfs
EnterPCs == {"insert_row", "insert_restore", "not_started", "get_row", "read_ports", "add_port", "stat_baked",
             "clean_up_snapshot", "pause"}

\* Goroutines go on as they are, end, or begin.
OutsideProc ==
    /\ \A q \in Goroutines : Alike(proc[q], proc'[q]) \/ proc'[q] = Idle \/ Enter(q, proc'[q])
    /\ \A q, o \in Goroutines : q # o /\ ~Alike(proc[q], proc'[q]) /\ ~Alike(proc[o], proc'[o]) =>
          \/ proc'[q] = Idle \/ proc'[o] = Idle
          \/ "not_started" \in {proc'[q].pc, proc'[o].pc}
          \/ main' = "stop_all" /\ proc'[q].pc = "get_row" /\ proc'[o].pc = "get_row"
    /\ main = "stop_all" => main' = "stop_all" \/ \A q \in Goroutines : proc'[q] = Idle
    /\ machines' = machines \/ (machines' = {} /\ \A q \in Goroutines : proc'[q] = Idle)
    /\ nextId <= nextId'
\* Tables and host stay, but for what guests write, and files whose names are new.
OutsideHost ==
    /\ \A r \in sandboxes' : \E s \in sandboxes : SameSandbox(r, s)
    /\ \A s \in sandboxes : \E r \in sandboxes' : SameSandbox(r, s)
    /\ snapshots' \subseteq snapshots
    /\ OneVM' /\ \A w \in vms' : \E v \in vms : w.id = v.id /\ w.disk = v.disk /\ w.paused = v.paused
    /\ \A path \in Ids : path < nextId =>
          /\ path \in DOMAIN disks' <=> path \in DOMAIN disks
          /\ path \in DOMAIN disks =>
                disks'[path] = disks[path] \/ \E v \in vms : ~v.paused /\ v.disk = path
    /\ \A sid \in SnapIds : files'[sid].mem = files[sid].mem /\ files'[sid].disk = files[sid].disk
Outside ==
    /\ SnapInv /\ SnapInv' /\ DiskInv
    /\ OutsideProc /\ OutsideHost
    /\ Alone' /\ Quiet' /\ GuestKeepsDisk'

\* What an idle goroutine is.
LEMMA IdleFacts ==
    Idle.pc = "idle" /\ Idle.id = 0 /\ Idle.snap = NoRow /\ Idle.expires = NULL /\ ~Idle.staged
BY DEF Idle

\* A goroutine that enters is at the beginning.
LEMMA EnterAt == ASSUME NEW q, NEW y, Enter(q, y) PROVE y.pc \in EnterPCs
BY DEF Enter, EnterPCs

\* One that is not at a beginning went on.
LEMMA WentOn ==
    ASSUME OutsideProc, NEW q \in Goroutines, proc'[q].pc \notin EnterPCs \cup {"idle"}
    PROVE  Alike(proc[q], proc'[q]) /\ proc'[q].pc = proc[q].pc
BY IdleFacts, EnterAt DEF OutsideProc, Alike

\* Everybody is in its part.
LEMMA OutsideRoles == ASSUME Outside PROVE \A q \in Goroutines : Roles(q)'
<1> SUFFICES ASSUME NEW q \in Goroutines PROVE Roles(q)' OBVIOUS
<1> DEFINE y == proc'[q]
<1>0. Roles(q) /\ OutsideProc BY DEF Outside, DiskInv
<1>1. nextId \in Int /\ nextId' \in Int /\ 0 < nextId /\ nextId <= nextId' /\ proc[q].id \in Int
  BY IdsTyped DEF Outside, OutsideProc, SnapInv, HostTyped, EnvOK
<1>2. CASE Alike(proc[q], y) BY <1>0, <1>1, <1>2 DEF Alike, Same, Keeps, Roles
<1>3. CASE y = Idle
  <2>1. Idle.id < nextId' BY <1>1, IdleFacts
  <2> QED BY <1>3, <2>1, IdleFacts DEF Roles, CreatePCs, ClonePCs, Snapshotting, FanoutPCs
<1>4. CASE Enter(q, y)
  <2>1. y.pc \in EnterPCs BY <1>4, EnterAt
  <2> QED BY <1>4, <2>1 DEF Enter, EnterPCs, Roles, CreatePCs, ClonePCs, Snapshotting, FanoutPCs
<1> QED BY <1>0, <1>2, <1>3, <1>4 DEF OutsideProc

\* Copies of rows are right.
LEMMA OutsideCopies == ASSUME Outside PROVE \A q \in Goroutines : CopyRight(q)'
<1> SUFFICES ASSUME NEW q \in Goroutines, proc'[q].pc \notin NoCopy
             PROVE  /\ proc'[q].sb.id = proc'[q].id
                    /\ \A r \in sandboxes' : r.id = proc'[q].id <=> r.rootfs = proc'[q].sb.rootfs
                    /\ main' # "stop_all" => \E r \in sandboxes' : SameSandbox(r, proc'[q].sb)
  BY DEF CopyRight
<1> DEFINE y == proc'[q]
<1>0. CopyRight(q) /\ OutsideProc /\ OutsideHost /\ SnapInv BY DEF Outside, DiskInv
<1>1. y # Idle BY IdleFacts DEF NoCopy, NoSandbox
<1>2. CASE Alike(proc[q], y)
  <2>1. y.sb = proc[q].sb /\ y.id = proc[q].id /\ proc[q].pc \notin NoCopy BY <1>2 DEF Alike, Same, Keeps
  <2>2. main' # "stop_all" => main # "stop_all" BY <1>0, <1>1 DEF OutsideProc
  <2> QED BY <1>0, <2>1, <2>2 DEF CopyRight, OutsideHost, SameSandbox
<1>3. CASE Enter(q, y)
  <2>1. y.pc \in {"read_ports", "add_port", "pause"}
    BY <1>3, EnterAt DEF EnterPCs, NoCopy, NoSandbox, FanoutPCs
  <2>2. y.sb \in sandboxes /\ y.sb.id = y.id BY <1>3, <2>1 DEF Enter
  <2> QED BY <1>0, <2>2, RowsApart DEF RowsDiffer, OutsideHost, SameSandbox
<1> QED BY <1>0, <1>1, <1>2, <1>3 DEF OutsideProc

\* Paths of rows are of sandboxes already named.
LEMMA RowPathsOld == ASSUME SnapInv, NEW r \in sandboxes PROVE r.rootfs \in Ids /\ r.rootfs < nextId
<1>1. r.rootfs \in Ids /\ r.tap \in Taps BY IdsTyped
<1>2. Knows(r.rootfs, r.tap) BY DEF Knows
<1> QED BY <1>1, <1>2 DEF SnapInv, PathsOK

\* A file whose path a goroutine has for a VM that is not there, or paused, stays.
LEMMA OutsideHolds ==
    ASSUME Outside, NEW path \in Ids, path < nextId, NEW c, Holds(path, c),
           \A v \in vms : v.disk = path => v.paused
    PROVE  path \in DOMAIN disks' => disks'[path] = c
BY DEF Outside, OutsideHost, Holds

\* Files laid down are right.
LEMMA OutsideLaid == ASSUME Outside PROVE \A q \in Goroutines : Laid(q)'
<1> SUFFICES ASSUME NEW q \in Goroutines PROVE Laid(q)' OBVIOUS
<1> DEFINE z == proc[q]
           y == proc'[q]
<1>0. Laid(q) /\ Roles(q) /\ OutsideProc /\ OutsideHost /\ SnapInv /\ DiskInv BY DEF Outside, DiskInv
<1>1. ASSUME y.pc = "insert_row", y.id \in DOMAIN disks' PROVE disks'[y.id] = 0
  <2>1. CASE Alike(z, y)
    <3>1. z.pc = "insert_row" /\ y.id = z.id BY <1>1, <2>1 DEF Alike, Same, Keeps
    <3>2. z.id \in Ids /\ z.id < nextId /\ 0 \notin Ids
      BY <1>0, <3>1, IdsTyped DEF Roles, NoSandbox, FanoutPCs
    <3>3. ASSUME NEW v \in vms, v.disk = z.id PROVE FALSE
      <4>1. PICK r \in sandboxes : r.rootfs = v.disk BY <1>0, <3>2, <3>3 DEF DiskInv, VmsRight
      <4> QED BY <1>0, <3>1, <3>3, <4>1, NewPathUnknown DEF NewPCs
    <3>4. Holds(z.id, 0) BY <1>0, <3>1 DEF Laid
    <3> QED BY <1>1, <3>1, <3>2, <3>3, <3>4, OutsideHolds
  <2>2. CASE Enter(q, y) BY <1>1, <2>2 DEF Enter
  <2> QED BY <1>0, <1>1, <2>1, <2>2, IdleFacts DEF OutsideProc
<1>2. ASSUME y.pc \in LaidPCs, y.sb.rootfs \in DOMAIN disks'
      PROVE  IF y.snap = NoRow THEN disks'[y.sb.rootfs] = 0
             ELSE files'[y.snap.id].mem # Absent => disks'[y.sb.rootfs] = files'[y.snap.id].mem
  <2>1. Alike(z, y) /\ z.pc \in LaidPCs BY <1>0, <1>2, WentOn DEF LaidPCs, EnterPCs
  <2>2. y.sb = z.sb /\ y.snap = z.snap BY <2>1 DEF Alike, Same, Keeps
  <2>3. z.pc \notin NoCopy /\ z.pc \in Unlaunched /\ z.pc \notin StopPCs \cup NoSandbox
    BY <2>1 DEF LaidPCs, NoCopy, NoSandbox, FanoutPCs, Unlaunched, StopPCs, Tail
  <2>4. main # "stop_all" /\ CopyRight(q) BY <1>0, <2>3, HasItsOwn DEF DiskInv
  <2>5. PICK r \in sandboxes : SameSandbox(r, z.sb) BY <2>3, <2>4 DEF CopyRight
  <2>6. z.sb.rootfs \in Ids /\ z.sb.rootfs < nextId /\ 0 \notin Ids
    BY <1>0, <2>5, RowPathsOld, IdsTyped DEF SameSandbox
  <2>7. ASSUME NEW v \in vms, v.disk = z.sb.rootfs PROVE FALSE
    <3>1. v.id = z.id BY <1>0, <2>3, <2>6, <2>7, VmPath
    <3> QED BY <1>0, <2>3, <3>1 DEF DiskInv, VmsRight
  <2>8. CASE z.snap = NoRow
    <3>1. Holds(z.sb.rootfs, 0) BY <1>0, <2>1, <2>8 DEF Laid
    <3> QED BY <1>2, <2>2, <2>6, <2>7, <2>8, <3>1, OutsideHolds
  <2>9. CASE z.snap # NoRow
    <3>1. z.snap.id \in SnapIds BY <1>0, <2>9, IdsTyped
    <3>2. files'[z.snap.id].mem = files[z.snap.id].mem BY <1>0, <3>1 DEF OutsideHost
    <3>3. SUFFICES ASSUME files[z.snap.id].mem # Absent PROVE disks'[z.sb.rootfs] = files[z.snap.id].mem
      BY <2>2, <2>9, <3>2
    <3>4. Holds(z.sb.rootfs, files[z.snap.id].mem) BY <1>0, <2>1, <2>9, <3>3 DEF Laid
    <3> QED BY <1>2, <2>2, <2>6, <2>7, <3>4, OutsideHolds
  <2> QED BY <2>8, <2>9
<1> QED BY <1>1, <1>2 DEF Laid, Holds

\* Nobody but a snapshot handler learns a path that no snapshot names.
LEMMA OutsideKnown ==
    ASSUME Outside, NEW path, KnownSnap(path)'
    PROVE  \/ KnownSnap(path)
           \/ \E q \in Goroutines : Enter(q, proc'[q]) /\ proc'[q].pc = "pause" /\ proc'[q].snap.rootfs = path
<1>0. OutsideProc /\ OutsideHost BY DEF Outside
<1>1. CASE \E s \in snapshots' : s.rootfs = path BY <1>0, <1>1 DEF OutsideHost, KnownSnap
<1>2. ASSUME NEW q \in Goroutines, proc'[q].snap # NoRow, proc'[q].snap.rootfs = path
      PROVE  \/ KnownSnap(path)
             \/ Enter(q, proc'[q]) /\ proc'[q].pc = "pause"
  <2>1. CASE Alike(proc[q], proc'[q]) BY <1>2, <2>1 DEF Alike, Same, Keeps, KnownSnap
  <2>2. CASE Enter(q, proc'[q])
    <3>1. proc'[q].pc = "pause" \/ proc'[q].snap \in snapshots BY <1>2, <2>2, EnterAt DEF Enter, EnterPCs
    <3> QED BY <1>2, <2>2, <3>1 DEF KnownSnap
  <2> QED BY <1>0, <1>2, <2>1, <2>2, IdleFacts DEF OutsideProc
<1> QED BY <1>1, <1>2 DEF KnownSnap

\* Restores, fan-outs and new sandboxes keep to their paths.
LEMMA OutsidePaths == ASSUME Outside PROVE PathsApart'
<1>0. OutsideProc /\ OutsideHost /\ SnapInv /\ DiskInv /\ PathsApart BY DEF Outside, DiskInv
<1>1. ASSUME NEW q \in Goroutines, Restoring(q)'
      PROVE  \/ Restoring(q) /\ Alike(proc[q], proc'[q])
             \/ Enter(q, proc'[q]) /\ proc'[q].pc = "insert_restore"
  <2>1. q \in Requests /\ proc'[q].snap # NoRow /\ proc'[q].pc \in RestorePCs BY <1>1 DEF Restoring
  <2>2. CASE Alike(proc[q], proc'[q]) BY <2>1, <2>2 DEF Alike, Same, Keeps, Restoring
  <2>3. CASE Enter(q, proc'[q])
    <3>1. proc'[q].pc = "insert_restore" BY <2>1, <2>3, EnterAt DEF EnterPCs, RestorePCs
    <3> QED BY <2>3, <3>1
  <2> QED BY <1>0, <2>1, <2>2, <2>3, IdleFacts DEF OutsideProc
<1>2. ASSUME NEW q \in Goroutines, Restoring(q)', proc'[q].pc # "insert_restore"
      PROVE  proc'[q].sb.rootfs = proc'[q].snap.rootfs
  BY <1>0, <1>1, <1>2 DEF Alike, Same, Keeps, PathsApart
<1>3. ASSUME NEW q \in Goroutines, NEW f \in Goroutines, Restoring(q)', proc'[f].pc \in FanoutPCs
      PROVE  proc'[q].snap.rootfs # proc'[f].snap.rootfs
  <2>1. \/ Alike(proc[f], proc'[f]) /\ proc[f].pc \in FanoutPCs /\ proc'[f].snap = proc[f].snap
        \/ Enter(f, proc'[f]) /\ proc'[f].pc = "stat_baked"
    <3>1. CASE Alike(proc[f], proc'[f]) BY <1>3, <3>1 DEF Alike, Same, Keeps
    <3>2. CASE Enter(f, proc'[f]) BY <1>3, <3>2, EnterAt DEF EnterPCs, FanoutPCs
    <3> QED BY <1>0, <1>3, <3>1, <3>2, IdleFacts DEF OutsideProc, FanoutPCs
  <2>2. CASE Restoring(q) /\ Alike(proc[q], proc'[q])
    <3>1. proc'[q].snap = proc[q].snap BY <2>2 DEF Alike, Same, Keeps
    <3> QED BY <1>0, <2>1, <2>2, <3>1 DEF PathsApart, Enter
  <2>3. CASE Enter(q, proc'[q]) /\ proc'[q].pc = "insert_restore" /\ ~Alike(proc[q], proc'[q])
    <3>1. CASE Alike(proc[f], proc'[f]) /\ proc[f].pc \in FanoutPCs /\ proc'[f].snap = proc[f].snap
      BY <2>3, <3>1 DEF Enter
    <3>2. CASE proc'[f].pc = "stat_baked" /\ ~Alike(proc[f], proc'[f])
      <4>1. q # f BY <2>3, <3>2
      <4> QED BY <1>0, <2>3, <3>2, <4>1, IdleFacts DEF OutsideProc
    <3>3. Alike(proc[f], proc'[f]) => proc[f].pc \in FanoutPCs /\ proc'[f].snap = proc[f].snap
      BY <1>3 DEF Alike, Same, Keeps
    <3> QED BY <2>1, <3>1, <3>2, <3>3
  <2>4. Alike(proc[q], proc'[q]) => Restoring(q) BY <1>3 DEF Alike, Same, Keeps, Restoring
  <2> QED BY <1>1, <1>3, <2>2, <2>3, <2>4
<1>4. ASSUME NEW q \in Goroutines, Young(q)' PROVE (~KnownSnap(proc[q].sb.rootfs))'
  <2>0. proc'[q].pc \in (Unlaunched \cup UpPCs) \ (NewPCs \cup {"insert_restore", "copy_rootfs"}) /\ ~Restoring(q)'
    BY <1>4 DEF Young
  <2>1. Alike(proc[q], proc'[q]) BY <1>0, <2>0, WentOn DEF Unlaunched, UpPCs, NewPCs, EnterPCs
  <2>2. Young(q) /\ proc'[q].sb = proc[q].sb
    BY <2>0, <2>1 DEF Alike, Same, Keeps, Young, Restoring
  <2>3. PICK path : path = proc'[q].sb.rootfs OBVIOUS
  <2>4. ~KnownSnap(path) BY <1>0, <2>2, <2>3 DEF PathsApart
  <2>5. SUFFICES ASSUME KnownSnap(path)' PROVE FALSE BY <2>3 DEF KnownSnap
  <2>6. PICK o \in Goroutines : Enter(o, proc'[o]) /\ proc'[o].pc = "pause" /\ proc'[o].snap.rootfs = path
    BY <2>4, <2>5, OutsideKnown
  <2>7. /\ proc'[o].sb \in sandboxes /\ proc'[o].sb.id = proc'[o].id /\ proc'[o].sb.rootfs = path
        /\ proc[q].id # proc'[o].id
    BY <2>6 DEF Enter
  <2>8. proc[q].pc \notin NoCopy /\ CopyRight(q)
    BY <1>0, <2>2 DEF Young, Unlaunched, UpPCs, NewPCs, NoCopy, NoSandbox, FanoutPCs, DiskInv
  <2> QED BY <2>2, <2>3, <2>7, <2>8 DEF CopyRight
<1> QED BY <1>2, <1>3, <1>4 DEF PathsApart

\* No sandbox comes up.
LEMMA OutsideUp == ASSUME Outside, NEW id, Up(id)' PROVE Up(id)
<1>0. OutsideProc BY DEF Outside
<1>1. machines' \subseteq machines BY <1>0 DEF OutsideProc
<1>2. ASSUME NEW q \in Goroutines, proc'[q].id = id, proc'[q].pc \in UpPCs PROVE Up(id)
  <2>1. Alike(proc[q], proc'[q]) BY <1>0, <1>2, WentOn DEF UpPCs, EnterPCs
  <2> QED BY <1>2, <2>1 DEF Alike, Same, Keeps, Up
<1> QED BY <1>1, <1>2 DEF Up

\* VMs keep to the ids and paths of rows.
LEMMA OutsideVms == ASSUME Outside PROVE VmsRight'
<1>0. OutsideProc /\ OutsideHost /\ SnapInv /\ DiskInv /\ VmsRight /\ Quiet BY DEF Outside, DiskInv
<1>1. \A v, w \in vms' : v.id = w.id => v = w BY <1>0 DEF OutsideHost, OneVM
<1>2. ASSUME NEW w \in vms', w.disk # 0 PROVE \E r \in sandboxes' : r.id = w.id /\ r.rootfs = w.disk
  <2>1. PICK v \in vms : w.id = v.id /\ w.disk = v.disk BY <1>0 DEF OutsideHost
  <2>2. PICK s \in sandboxes : s.id = v.id /\ s.rootfs = v.disk BY <1>0, <1>2, <2>1 DEF VmsRight
  <2> QED BY <1>0, <2>1, <2>2 DEF OutsideHost, SameSandbox
<1>3. ASSUME NEW w \in vms', Up(w.id)' PROVE w.disk # 0
  <2>1. PICK v \in vms : w.id = v.id /\ w.disk = v.disk BY <1>0 DEF OutsideHost
  <2>2. PICK id : id = w.id OBVIOUS
  <2>3. Up(id)' BY <1>3, <2>2 DEF Up
  <2>4. Up(id) BY <2>3, OutsideUp
  <2> QED BY <1>0, <2>1, <2>2, <2>4 DEF VmsRight
<1>4. ASSUME NEW q \in Goroutines, NEW w \in vms', proc'[q].id = w.id
      PROVE  proc'[q].pc \notin Unlaunched /\ (proc'[q].pc = "delete_row" => w.disk = 0)
  <2>1. PICK v \in vms : w.id = v.id /\ w.disk = v.disk BY <1>0 DEF OutsideHost
  <2>2. CASE Alike(proc[q], proc'[q]) BY <1>0, <1>4, <2>1, <2>2 DEF Alike, Same, Keeps, VmsRight
  <2>3. CASE proc'[q] = Idle BY <2>3, IdleFacts DEF Unlaunched, NewPCs
  <2>4. CASE Enter(q, proc'[q])
    <3>1. v.id \in Int /\ nextId \in Int /\ v.id < nextId BY <1>0, IdsTyped DEF Quiet
    <3>2. ~(nextId <= proc'[q].id) BY <1>4, <2>1, <3>1
    <3> QED BY <2>4, <3>2 DEF Enter, Unlaunched, NewPCs
  <2> QED BY <1>0, <2>2, <2>3, <2>4 DEF OutsideProc
<1> QED BY <1>1, <1>2, <1>3, <1>4 DEF VmsRight

\* Machines stay.
LEMMA OutsideMachines == ASSUME Outside PROVE MachinesRight'
<1>0. OutsideProc /\ SnapInv /\ DiskInv /\ MachinesRight /\ Quiet BY DEF Outside, DiskInv
<1>1. machines' \subseteq machines BY <1>0 DEF OutsideProc
<1>2. ASSUME NEW q \in Goroutines
      PROVE  /\ proc'[q].pc \in Unstored => proc'[q].id \notin machines'
             /\ proc'[q].pc \in Snapshotting => proc'[q].id \in machines'
  <2>1. CASE proc'[q] = Idle
    BY <2>1, IdleFacts DEF Unstored, Unlaunched, NewPCs, UpPCs, Snapshotting
  <2>2. CASE proc'[q] # Idle /\ Alike(proc[q], proc'[q])
    BY <1>0, <1>1, <2>2 DEF Alike, Same, Keeps, MachinesRight, OutsideProc
  <2>3. CASE proc'[q] # Idle /\ Enter(q, proc'[q])
    <3>1. machines' = machines BY <1>0, <2>3 DEF OutsideProc
    <3>2. nextId \in Int /\ \A id \in machines : id \in Int /\ id < nextId
      BY <1>0, IdsTyped DEF Quiet, SnapInv, HostTyped, MemoryTyped
    <3>3. nextId <= proc'[q].id => proc'[q].id \notin machines BY <3>2
    <3> QED BY <2>3, <3>1, <3>3 DEF Enter, Unstored, Unlaunched, NewPCs, UpPCs, Snapshotting
  <2> QED BY <1>0, <2>1, <2>2, <2>3 DEF OutsideProc
<1> QED BY <1>2 DEF MachinesRight

\* So do the files of the sandboxes that are up.
LEMMA OutsideFiles == ASSUME Outside PROVE FilesRight'
<1>0. OutsideProc /\ OutsideHost /\ SnapInv /\ DiskInv /\ FilesRight BY DEF Outside, DiskInv
<1>1. ASSUME NEW r \in sandboxes', Up(r.id)' PROVE \E s \in sandboxes : SameSandbox(r, s) /\ Up(s.id)
  <2>1. PICK id : id = r.id OBVIOUS
  <2>2. Up(id)' BY <1>1, <2>1 DEF Up
  <2>3. Up(id) BY <2>2, OutsideUp
  <2> QED BY <1>0, <2>1, <2>3 DEF OutsideHost, SameSandbox
<1>2. ASSUME NEW r \in sandboxes', Up(r.id)' PROVE r.rootfs \in DOMAIN disks'
  <2>1. PICK s \in sandboxes : SameSandbox(r, s) /\ Up(s.id) BY <1>1, <1>2
  <2>2. s.rootfs \in DOMAIN disks BY <1>0, <2>1 DEF FilesRight
  <2>3. s.rootfs \in Ids /\ s.rootfs < nextId BY <1>0, RowPathsOld
  <2> QED BY <1>0, <2>1, <2>2, <2>3 DEF OutsideHost, SameSandbox
<1>3. ASSUME NEW q \in Goroutines, Stages(q)'
      PROVE  /\ \A r \in sandboxes' : Up(r.id)' => r.rootfs # proc'[q].snap.rootfs
             /\ \A w \in vms' : w.disk # proc'[q].snap.rootfs
  <2>1. proc'[q].pc = "stage" \/ proc'[q].staged BY <1>3 DEF Stages
  <2>2. Alike(proc[q], proc'[q]) BY <1>0, <2>1, IdleFacts DEF OutsideProc, Enter
  <2>3. Stages(q) /\ proc'[q].snap = proc[q].snap BY <2>1, <2>2 DEF Alike, Same, Keeps, Stages
  <2> QED BY <1>0, <1>1, <2>3 DEF FilesRight, SameSandbox, OutsideHost
<1> QED BY <1>2, <1>3 DEF FilesRight

\* Snapshots stay whole.
LEMMA OutsideSnapFiles == ASSUME Outside PROVE SnapFilesRight'
<1>0. OutsideProc /\ OutsideHost /\ SnapInv /\ DiskInv /\ SnapFilesRight BY DEF Outside, DiskInv
<1>1. \A s \in snapshots : /\ files'[s.id].mem = files[s.id].mem /\ files'[s.id].disk = files[s.id].disk
                           /\ files'[s.id].mem # Absent /\ files'[s.id].mem = files'[s.id].disk
  BY <1>0, IdsTyped DEF OutsideHost, SnapFilesRight, SnapshotsWhole
<1>2. ASSUME NEW q \in Goroutines, proc'[q].snap # NoRow
      PROVE  \/ Alike(proc[q], proc'[q]) /\ proc'[q].snap = proc[q].snap /\ proc'[q].pc = proc[q].pc
             \/ Enter(q, proc'[q]) /\ (proc'[q].snap \in snapshots \/ proc'[q].pc = "pause")
  <2>1. CASE Alike(proc[q], proc'[q]) BY <2>1 DEF Alike, Same, Keeps
  <2>2. CASE Enter(q, proc'[q]) BY <1>2, <2>2, EnterAt DEF Enter, EnterPCs
  <2> QED BY <1>0, <1>2, <2>1, <2>2, IdleFacts DEF OutsideProc
<1>3. ASSUME NEW q \in Goroutines, proc'[q].pc \in Snapshotting \cup {"clean_up_snapshot"}
      PROVE  \/ Alike(proc[q], proc'[q]) /\ proc'[q].snap = proc[q].snap /\ proc'[q].pc = proc[q].pc
             \/ Enter(q, proc'[q]) /\ proc'[q].pc \in {"pause", "clean_up_snapshot"} /\ ~Alike(proc[q], proc'[q])
  <2>1. CASE Alike(proc[q], proc'[q]) BY <2>1 DEF Alike, Same, Keeps
  <2>2. CASE Enter(q, proc'[q]) /\ ~Alike(proc[q], proc'[q])
    BY <1>3, <2>2, EnterAt DEF Enter, EnterPCs, Snapshotting
  <2>3. proc'[q] # Idle BY <1>3, IdleFacts DEF Snapshotting
  <2> QED BY <1>0, <2>1, <2>2, <2>3 DEF OutsideProc
<1>4. ASSUME NEW q \in Goroutines, NEW o \in Goroutines, q # o, proc'[q].pc \in Snapshotting, proc'[o].snap # NoRow
      PROVE  proc'[q].snap.id # proc'[o].snap.id
  <2>1. CASE Alike(proc[q], proc'[q]) /\ proc'[q].snap = proc[q].snap /\ proc'[q].pc = proc[q].pc
    <3>1. CASE proc'[o].snap = proc[o].snap BY <1>0, <1>4, <2>1, <3>1 DEF SnapFilesRight
    <3>2. CASE proc'[o].snap \in snapshots BY <1>0, <1>4, <2>1, <3>2 DEF SnapFilesRight
    <3>3. CASE Enter(o, proc'[o]) /\ proc'[o].pc = "pause" BY <3>3, <2>1 DEF Enter
    <3> QED BY <1>2, <1>4, <3>1, <3>2, <3>3
  <2>2. CASE Enter(q, proc'[q]) /\ proc'[q].pc = "pause" /\ ~Alike(proc[q], proc'[q])
    <3>1. CASE proc'[o].snap = proc[o].snap BY <2>2, <3>1 DEF Enter
    <3>2. CASE proc'[o].snap \in snapshots BY <2>2, <3>2 DEF Enter
    <3>3. CASE proc'[o].pc = "pause" /\ ~Alike(proc[o], proc'[o])
      BY <1>0, <1>4, <2>2, <3>3, IdleFacts DEF OutsideProc
    <3>4. Alike(proc[o], proc'[o]) => proc'[o].snap = proc[o].snap BY DEF Alike, Same, Keeps
    <3> QED BY <1>2, <1>4, <3>1, <3>2, <3>3, <3>4
  <2> QED BY <1>3, <1>4, <2>1, <2>2 DEF Snapshotting
<1>5. ASSUME NEW q \in Goroutines, proc'[q].pc \in Snapshotting \cup {"clean_up_snapshot"}, NEW s \in snapshots'
      PROVE  s.id # proc'[q].snap.id
  <2>1. s \in snapshots BY <1>0 DEF OutsideHost
  <2> QED BY <1>0, <1>3, <1>5, <2>1 DEF SnapFilesRight, Enter
<1>a. ASSUME NEW q \in Goroutines, proc[q].snap # NoRow
      PROVE  /\ files'[proc[q].snap.id].mem = files[proc[q].snap.id].mem
             /\ files'[proc[q].snap.id].disk = files[proc[q].snap.id].disk
  BY <1>0, <1>a, IdsTyped DEF OutsideHost
<1>6. ASSUME NEW q \in Goroutines, proc'[q].snap # NoRow, proc'[q].pc \notin Snapshotting
      PROVE  files'[proc'[q].snap.id].mem = files'[proc'[q].snap.id].disk
  <2>1. CASE proc'[q].snap = proc[q].snap /\ proc'[q].pc = proc[q].pc
    BY <1>0, <1>6, <1>a, <2>1 DEF SnapFilesRight, Dir
  <2>2. CASE proc'[q].snap \in snapshots BY <1>1, <2>2
  <2> QED BY <1>2, <1>6, <2>1, <2>2 DEF Snapshotting
<1>7. ASSUME NEW q \in Goroutines,
             proc'[q].pc \in {"write_memory", "freeze_rootfs", "resume", "record_snapshot"}
      PROVE  /\ Alike(proc[q], proc'[q]) /\ proc'[q].pc = proc[q].pc /\ proc'[q].id = proc[q].id
             /\ proc'[q].snap = proc[q].snap /\ proc'[q].sb = proc[q].sb /\ proc[q].snap # NoRow
  <2>1. Alike(proc[q], proc'[q]) BY <1>0, <1>7, WentOn DEF EnterPCs
  <2>2. SnapLocal(proc[q]) BY <1>0 DEF SnapInv, FramesOK
  <2> QED BY <1>7, <2>1, <2>2 DEF Alike, Same, Keeps, SnapLocal, HasSnapshot, Snapshotting
<1>8. ASSUME NEW q \in Goroutines, proc'[q].pc = "freeze_rootfs"
      PROVE  /\ files'[proc'[q].snap.id].mem # Absent
             /\ proc'[q].sb.rootfs \in DOMAIN disks' =>
                  disks'[proc'[q].sb.rootfs] = files'[proc'[q].snap.id].mem
  <2> DEFINE z == proc[q]
  <2>1. z.pc = "freeze_rootfs" /\ proc'[q].snap = z.snap /\ proc'[q].sb = z.sb /\ z.snap # NoRow BY <1>7, <1>8
  <2>2. files[z.snap.id].mem # Absent /\ Holds(z.sb.rootfs, files[z.snap.id].mem)
    BY <1>0, <2>1 DEF SnapFilesRight, Dir
  <2>3. z.pc \notin NoCopy /\ z.pc \notin StopPCs \cup NoSandbox
    BY <2>1 DEF NoCopy, NoSandbox, FanoutPCs, StopPCs, Tail
  <2>4. main # "stop_all" /\ CopyRight(q) BY <1>0, <2>3, HasItsOwn DEF DiskInv
  <2>5. PICK r \in sandboxes : SameSandbox(r, z.sb) BY <2>3, <2>4 DEF CopyRight
  <2>6. z.sb.rootfs \in Ids /\ z.sb.rootfs < nextId /\ 0 \notin Ids
    BY <1>0, <2>5, RowPathsOld, IdsTyped DEF SameSandbox
  <2>7. ASSUME NEW v \in vms, v.disk = z.sb.rootfs PROVE v.paused
    <3>1. v.id = z.id BY <1>0, <2>3, <2>6, <2>7, VmPath
    <3> QED BY <1>0, <2>1, <3>1 DEF SnapFilesRight
  <2>8. z.sb.rootfs \in DOMAIN disks' => disks'[z.sb.rootfs] = files[z.snap.id].mem
    BY <2>2, <2>6, <2>7, OutsideHolds
  <2> QED BY <1>a, <2>1, <2>2, <2>8
<1>9. ASSUME NEW q \in Goroutines, proc'[q].pc \in {"resume", "record_snapshot"}
      PROVE  /\ files'[proc'[q].snap.id].mem # Absent
             /\ files'[proc'[q].snap.id].mem = files'[proc'[q].snap.id].disk
  BY <1>0, <1>7, <1>9, <1>a DEF SnapFilesRight, Dir
<1>10. ASSUME NEW q \in Goroutines, NEW w \in vms', proc'[q].pc \in {"write_memory", "freeze_rootfs"},
              w.id = proc'[q].id
       PROVE  w.paused
  BY <1>0, <1>7, <1>10 DEF OutsideHost, SnapFilesRight
<1> QED BY <1>0, <1>1, <1>4, <1>5, <1>6, <1>8, <1>9, <1>10 DEF SnapFilesRight, SnapshotsWhole, Dir, Holds, OutsideHost

\* Hence such a step keeps the invariant.
LEMMA OutsideDisk == ASSUME Outside PROVE DiskInv'
<1>1. Alone' /\ Quiet' /\ GuestKeepsDisk' BY DEF Outside
<1> QED BY <1>1, OutsideRoles, OutsideCopies, OutsideLaid, OutsidePaths, OutsideVms, OutsideMachines, OutsideFiles,
           OutsideSnapFiles DEF DiskInv

\* Rows may change their deadlines; none is set.
RowsStay ==
    /\ \A r \in sandboxes' : r.expires = NULL /\ \E s \in sandboxes : SameSandbox(r, s)
    /\ \A s \in sandboxes : \E r \in sandboxes' : SameSandbox(r, s)
VmsStay ==
    /\ OneVM'
    /\ \A w \in vms' : \E v \in vms : w.id = v.id /\ w.disk = v.disk /\ w.paused = v.paused /\ w.ver = v.ver

\* They stay as they are.
LEMMA UnchangedRows == ASSUME DiskInv, UNCHANGED sandboxes PROVE RowsStay
BY DEF RowsStay, SameSandbox, DiskInv, Quiet

\* VMs end, or stay.
LEMMA FewerVmsStay == ASSUME DiskInv, vms' \subseteq vms PROVE VmsStay
BY DEF VmsStay, OneVM, DiskInv, VmsRight

\* Guests find what they know as long as the files stay.
LEMMA FilesStayDisk == ASSUME DiskInv, VmsStay, UNCHANGED disks PROVE GuestKeepsDisk'
<1>1. GuestKeepsDisk BY DEF DiskInv
<1> QED BY <1>1 DEF VmsStay, GuestKeepsDisk

\* Everything stays, but for the phase.
LEMMA CalmDisk ==
    ASSUME SnapInv, SnapInv', DiskInv, \A q \in Goroutines : Alike(proc[q], proc'[q]), RowsStay, VmsStay,
           UNCHANGED <<snapshots, disks, files, machines, nextId>>, main = "stop_all" <=> main' = "stop_all",
           main' \in {"serve", "drain"} =>
               \A q \in Goroutines : q \in Requests \cup Workers \/ proc[q].pc = "idle",
           main' \notin {"recover", "abort"} => todo' = {},
           main' \in {"down", "recover", "abort"} => machines = {}
    PROVE  Outside
<1>0. Quiet /\ Alone BY DEF DiskInv
<1>1. \A q \in Goroutines : proc'[q].pc = proc[q].pc /\ proc'[q].id = proc[q].id BY DEF Alike, Same, Keeps
<1>2. Alone' BY <1>0, <1>1 DEF Alone
<1>3. Quiet'
  <2>1. \A r \in sandboxes' : r.expires = NULL /\ r.id < nextId' BY <1>0 DEF RowsStay, SameSandbox, Quiet
  <2>2. \A w \in vms' : w.id < nextId' BY <1>0 DEF VmsStay, Quiet
  <2>3. \A id \in machines' : id < nextId' BY <1>0 DEF Quiet
  <2>4. main' = "stop_all" => \A q \in Goroutines : proc'[q].pc \in StopPCs BY <1>0, <1>1 DEF Quiet
  <2> QED BY <1>1, <2>1, <2>2, <2>3, <2>4 DEF Quiet
<1>4. OutsideProc
  <2>1. nextId <= nextId' BY IdsTyped
  <2> QED BY <2>1 DEF OutsideProc
<1>5. OutsideHost BY DEF OutsideHost, RowsStay, VmsStay
<1>6. GuestKeepsDisk' BY FilesStayDisk
<1> QED BY <1>2, <1>3, <1>4, <1>5, <1>6 DEF Outside

\* So it is in a phase that lasts.
LEMMA QuietDisk ==
    ASSUME SnapInv, SnapInv', DiskInv, \A q \in Goroutines : Alike(proc[q], proc'[q]), RowsStay, VmsStay,
           UNCHANGED <<snapshots, disks, files, machines, nextId, main, todo>>
    PROVE  Outside
<1>1. Quiet BY DEF DiskInv
<1> QED BY <1>1, CalmDisk DEF Quiet

\* A goroutine that keeps its frame is alike.
LEMMA SameAlike == ASSUME UNCHANGED proc PROVE \A q \in Goroutines : Alike(proc[q], proc'[q])
BY DEF Alike, Same, Keeps

\* The clock, clients that hang up, set no deadline or do nothing, and guests that
\* thaw or die.
LEMMA QuietSteps ==
    ASSUME SnapInv, SnapInv', DiskInv, Careful,
           \/ Tick /\ UNCHANGED files
           \/ UNCHANGED allVars
           \/ (\E p \in Requests : Disconnect(p)) /\ UNCHANGED files
           \/ (\E id \in Ids, timeout \in Timeouts : SetTimeout(id, timeout)) /\ UNCHANGED files
           \/ (\E v \in vms : VMExit(v)) /\ UNCHANGED files
           \/ \E v \in vms : Thaw(v)
    PROVE  Outside
<1>a. FramesOK /\ RegInv /\ \A v \in vms : v \in VM BY DEF SnapInv, HostTyped, VmsTyped
<1>1. CASE Tick /\ UNCHANGED files
  BY <1>1, QuietDisk, SameAlike, UnchangedRows, FewerVmsStay DEF Tick, regVars, hostVars, memVars
<1>2. CASE UNCHANGED allVars
  BY <1>2, QuietDisk, SameAlike, UnchangedRows, FewerVmsStay
     DEF allVars, vars, regVars, hostVars, memVars, envVars
<1>3. ASSUME NEW p \in Requests, Disconnect(p), UNCHANGED files PROVE Outside
  <2>1. \A q \in Goroutines : Alike(proc[q], proc'[q])
    BY <1>a, <1>3 DEF Disconnect, FramesOK, SnapFrame, Alike, Same, Keeps
  <2>2. UNCHANGED <<sandboxes, snapshots, vms, disks, machines, todo, main, nextId>>
    BY <1>3 DEF Disconnect, regVars, hostVars, envVars
  <2> QED BY <1>3, <2>1, <2>2, QuietDisk, UnchangedRows, FewerVmsStay
<1>4. ASSUME NEW id \in Ids, NEW timeout \in Timeouts, SetTimeout(id, timeout), UNCHANGED files PROVE Outside
  <2>1. Deadline(timeout) = NULL BY DEF Careful, Deadline
  <2>2. SetExpiry(id, NULL) BY <1>4, <2>1 DEF SetTimeout
  <2> DEFINE new(r) == IF r.id = id THEN [r EXCEPT !.expires = NULL] ELSE r
  <2>3. sandboxes' = {new(r) : r \in sandboxes} /\ snapshots' = snapshots BY <2>2 DEF SetExpiry
  <2>4. \A r \in sandboxes : r.expires = NULL BY DEF DiskInv, Quiet
  <2>5. \A r \in sandboxes : new(r).expires = NULL /\ SameSandbox(new(r), r)
    BY <1>a, <2>4 DEF RegInv, RegTypeOK, Sandbox, SameSandbox
  <2> HIDE DEF new
  <2>6. RowsStay BY <2>3, <2>5 DEF RowsStay
  <2>7. UNCHANGED <<proc, vms, disks, machines, todo, main, nextId>>
    BY <1>4 DEF SetTimeout, hostVars, memVars, envVars
  <2> QED BY <1>4, <2>3, <2>6, <2>7, QuietDisk, SameAlike, FewerVmsStay
<1>5. ASSUME NEW v \in vms, VMExit(v), UNCHANGED files PROVE Outside
  <2>1. UNCHANGED <<sandboxes, snapshots, proc, disks, machines, todo, main, nextId>> /\ vms' \subseteq vms
    BY <1>5 DEF VMExit, regVars, memVars, envVars
  <2> QED BY <1>5, <2>1, QuietDisk, SameAlike, UnchangedRows, FewerVmsStay
<1>6. ASSUME NEW v \in vms, Thaw(v) PROVE Outside
  <2>1. UNCHANGED <<sandboxes, snapshots, proc, disks, machines, todo, main, nextId, files>>
    BY <1>6 DEF Thaw, regVars, memVars, envVars
  <2>2. PICK ip : vms' = Updated(v, [v EXCEPT !.ip = ip]) BY <1>6 DEF Thaw
  <2>3. PICK w : w = [v EXCEPT !.ip = ip] OBVIOUS
  <2>4. w.id = v.id /\ w.disk = v.disk /\ w.paused = v.paused /\ w.ver = v.ver BY <1>a, <2>3 DEF VM
  <2>5. vms' = (vms \ {v}) \cup {w} BY <2>2, <2>3 DEF Updated
  <2>6. OneVM BY DEF DiskInv, VmsRight, OneVM
  <2>7. VmsStay BY <2>4, <2>5, <2>6 DEF VmsStay, OneVM
  <2> QED BY <2>1, <2>7, QuietDisk, SameAlike, UnchangedRows
<1> QED BY <1>1, <1>2, <1>3, <1>4, <1>5, <1>6

\* A running guest writes: its own file, and none that is being copied.
LEMMA WritesDisk == ASSUME SnapInv, SnapInv', DiskInv, NEW v \in vms, GuestWrites(v) PROVE Outside
<1> DEFINE d == v.disk
<1>a. v \in VM /\ v.ver \in Int BY DEF SnapInv, HostTyped, VmsTyped, Content
<1>0. /\ UNCHANGED <<sandboxes, snapshots, proc, machines, todo, main, nextId, files>>
      /\ ~v.paused
  BY DEF GuestWrites, regVars, memVars, envVars
<1>1. PICK w : w = [v EXCEPT !.ver = @ + 1] OBVIOUS
<1>2. w.id = v.id /\ w.disk = v.disk /\ w.paused = v.paused /\ w.ver = v.ver + 1 BY <1>a, <1>1 DEF VM
<1>3. vms' = (vms \ {v}) \cup {w} BY <1>1 DEF GuestWrites, Updated
<1>4. GuestKeepsDisk /\ VmsRight /\ Quiet /\ Alone BY DEF DiskInv
<1>5. /\ DOMAIN disks' = DOMAIN disks
      /\ \A path \in DOMAIN disks : path # d => disks'[path] = disks[path]
      /\ d # 0 => disks'[d] = v.ver + 1
  <2>1. d = 0 => disks' = disks BY DEF GuestWrites
  <2>2. d # 0 => d \in DOMAIN disks /\ disks' = [disks EXCEPT ![d] = v.ver + 1] BY <1>4 DEF GuestWrites, GuestKeepsDisk
  <2>3. d # 0 => DOMAIN disks' = DOMAIN disks BY <2>2
  <2> QED BY <2>1, <2>2, <2>3
<1>6. \A u \in vms : u # v /\ u.disk # 0 => u.disk # d
  <2> SUFFICES ASSUME NEW u \in vms, u # v, u.disk # 0, u.disk = d PROVE FALSE OBVIOUS
  <2>1. PICK r \in sandboxes : r.id = u.id /\ r.rootfs = d BY <1>4 DEF VmsRight
  <2>2. PICK s \in sandboxes : s.id = v.id /\ s.rootfs = d BY <1>4 DEF VmsRight
  <2>3. u.id = v.id BY <2>1, <2>2, RowsApart DEF RowsDiffer
  <2> QED BY <1>4, <2>3 DEF VmsRight
<1>7. GuestKeepsDisk'
  <2> SUFFICES ASSUME NEW u \in vms', u.disk # 0 PROVE u.disk \in DOMAIN disks' /\ disks'[u.disk] = u.ver
    BY DEF GuestKeepsDisk
  <2>1. CASE u = w BY <1>2, <1>4, <1>5, <2>1 DEF GuestKeepsDisk
  <2>2. CASE u \in vms /\ u # v BY <1>4, <1>5, <1>6, <2>2 DEF GuestKeepsDisk
  <2> QED BY <1>3, <2>1, <2>2
<1>8. OneVM' BY <1>2, <1>3, <1>4 DEF OneVM, VmsRight
<1>9. OutsideHost BY <1>0, <1>2, <1>3, <1>5, <1>8 DEF OutsideHost, SameSandbox
<1>10. OutsideProc
  <2>1. nextId <= nextId' BY <1>0, IdsTyped
  <2> QED BY <1>0, <2>1, SameAlike DEF OutsideProc
<1>11. Alone' BY <1>0, <1>4 DEF Alone
<1>12. Quiet' BY <1>0, <1>2, <1>3, <1>4 DEF Quiet
<1> QED BY <1>7, <1>9, <1>10, <1>11, <1>12 DEF Outside

\* The process ends: no goroutine and no machine is left.
LEMMA GoneDisk ==
    ASSUME SnapInv, SnapInv', DiskInv, UNCHANGED files, Crash \/ Reboot \/ Exit PROVE Outside
<1>0. /\ UNCHANGED <<sandboxes, snapshots, disks, nextId>> /\ vms' \subseteq vms
      /\ ProcessGone
  BY DEF Crash, Reboot, Exit, regVars, hostVars, envVars
<1>1. \A q \in Goroutines : proc'[q] = Idle BY <1>0 DEF ProcessGone
<1>2. machines' = {} /\ todo' = {} /\ main' = "down" BY <1>0 DEF ProcessGone
<1>3. RowsStay /\ VmsStay BY <1>0, UnchangedRows, FewerVmsStay
<1>4. Quiet BY DEF DiskInv
<1>5. Quiet' BY <1>0, <1>1, <1>2, <1>4 DEF Quiet
<1>6. Alone' BY <1>1, IdleFacts DEF Alone
<1>7. OutsideProc
  <2>1. nextId <= nextId' BY <1>0, IdsTyped
  <2> QED BY <1>1, <1>2, <2>1 DEF OutsideProc
<1>8. OutsideHost BY <1>0, <1>3 DEF OutsideHost, RowsStay, VmsStay
<1>9. GuestKeepsDisk' BY <1>0, <1>3, FilesStayDisk
<1> QED BY <1>5, <1>6, <1>7, <1>8, <1>9 DEF Outside

\* The server starts to recover, listens, or is told to stop.
LEMMA PhaseDisk ==
    ASSUME SnapInv, SnapInv', DiskInv, UNCHANGED files, Restart \/ Listen \/ Stop PROVE Outside
<1>0. FramesOK /\ RecoveryOK /\ Quiet BY DEF SnapInv, DiskInv
<1>1. UNCHANGED <<sandboxes, snapshots, disks, machines, nextId>> /\ vms' \subseteq vms
  BY DEF Restart, Listen, Stop, regVars, hostVars, envVars
<1>2. RowsStay /\ VmsStay BY <1>1, UnchangedRows, FewerVmsStay
<1>3. CASE Restart
  <2>1. main = "down" /\ main' = "recover" /\ UNCHANGED proc BY <1>3 DEF Restart
  <2>2. machines = {} BY <1>0, <2>1 DEF Quiet
  <2> QED BY <1>1, <1>2, <2>1, <2>2, SameAlike, CalmDisk
<1>4. CASE Listen
  <2>1. /\ main \in {"recover", "abort"} /\ main' \in {"serve", "drain"} /\ proc[Main].pc = "idle"
        /\ todo' = {} /\ UNCHANGED proc
    BY <1>4 DEF Listen, IsIdle
  <2>2. \A q \in Goroutines : proc[q].pc = "idle" BY <1>0, <2>1 DEF RecoveryOK
  <2> QED BY <1>1, <1>2, <2>1, <2>2, SameAlike, CalmDisk
<1>5. CASE Stop
  <2>1. \A q \in Goroutines : Alike(proc[q], proc'[q])
    BY <1>0, <1>5 DEF Stop, FramesOK, SnapFrame, Alike, Same, Keeps
  <2>2. \/ main = "serve" /\ main' = "drain" /\ todo' = todo
        \/ main = "recover" /\ main' = "abort"
    BY <1>5 DEF Stop
  <2> QED BY <1>0, <1>1, <1>2, <2>1, <2>2, CalmDisk DEF Quiet
<1> QED BY <1>3, <1>4, <1>5

\* shutdownAll starts a destroy for every machine.
LEMMA ShutdownDisk == ASSUME SnapInv, SnapInv', DiskInv, UNCHANGED files, ShutdownAll PROVE Outside
<1>0. Quiet /\ machines \subseteq Ids BY DEF DiskInv, SnapInv, HostTyped, MemoryTyped
<1>1. /\ UNCHANGED <<sandboxes, snapshots, disks, machines, nextId, vms, todo>>
      /\ main = "drain" /\ main' = "stop_all"
  BY DEF ShutdownAll, regVars, hostVars, envVars
<1>2. RowsStay /\ VmsStay BY <1>1, UnchangedRows, FewerVmsStay
<1> DEFINE x(q) == [Idle EXCEPT !.pc = "get_row", !.id = q]
<1>3. \A q \in Goroutines : proc'[q] = IF q \in machines THEN x(q) ELSE proc[q] BY DEF ShutdownAll
<1>4. \A q : /\ x(q).pc = "get_row" /\ x(q).id = q /\ ~x(q).staged /\ x(q).expires = NULL
             /\ x(q).snap = NoRow
  BY DEF Idle
<1> HIDE DEF x
<1>5. \A q \in Goroutines : q \in machines => Enter(q, proc'[q]) /\ proc'[q].pc = "get_row"
  BY <1>0, <1>1, <1>3, <1>4 DEF Enter, Quiet
<1>6. \A q \in Goroutines : q \notin machines => Alike(proc[q], proc'[q]) BY <1>3 DEF Alike, Same, Keeps
<1>7. OutsideProc
  <2>1. nextId <= nextId' BY <1>1, IdsTyped
  <2> QED BY <1>1, <1>5, <1>6, <2>1 DEF OutsideProc
<1>8. Quiet'
  <2>1. ASSUME NEW q \in Goroutines PROVE proc'[q].pc \in StopPCs
    <3>1. CASE q \in machines BY <1>5, <3>1 DEF StopPCs, Tail
    <3>2. CASE q \notin machines
      <4>1. proc'[q].pc = proc[q].pc BY <1>3, <3>2
      <4>2. proc[q].pc \in {"idle", "wait_agent", "wait_vm", "finish_clones"}
        BY <1>0, <1>1 DEF ShutdownAll, Quiet
      <4> QED BY <4>1, <4>2 DEF StopPCs, Tail
    <3> QED BY <3>1, <3>2
  <2> QED BY <1>0, <1>1, <2>1 DEF Quiet
<1>9. Alone' BY <1>1 DEF Alone
<1>10. OutsideHost BY <1>1, <1>2 DEF OutsideHost, RowsStay, VmsStay
<1>11. GuestKeepsDisk' BY <1>1, <1>2, FilesStayDisk
<1> QED BY <1>7, <1>8, <1>9, <1>10, <1>11 DEF Outside

\* What a request that arrives leaves alone.
Arrives ==
    /\ UNCHANGED <<sandboxes, machines, main>> /\ snapshots' \subseteq snapshots /\ vms' \subseteq vms
    /\ main \notin {"stop_all", "down"} /\ (main \notin {"recover", "abort"} => todo' = todo)
    /\ nextId <= nextId'
    /\ \A path \in Ids : path < nextId =>
          /\ path \in DOMAIN disks' <=> path \in DOMAIN disks
          /\ path \in DOMAIN disks => disks'[path] = disks[path]
    /\ \A sid \in SnapIds : files'[sid].mem = files[sid].mem /\ files'[sid].disk = files[sid].disk
    /\ \A q \in Goroutines : proc'[q] = proc[q] \/ q \in Requests \cup Workers \/ main \in {"recover", "abort"}

\* It keeps the invariant if its goroutines begin as they should.
LEMMA ArriveDisk == ASSUME SnapInv, SnapInv', DiskInv, Arrives, OutsideProc, Alone' PROVE Outside
<1>0. Quiet /\ VmsRight /\ GuestKeepsDisk BY DEF DiskInv
<1>1. VmsStay BY FewerVmsStay DEF Arrives
<1>2. OutsideHost BY <1>1 DEF OutsideHost, VmsStay, Arrives, SameSandbox
<1>3. GuestKeepsDisk'
  <2> SUFFICES ASSUME NEW v \in vms, v.disk # 0 PROVE v.disk \in DOMAIN disks' /\ disks'[v.disk] = v.ver
    BY DEF GuestKeepsDisk, Arrives
  <2>1. PICK r \in sandboxes : r.rootfs = v.disk BY <1>0 DEF VmsRight
  <2>2. v.disk \in Ids /\ v.disk < nextId BY <2>1, RowPathsOld
  <2> QED BY <1>0, <2>2 DEF Arrives, GuestKeepsDisk
<1>4. Quiet'
  <2>1. nextId \in Int /\ nextId' \in Int BY DEF SnapInv, HostTyped, EnvOK
  <2>2. \A r \in sandboxes : r.id \in Int BY IdsTyped
  <2>3. \A v \in vms : v.id \in Int BY IdsTyped
  <2>4. \A id \in machines : id \in Int BY IdsTyped DEF SnapInv, HostTyped, MemoryTyped
  <2>5. \A r \in sandboxes' : r.expires = NULL /\ r.id < nextId' BY <1>0, <2>1, <2>2 DEF Arrives, Quiet
  <2>6. \A v \in vms' : v.id < nextId' BY <1>0, <2>1, <2>3 DEF Arrives, Quiet
  <2>7. \A id \in machines' : id < nextId' BY <1>0, <2>1, <2>4 DEF Arrives, Quiet
  <2>8. main \in {"serve", "drain"} => \A q \in Goroutines : q \in Requests \cup Workers \/ proc'[q].pc = "idle"
    BY <1>0 DEF Arrives, Quiet
  <2> QED BY <1>0, <2>5, <2>6, <2>7, <2>8 DEF Arrives, Quiet
<1> QED BY <1>2, <1>3, <1>4 DEF Outside

\* One goroutine begins.
LEMMA OneArrives ==
    ASSUME SnapInv, SnapInv', DiskInv, Arrives, NEW p \in Goroutines, NEW x, proc' = [proc EXCEPT ![p] = x],
           Enter(p, x), x.id = 0 \/ \A o \in Goroutines : proc[o].id # x.id
    PROVE  Outside
<1>1. proc'[p] = x /\ \A q \in Goroutines \ {p} : proc'[q] = proc[q] BY DEF SnapInv, FramesOK
<1>2. \A q \in Goroutines \ {p} : Alike(proc[q], proc'[q]) BY <1>1 DEF Alike, Same, Keeps
<1>3. OutsideProc BY <1>1, <1>2 DEF OutsideProc, Arrives
<1>4. Alone BY DEF DiskInv
<1>5. Alone' BY <1>1, <1>4 DEF Alone, Arrives
<1> QED BY <1>3, <1>5, ArriveDisk

\* Reconcile takes the next row.
LEMMA ReconcileDisk == ASSUME SnapInv, SnapInv', DiskInv, UNCHANGED files, ReconcileNext PROVE Outside
<1>0. RecoveryOK /\ FramesOK /\ Quiet BY DEF SnapInv, DiskInv
<1>1. PICK id \in todo : \E sb, ctx : /\ sb = RowOf(id, sandboxes)
                                      /\ proc' = [proc EXCEPT ![Main] = [Idle EXCEPT !.pc = "read_ports", !.id = id,
                                                                              !.sb = sb, !.ctx = ctx]]
  BY DEF ReconcileNext
<1>2. PICK sb, ctx : /\ sb = RowOf(id, sandboxes)
                     /\ proc' = [proc EXCEPT ![Main] = [Idle EXCEPT !.pc = "read_ports", !.id = id,
                                                             !.sb = sb, !.ctx = ctx]]
  BY <1>1
<1>3. /\ UNCHANGED <<sandboxes, snapshots, disks, machines, nextId, main>>
      /\ main \in {"recover", "abort"} /\ vms' \subseteq vms /\ IsIdle(Main)
  BY DEF ReconcileNext, regVars, envVars
<1>4. sb \in sandboxes /\ sb.id = id
  <2>1. \E r \in sandboxes : r.id = id BY <1>0, <1>3 DEF RecoveryOK
  <2> QED BY <1>2, <2>1 DEF RowOf
<1>5. \A q \in Goroutines : proc[q].id = 0 BY <1>0, <1>3 DEF RecoveryOK, FramesOK, SnapLocal, IsIdle
<1>6. id # 0 BY <1>4, IdsTyped
<1> DEFINE x == [Idle EXCEPT !.pc = "read_ports", !.id = id, !.sb = sb, !.ctx = ctx]
<1>7. x.pc = "read_ports" /\ x.id = id /\ x.sb = sb /\ x.snap = NoRow /\ x.expires = NULL /\ ~x.staged BY DEF Idle
<1>8. proc' = [proc EXCEPT ![Main] = x] BY <1>2
<1> HIDE DEF x
<1>9. Enter(Main, x) BY <1>0, <1>3, <1>4, <1>7 DEF Enter, Quiet
<1>10. Arrives
  <2>1. nextId <= nextId' BY <1>3, IdsTyped
  <2> QED BY <1>3, <2>1 DEF Arrives
<1>11. Main \in Goroutines BY DEF Goroutines
<1> QED BY <1>5, <1>6, <1>7, <1>8, <1>9, <1>10, <1>11, OneArrives

\* Clients set no deadline.
LEMMA NoDeadline == ASSUME Careful, NEW timeout \in Timeouts PROVE Deadline(timeout) = NULL
BY DEF Careful, Deadline

\* Ids that have not been handed out are nobody's.
LEMMA NewNobodys == ASSUME SnapInv, DiskInv, NEW o \in Goroutines PROVE proc[o].id \in Int /\ proc[o].id < nextId
BY IdsTyped DEF DiskInv, Roles

\* A sandbox that a client may address has a row and nobody at work on it.
LEMMA AddressedFree ==
    ASSUME SnapInv, DiskInv, Careful, NEW id \in Ids, Addressable(id), NEW sb, sb = RowOf(id, sandboxes)
    PROVE  sb \in sandboxes /\ sb.id = id /\ id < nextId /\ \A o \in Goroutines : proc[o].id # id
<1>1. \E r \in sandboxes : r.id = id BY DEF Addressable, Get
<1>2. sb \in sandboxes /\ sb.id = id BY <1>1 DEF RowOf
<1>3. id < nextId BY <1>2 DEF DiskInv, Quiet
<1>4. WorkingOn(id) = {} BY DEF Addressable, Careful
<1> QED BY <1>2, <1>3, <1>4 DEF WorkingOn

\* A create arrives.
LEMMA CreateArrives ==
    ASSUME SnapInv, SnapInv', DiskInv, Careful, UNCHANGED files, NEW p \in Requests, NEW timeout \in Timeouts,
           PrepareRootfs(p, timeout)
    PROVE  Outside
<1>0. p \in Goroutines BY DEF Goroutines
<1>1. nextId \in Ids /\ nextId' = nextId + 1 /\ nextId \in Int BY CardinalityIds DEF PrepareRootfs
<1>2. disks' = disks \/ disks' = WithFile(nextId, 0) BY DEF PrepareRootfs
<1>3. UNCHANGED <<sandboxes, snapshots, vms, machines, todo, main>> /\ main = "serve"
  BY DEF PrepareRootfs, regVars
<1> DEFINE x == [Idle EXCEPT !.pc = "insert_row", !.id = nextId, !.expires = NULL, !.ctx = "request"]
<1>4. proc' = proc \/ (proc' = [proc EXCEPT ![p] = x] /\ disks' = WithFile(nextId, 0))
  BY NoDeadline DEF PrepareRootfs
<1>5. x.pc = "insert_row" /\ x.id = nextId /\ x.snap = NoRow /\ x.expires = NULL /\ ~x.staged BY DEF Idle
<1> HIDE DEF x
<1>6. \A path \in Ids : path < nextId =>
          /\ path \in DOMAIN disks' <=> path \in DOMAIN disks
          /\ path \in DOMAIN disks => disks'[path] = disks[path]
  <2>1. CASE disks' = disks BY <2>1
  <2>2. CASE disks' = WithFile(nextId, 0) BY <1>1, <2>2 DEF WithFile
  <2> QED BY <1>2, <2>1, <2>2
<1>7. Arrives
  <2>1. \A q \in Goroutines : proc'[q] = proc[q] \/ q \in Requests \cup Workers \/ main \in {"recover", "abort"}
    BY <1>4 DEF SnapInv, FramesOK
  <2> QED BY <1>1, <1>3, <1>6, <2>1 DEF Arrives
<1>8. CASE proc' = proc
  <2>1. OutsideProc BY <1>7, <1>8, SameAlike DEF OutsideProc, Arrives
  <2>2. Alone BY DEF DiskInv
  <2>3. Alone' BY <1>3, <1>8, <2>2 DEF Alone
  <2> QED BY <1>7, <2>1, <2>3, ArriveDisk
<1>9. CASE proc' = [proc EXCEPT ![p] = x] /\ disks' = WithFile(nextId, 0)
  <2>1. disks'[nextId] = 0 BY <1>9 DEF WithFile
  <2>2. Enter(p, x) BY <1>1, <1>5, <2>1 DEF Enter
  <2>3. \A o \in Goroutines : proc[o].id # x.id BY <1>1, <1>5, NewNobodys
  <2> QED BY <1>0, <1>7, <1>9, <2>2, <2>3, OneArrives
<1> QED BY <1>4, <1>8, <1>9

\* Nothing changes but the goroutine, in the phase that serves.
LEMMA ServeArrives ==
    ASSUME SnapInv, main = "serve", UNCHANGED <<sandboxes, machines, main, vms, todo, disks>>,
           snapshots' \subseteq snapshots, nextId <= nextId',
           \A sid \in SnapIds : files'[sid].mem = files[sid].mem /\ files'[sid].disk = files[sid].disk,
           \A q \in Goroutines : proc'[q] = proc[q] \/ q \in Requests \cup Workers
    PROVE  Arrives
BY DEF Arrives

\* A destroy or an expose arrives.
LEMMA AddressArrives ==
    ASSUME SnapInv, SnapInv', DiskInv, Careful, UNCHANGED files, NEW p \in Requests, NEW id \in Ids,
           DestroyArrives(p, id) \/ \E guest \in GuestPorts : ExposeArrives(p, id, guest)
    PROVE  Outside
<1>0. p \in Goroutines BY DEF Goroutines
<1>1. /\ UNCHANGED <<sandboxes, snapshots, disks, vms, machines, todo, main, nextId>> /\ main = "serve"
      /\ Addressable(id)
  BY DEF DestroyArrives, ExposeArrives, regVars, hostVars, envVars
<1>2. PICK sb : sb = RowOf(id, sandboxes) OBVIOUS
<1>3. sb \in sandboxes /\ sb.id = id /\ id < nextId /\ \A o \in Goroutines : proc[o].id # id
  BY <1>1, <1>2, AddressedFree
<1>4. PICK x : /\ proc' = [proc EXCEPT ![p] = x] /\ x.id = id /\ x.snap = NoRow /\ x.expires = NULL /\ ~x.staged
               /\ x.pc = "get_row" \/ (x.pc = "add_port" /\ x.sb = sb)
  <2>1. CASE DestroyArrives(p, id)
    <3> DEFINE x == [Idle EXCEPT !.pc = "get_row", !.id = id, !.ctx = "request"]
    <3>1. x.pc = "get_row" /\ x.id = id /\ x.snap = NoRow /\ x.expires = NULL /\ ~x.staged BY DEF Idle
    <3>2. proc' = [proc EXCEPT ![p] = x] BY <2>1 DEF DestroyArrives
    <3> HIDE DEF x
    <3> QED BY <3>1, <3>2
  <2>2. ASSUME NEW guest \in GuestPorts, ExposeArrives(p, id, guest)
        PROVE  \E x : /\ proc' = [proc EXCEPT ![p] = x] /\ x.id = id /\ x.snap = NoRow /\ x.expires = NULL
                      /\ ~x.staged /\ x.pc = "add_port" /\ x.sb = sb
    <3> DEFINE x == [Idle EXCEPT !.pc = "add_port", !.id = id, !.sb = sb, !.guest = guest, !.ctx = "request"]
    <3>1. x.pc = "add_port" /\ x.id = id /\ x.sb = sb /\ x.snap = NoRow /\ x.expires = NULL /\ ~x.staged BY DEF Idle
    <3>2. proc' = [proc EXCEPT ![p] = x] BY <1>2, <2>2 DEF ExposeArrives
    <3> HIDE DEF x
    <3> QED BY <3>1, <3>2
  <2> QED BY <2>1, <2>2
<1>5. Enter(p, x) BY <1>1, <1>3, <1>4 DEF Enter
<1>6. Arrives
  <2>1. nextId <= nextId' BY <1>1, IdsTyped
  <2>2. \A q \in Goroutines : proc'[q] = proc[q] \/ q \in Requests \cup Workers BY <1>4 DEF SnapInv, FramesOK
  <2> QED BY <1>1, <2>1, <2>2, ServeArrives
<1> QED BY <1>0, <1>3, <1>4, <1>5, <1>6, OneArrives

\* The snapshot of a sandbox that is up arrives: its directory's name is new.
LEMMA SnapshotArrivesDisk ==
    ASSUME SnapInv, SnapInv', DiskInv, Careful, NEW p \in Requests, NEW id \in Ids, NEW sid \in SnapIds,
           SnapshotArrives(p, id, sid)
    PROVE  Outside
<1>0. p \in Goroutines BY DEF Goroutines
<1>1. /\ UNCHANGED <<sandboxes, snapshots, disks, vms, machines, todo, main, nextId>> /\ main = "serve"
      /\ Addressable(id) /\ id \in machines /\ Unused(sid) /\ files' = [files EXCEPT ![sid].dir = TRUE]
  BY DEF SnapshotArrives, regVars, hostVars, envVars
<1>2. PICK sb : sb = RowOf(id, sandboxes) OBVIOUS
<1>3. sb \in sandboxes /\ sb.id = id /\ id < nextId /\ \A o \in Goroutines : proc[o].id # id
  BY <1>1, <1>2, AddressedFree
<1>4. PICK s : s = [id |-> sid, source |-> id, tap |-> sb.tap, ip |-> sb.ip, rootfs |-> sb.rootfs] OBVIOUS
<1>5. s.id = sid /\ s.rootfs = sb.rootfs BY <1>4
<1> DEFINE x == [Idle EXCEPT !.pc = "pause", !.id = id, !.sb = sb, !.ctx = "request", !.snap = s]
<1>6. x.pc = "pause" /\ x.id = id /\ x.sb = sb /\ x.snap = s /\ x.expires = NULL /\ ~x.staged BY DEF Idle
<1>7. proc' = [proc EXCEPT ![p] = x] BY <1>2, <1>4 DEF SnapshotArrives
<1> HIDE DEF x
<1>8. (\A o \in Goroutines : proc[o].snap.id # sid) /\ \A t \in snapshots : t.id # sid
  BY <1>1 DEF Unused, GetSnapshot
<1>9. Enter(p, x) BY <1>0, <1>1, <1>3, <1>5, <1>6, <1>8 DEF Enter
<1>10. \A t \in SnapIds : files'[t].mem = files[t].mem /\ files'[t].disk = files[t].disk
  BY <1>1 DEF SnapInv, HostTyped, FilesTyped
<1>11. Arrives
  <2>1. nextId <= nextId' BY <1>1, IdsTyped
  <2>2. \A q \in Goroutines : proc'[q] = proc[q] \/ q \in Requests \cup Workers BY <1>7 DEF SnapInv, FramesOK
  <2> QED BY <1>1, <1>10, <2>1, <2>2, ServeArrives
<1> QED BY <1>0, <1>3, <1>6, <1>7, <1>9, <1>11, OneArrives

\* The deletion of a snapshot arrives, and its row goes.
LEMMA DeleteArrivesDisk ==
    ASSUME SnapInv, SnapInv', DiskInv, NEW p \in Requests, NEW s \in snapshots, DeleteSnapshotRow(p, s)
    PROVE  Outside
<1>0. p \in Goroutines BY DEF Goroutines
<1>1. /\ UNCHANGED <<sandboxes, disks, vms, machines, todo, main, nextId, files>> /\ main = "serve"
      /\ snapshots' = snapshots \ GetSnapshot(s.id)
  BY DEF DeleteSnapshotRow, DeleteSnapshot, hostVars, envVars
<1> DEFINE x == [Idle EXCEPT !.pc = "clean_up_snapshot", !.snap = s, !.ctx = "request"]
<1>2. x.pc = "clean_up_snapshot" /\ x.id = 0 /\ x.snap = s /\ x.expires = NULL /\ ~x.staged BY DEF Idle
<1>3. proc' = [proc EXCEPT ![p] = x] BY DEF DeleteSnapshotRow
<1> HIDE DEF x
<1>4. \A t \in snapshots' : t \in snapshots /\ t.id # s.id BY <1>1 DEF GetSnapshot
<1>5. 0 < nextId' BY <1>1, IdsTyped DEF SnapInv, HostTyped, EnvOK
<1>6. Enter(p, x) BY <1>2, <1>4, <1>5 DEF Enter
<1>7. Arrives
  <2>1. nextId <= nextId' BY <1>1, IdsTyped
  <2>2. \A q \in Goroutines : proc'[q] = proc[q] \/ q \in Requests \cup Workers BY <1>3 DEF SnapInv, FramesOK
  <2> QED BY <1>1, <1>4, <2>1, <2>2, ServeArrives
<1> QED BY <1>0, <1>2, <1>3, <1>6, <1>7, OneArrives

\* A restore arrives, of a snapshot whose disk path no fan-out is at work with.
LEMMA RestoreArrivesDisk ==
    ASSUME SnapInv, SnapInv', DiskInv, Careful, NEW p \in Requests, NEW s \in snapshots, NEW timeout \in Timeouts,
           RestoreArrives(p, s, timeout)
    PROVE  Outside
<1>0. p \in Goroutines BY DEF Goroutines
<1>1. /\ UNCHANGED <<sandboxes, snapshots, disks, vms, machines, todo, main, files>> /\ main = "serve"
      /\ nextId' = nextId + 1 /\ nextId \in Int
  BY CardinalityIds DEF RestoreArrives, regVars, hostVars
<1> DEFINE x == [Idle EXCEPT !.pc = "insert_restore", !.id = nextId, !.snap = s, !.expires = NULL, !.ctx = "request"]
<1>2. x.pc = "insert_restore" /\ x.id = nextId /\ x.snap = s /\ x.expires = NULL /\ ~x.staged BY DEF Idle
<1>3. proc' = [proc EXCEPT ![p] = x] BY NoDeadline DEF RestoreArrives
<1> HIDE DEF x
<1>4. ~FanoutAtWork(s.rootfs) BY DEF RestoreArrives, Careful
<1>5. \A o \in Goroutines : proc[o].pc \in FanoutPCs => proc[o].snap.rootfs # s.rootfs
  BY <1>4 DEF FanoutAtWork, DiskInv, Roles
<1>6. Enter(p, x) BY <1>1, <1>2, <1>5 DEF Enter
<1>7. Arrives
  <2>1. \A q \in Goroutines : proc'[q] = proc[q] \/ q \in Requests \cup Workers BY <1>3 DEF SnapInv, FramesOK
  <2> QED BY <1>1, <2>1, ServeArrives
<1>8. \A o \in Goroutines : proc[o].id # x.id BY <1>1, <1>2, NewNobodys
<1> QED BY <1>0, <1>3, <1>6, <1>7, <1>8, OneArrives

\* A fan-out arrives, of a snapshot whose disk path no restore is at work with.
LEMMA FanoutArrivesDisk ==
    ASSUME SnapInv, SnapInv', DiskInv, Careful, NEW p \in Requests, NEW s \in snapshots, NEW n \in Counts,
           NEW timeout \in Timeouts, FanoutArrives(p, s, n, timeout)
    PROVE  Outside
<1> DEFINE ids == nextId .. nextId + n - 1
           new == {-id : id \in ids}
           x == [Idle EXCEPT !.pc = "stat_baked", !.snap = s, !.ctx = "request"]
           e == Deadline(timeout)
           y(q) == [Idle EXCEPT !.pc = "not_started", !.id = -q, !.snap = s, !.by = p, !.expires = e]
<1>0. p \in Goroutines BY DEF Goroutines
<1>1. /\ UNCHANGED <<sandboxes, snapshots, disks, vms, machines, todo, main, files>> /\ main = "serve"
      /\ nextId' = nextId + n /\ ids \subseteq Clones
  BY DEF FanoutArrives, regVars, hostVars
<1>2. n \in Int /\ n > 0 /\ nextId \in Int /\ 0 < nextId BY SnapshotsAssumption, IdsTyped
<1>3. Clones \subseteq Ids /\ Ids \subseteq Int BY CardinalityIds, LifecycleAssumption
<1>4. p \notin new /\ new \subseteq Workers BY <1>1, <1>2, <1>3, GoroutinesAssumption DEF Workers
<1>5. e = NULL BY NoDeadline
<1>6. proc' = [q \in Goroutines |-> CASE q = p -> x [] q \in new -> y(q) [] OTHER -> proc[q]]
  BY Zenon DEF FanoutArrives
<1> HIDE DEF e
<1>7. ASSUME NEW q \in new PROVE q \in Int /\ nextId <= -q /\ -q < nextId' BY <1>1, <1>2
<1>8. \A q : y(q).pc = "not_started" /\ y(q).id = -q /\ y(q).snap = s /\ y(q).expires = NULL /\ ~y(q).staged
  BY <1>5 DEF Idle
<1>9. x.pc = "stat_baked" /\ x.id = 0 /\ x.snap = s /\ x.expires = NULL /\ ~x.staged BY DEF Idle
<1>10. ~RestoreAtWork(s.rootfs) BY DEF FanoutArrives, Careful
<1> HIDE DEF x, y, ids, new
<1>11. /\ proc'[p] = x /\ \A q \in Goroutines \cap new : proc'[q] = y(q)
       /\ \A q \in Goroutines \ new : q # p => proc'[q] = proc[q]
  BY <1>0, <1>4, <1>6
<1>12. \A o \in Goroutines : Restoring(o) => proc[o].snap.rootfs # s.rootfs BY <1>10 DEF RestoreAtWork, Restoring
<1>13. Enter(p, x) BY <1>1, <1>2, <1>9, <1>12 DEF Enter
<1>14. \A q \in new : Enter(q, y(q)) BY <1>4, <1>7, <1>8 DEF Enter
<1>15. \A q \in Goroutines \ new : q # p => Alike(proc[q], proc'[q]) BY <1>11 DEF Alike, Same, Keeps
<1>16. Arrives
  <2>1. \A q \in Goroutines : proc'[q] = proc[q] \/ q \in Requests \cup Workers BY <1>4, <1>11
  <2>2. nextId <= nextId' BY <1>1, <1>2
  <2> QED BY <1>1, <2>1, <2>2, ServeArrives
<1>17. OutsideProc
  <2>1. \A q \in Goroutines : Alike(proc[q], proc'[q]) \/ Enter(q, proc'[q]) BY <1>11, <1>13, <1>14, <1>15
  <2>2. \A q, o \in Goroutines : q # o /\ ~Alike(proc[q], proc'[q]) /\ ~Alike(proc[o], proc'[o]) =>
            "not_started" \in {proc'[q].pc, proc'[o].pc}
    BY <1>8, <1>11, <1>15
  <2> QED BY <1>16, <2>1, <2>2 DEF OutsideProc, Arrives
<1>18. Alone'
  <2> SUFFICES ASSUME NEW q \in Goroutines, NEW o \in Goroutines, q # o, proc'[q].id = proc'[o].id
               PROVE  proc'[q].id = 0
    BY DEF Alone
  <2>1. ASSUME NEW r \in Goroutines
        PROVE  \/ r \in new /\ proc'[r].id = -r
               \/ r = p /\ proc'[r].id = 0
               \/ r \notin new /\ proc'[r].id = proc[r].id
    BY <1>8, <1>9, <1>11
  <2>2. \A r \in Goroutines : proc[r].id \in Int /\ proc[r].id < nextId BY NewNobodys
  <2>a. ASSUME NEW r \in Goroutines, r \in new PROVE \E i \in Int : r = -i /\ nextId <= i /\ proc'[r].id = i
    <3>1. r \in Int /\ nextId <= -r BY <1>7, <2>a
    <3>2. PICK i \in Int : i = -r BY <3>1
    <3>3. r = -i BY <3>1, <3>2
    <3> QED BY <1>8, <1>11, <2>a, <3>1, <3>2, <3>3
  <2>3. CASE q \in new
    <3>1. PICK i \in Int : q = -i /\ nextId <= i /\ proc'[q].id = i BY <2>a, <2>3
    <3>2. CASE o \in new
      <4>1. PICK j \in Int : o = -j /\ proc'[o].id = j BY <2>a, <3>2
      <4>2. i = j BY <3>1, <4>1
      <4> QED BY <3>1, <4>1, <4>2
    <3>3. CASE o \notin new
      <4>1. PICK j \in Int : proc'[o].id = j /\ (j = 0 \/ j < nextId) BY <2>1, <2>2, <3>3
      <4>2. i = j BY <3>1, <4>1
      <4> QED BY <1>2, <3>1, <4>1, <4>2
    <3> QED BY <3>2, <3>3
  <2>4. CASE o \in new /\ q \notin new
    <3>1. PICK i \in Int : nextId <= i /\ proc'[o].id = i BY <2>a, <2>4
    <3> QED BY <1>2, <2>1, <2>2, <2>4, <3>1
  <2>5. CASE o \notin new /\ q \notin new
    <3>1. Alone /\ main # "stop_all" BY <1>1 DEF DiskInv
    <3> QED BY <2>1, <2>5, <3>1 DEF Alone
  <2> QED BY <2>3, <2>4, <2>5
<1> QED BY <1>16, <1>17, <1>18, ArriveDisk

\* The reaper finds nothing to do.
LEMMA ReaperIdle == ASSUME DiskInv PROVE ~ReaperTick /\ ~ReapNext
<1>1. \A r \in sandboxes : r.expires = NULL BY DEF DiskInv, Quiet
<1>2. Expired(now) = {} BY <1>1 DEF Expired
<1>3. main \in {"serve", "drain", "stop_all"} => todo = {} BY DEF DiskInv, Quiet
<1> QED BY <1>2, <1>3 DEF ReaperTick, ReapNext

\* What is not a handler's step is one of these.
LEMMA OtherOutside ==
    ASSUME SnapInv, SnapInv', DiskInv, Careful, [SnapNext]_allVars, ~\E p \in Goroutines : Handles(p)
    PROVE  Outside
<1>1. CASE Arrival /\ UNCHANGED files BY <1>1, CreateArrives, AddressArrives DEF Arrival
<1>2. CASE SnapArrival
  BY <1>2, SnapshotArrivesDisk, DeleteArrivesDisk, RestoreArrivesDisk, FanoutArrivesDisk DEF SnapArrival
<1>3. CASE GuestStep BY <1>3, QuietSteps, WritesDisk DEF GuestStep
<1>4. CASE Next /\ UNCHANGED files /\ ~Arrival
  <2>1. CASE Serve BY <1>4, <2>1, ReaperIdle, PhaseDisk, ReconcileDisk, ShutdownDisk, GoneDisk DEF Serve
  <2>2. CASE Environment BY <1>4, <2>2, QuietSteps, PhaseDisk, GoneDisk DEF Environment
  <2> QED BY <1>4, <2>1, <2>2, ReaperIdle, QuietSteps, PhaseDisk, GoneDisk DEF Next, Handles
<1>5. CASE UNCHANGED allVars BY <1>5, QuietSteps
<1> QED BY <1>1, <1>2, <1>3, <1>4, <1>5 DEF SnapNext, Handles

\* Every step keeps the invariant.
LEMMA DiskStep == Careful /\ SnapInv /\ SnapInv' /\ DiskInv /\ [SnapNext]_allVars => DiskInv'
BY HandlerDisk, OtherOutside, OutsideDisk DEF Works

\* It holds when the server comes up for the first time.
LEMMA DiskInit == Careful /\ SnapInit => DiskInv
<1> SUFFICES ASSUME SnapInit PROVE DiskInv OBVIOUS
<1>1. /\ vms = {} /\ sandboxes = {} /\ snapshots = {} /\ machines = {} /\ todo = {} /\ nextId = 1
      /\ main = "serve" /\ \A p \in Goroutines : proc[p] = Idle
  BY DEF SnapInit, Init, RegInit
<1>2. \A p \in Goroutines : /\ proc[p].pc = "idle" /\ proc[p].id = 0 /\ proc[p].snap = NoRow
                            /\ proc[p].expires = NULL /\ ~proc[p].staged
  BY <1>1, IdleFacts
<1>3. \A p \in Goroutines : Roles(p) /\ CopyRight(p) /\ Laid(p)
  BY <1>1, <1>2 DEF Roles, CopyRight, Laid, CreatePCs, ClonePCs, Snapshotting, FanoutPCs, NoCopy, NoSandbox, LaidPCs
<1>4. Alone /\ Quiet BY <1>1, <1>2 DEF Alone, Quiet
<1>5. PathsApart
  BY <1>1, <1>2 DEF PathsApart, Restoring, Young, RestorePCs, FanoutPCs, Unlaunched, UpPCs, NewPCs
<1>6. VmsRight /\ MachinesRight /\ GuestKeepsDisk
  BY <1>1, <1>2 DEF VmsRight, MachinesRight, GuestKeepsDisk, Unstored, Snapshotting
<1>7. FilesRight BY <1>1, <1>2 DEF FilesRight, Stages
<1>8. SnapFilesRight BY <1>1, <1>2 DEF SnapFilesRight, SnapshotsWhole, Snapshotting
<1> QED BY <1>3, <1>4, <1>5, <1>6, <1>7, <1>8 DEF DiskInv

\* Hence it is an invariant of the server with careful clients.
LEMMA DiskInvariant == Careful => (SnapSpec => []DiskInv)
<1> SUFFICES ASSUME Careful PROVE SnapSpec => []DiskInv OBVIOUS
<1>1. SnapInit => DiskInv BY DiskInit
<1>2. SnapInv /\ SnapInv' /\ DiskInv /\ [SnapNext]_allVars => DiskInv' BY DiskStep
<1> QED BY <1>1, <1>2, SnapshotsInvariant, PTL DEF SnapSpec

\* A guest finds on its disk what it knows to be there, whatever snapshots,
\* restores, fan-outs, failed commands, cancelled calls, stops, kills and reboots
\* come in between, provided that clients leave a sandbox, and the disk path that
\* a restore or a fan-out works on, alone while another call works on it.
THEOREM SnapshotsGuestKeepsDisk == ASSUME Careful PROVE SnapSpec => []GuestKeepsDisk
<1>1. DiskInv => GuestKeepsDisk BY DEF DiskInv
<1> QED BY <1>1, DiskInvariant, PTL

\* A snapshot in the table is complete and its disk is the one that its memory
\* knows, under the same discipline.
THEOREM SnapshotsAreWhole == ASSUME Careful PROVE SnapSpec => []SnapshotsWhole
<1>1. DiskInv => SnapshotsWhole BY DEF DiskInv, SnapFilesRight
<1> QED BY <1>1, DiskInvariant, PTL

-----------------------------------------------------------------------------
(* What an undisturbed server leaves over *)

\* Until the server goes down for the first time: a VM has a row and its machine
\* is stored, or a goroutine will store or stop it.
Keepers == UpPCs \cup {"stop_force", "stop_clone", "wait_vm"}
VmsHeld ==
    \A v \in vms :
        /\ \E r \in sandboxes : r.id = v.id
        /\ v.id \in machines \/ \E p \in Goroutines : proc[p].id = v.id /\ proc[p].pc \in Keepers

\* A file has a row, or a request will insert the row or take the file away; a
\* destroy deletes its row once the file is gone, but a fan-out may stage it again.
Staged(path) == \E p \in Requests : proc[p].staged /\ proc[p].snap.rootfs = path
DisksHeld ==
    /\ \A d \in DOMAIN disks :
          \/ \E r \in sandboxes : r.rootfs = d
          \/ \E p \in Requests : proc[p].pc = "insert_row" /\ proc[p].id = d
          \/ Staged(d)
    /\ \A p \in Goroutines :
          proc[p].pc = "delete_row" /\ proc[p].sb.rootfs \in DOMAIN disks => Staged(proc[p].sb.rootfs)

\* The files of a snapshot have a row, or a request will insert it or remove them.
Makers == Snapshotting \cup {"clean_up_snapshot"}
Empty(f) == f.mem = Absent /\ f.disk = Absent
FilesHeld ==
    /\ \A sid \in SnapIds : ~Empty(files[sid]) =>
          \/ \E s \in snapshots : s.id = sid
          \/ \E p \in Requests : proc[p].snap.id = sid /\ proc[p].pc \in Makers
    /\ \A p \in Goroutines : proc[p].pc \in {"pause", "resume_failed"} => Empty(Dir(p))

\* A clone's goroutine is named after it, and no other uses its name.
ClonesOwn == \A w \in Workers : proc[w].id \in {0, -w}

HeldInv == crashes = 0 => main = "serve" /\ VmsHeld /\ DisksHeld /\ FilesHeld /\ ClonesOwn

\* A goroutine that is not the one that steps stays, unless its fan-out moves it.
LEMMA OthersStay ==
    ASSUME SnapInv, NEW p \in Goroutines, Handles(p), NEW q \in Goroutines \ {p}
    PROVE  /\ proc[q].pc \notin {"not_started", "loaded"} => proc'[q] = proc[q]
           /\ proc[q].pc = "loaded" => proc'[q] = proc[q] \/ (proc'[q].pc = "bridge" /\ proc'[q].id = proc[q].id)
           /\ q \in Requests => proc'[q] = proc[q]
<1>1. StepProc(p) BY HandlerWalks
<1>2. Requests \cap Workers = {} BY GoroutinesAssumption DEF Workers
<1> QED BY <1>1, <1>2 DEF StepProc, CloneGoes, Same, Keeps

\* A fan-out that stages a file knows it; a snapshot handler that fails, and the
\* deletion of a snapshot, leave no file.
StepLeaves(p) ==
    LET x == proc[p]
        y == proc'[p] IN
    /\ x.pc = "stage" /\ y.pc = "bring_up" => y.staged
    /\ x.pc \in {"write_memory", "freeze_rootfs"} /\ y.pc = "resume_failed" => files'[x.snap.id] = NoDir
    /\ x.pc = "clean_up_snapshot" => files'[x.snap.id] = NoDir
    /\ x.pc = "record_snapshot" => files'[x.snap.id] = NoDir \/ \E s \in snapshots' : s.id = x.snap.id

\* So every handler's step does.
LEMMA LeavesStep == ASSUME SnapInv, NEW p \in Goroutines, Handles(p) PROVE StepLeaves(p)
<1>0. FramesOK BY DEF SnapInv
<1>a. proc[p].pc \in HasSnapshot => proc[p].snap \in Snapshot BY <1>0 DEF FramesOK, SnapLocal
<1>b. \A g : \A sid \in SnapIds : files' = [files EXCEPT ![sid] = g] => files'[sid] = g
  BY DEF SnapInv, HostTyped, FilesTyped
<1>c. proc[p].pc \in HasSnapshot => proc[p].snap.id \in SnapIds BY <1>a DEF Snapshot
<1> USE DEF StepLeaves
<1>1. CASE StageBaked(p)
  <2>0. proc[p].pc = "stage" BY <1>1 DEF StageBaked
  <2>1. CASE BringUp(p, TRUE)
    <3> DEFINE x == [proc[p] EXCEPT !.pc = "bring_up", !.staged = TRUE]
               y == [w \in Workers |-> [proc[w] EXCEPT !.pc = "clone_row"]]
    <3>1. x.staged BY <1>0 DEF FramesOK, SnapFrame
    <3>2. WithClones(p, x, "not_started", y) BY <2>1 DEF BringUp
    <3> HIDE DEF x, y
    <3>3. proc'[p] = x BY <2>0, <3>2 DEF WithClones
    <3> QED BY <2>0, <3>1, <3>3
  <2>2. CASE WithClones(p, Idle, "not_started", [w \in Workers |-> Idle])
    <3> DEFINE y == [w \in Workers |-> Idle]
    <3> HIDE DEF y
    <3>1. WithClones(p, Idle, "not_started", y) BY <2>2 DEF y
    <3>2. proc'[p] = Idle BY <2>0, <3>1 DEF WithClones
    <3> QED BY <2>0, <3>2, IdleFacts
  <2> QED BY <1>1, <2>1, <2>2 DEF StageBaked
<1>2. CASE WriteMemory(p) \/ FreezeRootfs(p)
  <2>1. proc[p].pc \in {"write_memory", "freeze_rootfs"} BY <1>2 DEF WriteMemory, FreezeRootfs
  <2>2. proc[p].snap.id \in SnapIds BY <1>c, <2>1 DEF HasSnapshot, Snapshotting
  <2>3. proc'[p].pc = "resume_failed" => files' = [files EXCEPT ![proc[p].snap.id] = NoDir]
    <3>1. \A c : GoTo(p, c) => proc'[p].pc = c BY <1>0, JumpGoes
    <3> QED BY <1>2, <3>1 DEF WriteMemory, FreezeRootfs
  <2> QED BY <1>b, <2>1, <2>2, <2>3
<1>3. CASE CleanupSnapshot(p)
  <2>1. proc[p].pc = "clean_up_snapshot" /\ files' = [files EXCEPT ![proc[p].snap.id] = NoDir]
    BY <1>3 DEF CleanupSnapshot
  <2>2. proc[p].snap.id \in SnapIds BY <1>c, <2>1 DEF HasSnapshot
  <2> QED BY <1>b, <2>1, <2>2
<1>4. CASE RecordSnapshot(p)
  <2>1. proc[p].pc = "record_snapshot" BY <1>4 DEF RecordSnapshot
  <2>2. proc[p].snap.id \in SnapIds BY <1>c, <2>1 DEF HasSnapshot, Snapshotting
  <2>3. CASE files' = [files EXCEPT ![proc[p].snap.id] = NoDir] BY <1>b, <2>1, <2>2, <2>3
  <2>4. CASE CreateSnapshot(proc[p].snap.id, proc[p].sb)
    <3>1. PICK s : /\ s = [id |-> proc[p].snap.id, source |-> proc[p].sb.id, tap |-> proc[p].sb.tap,
                           ip |-> proc[p].sb.ip, rootfs |-> proc[p].sb.rootfs]
                   /\ snapshots' = snapshots \cup {s}
      BY <2>4 DEF CreateSnapshot
    <3>2. s.id = proc[p].snap.id BY <3>1
    <3> QED BY <2>1, <3>1, <3>2
  <2> QED BY <1>4, <2>3, <2>4 DEF RecordSnapshot
<1>5. CASE Step(p)
  BY <1>5 DEF Step, InsertRow, CreateTap, StartVM, AddPortForward, RecordStart, StopForce, StoreMachine,
     WaitForAgent, GetRow, ReadPorts, TakeMachine, WaitVM, RemoveForwards, DeleteTap, RemoveRootfs, DeleteRow,
     AllocatePort, ForwardExtra, UndoPort
<1>6. CASE SnapStep(p) /\ ~StageBaked(p) /\ ~WriteMemory(p) /\ ~FreezeRootfs(p) /\ ~CleanupSnapshot(p)
           /\ ~RecordSnapshot(p)
  BY <1>6 DEF SnapStep, Pause, Resume, InsertRestore, CopyRootfs, LoadSnapshot, StatBaked, Unstage, Settle,
     FanoutDone, CloneRow, CloneRootfs, CreateTapUnbridged, StartClone, AttachTapToBridge, ForwardClone,
     RecordClone, StopClone
<1> QED BY <1>1, <1>2, <1>3, <1>4, <1>5, <1>6 DEF Handles

\* VMs are held after a handler's step.
LEMMA WorkVmsHeld ==
    ASSUME NEW p \in Goroutines, Works(p), main = "serve", VmsHeld PROVE VmsHeld'
<1> DEFINE x == proc[p]
           y == proc'[p]
<1>0. Effects(p) /\ SnapInv /\ DiskInv /\ Handles(p) BY WorkEffects DEF Works
<1>1. StepVms(p) /\ StepRows(p) /\ StepMachines(p) /\ Walk(p, p) BY <1>0 DEF Effects
<1>2. Alone /\ MachinesRight /\ CopyRight(p) BY <1>0 DEF DiskInv
<1>3. Edge(x.pc, y.pc) /\ ((y.pc = "idle" /\ y.id = 0) \/ (y.pc # "idle" /\ y.id = x.id)) BY <1>1 DEF Walk
<1> SUFFICES ASSUME NEW w \in vms'
             PROVE  /\ \E r \in sandboxes' : r.id = w.id
                    /\ w.id \in machines' \/ \E q \in Goroutines : proc'[q].id = w.id /\ proc'[q].pc \in Keepers
  BY DEF VmsHeld
<1>4. w.id = x.id => x.pc \notin {"stop_force", "wait_vm", "stop_clone"} BY <1>1 DEF StepVms
<1>5. ASSUME NEW v \in vms, VmKept(x, y, v, w)
      PROVE  /\ \E r \in sandboxes' : r.id = w.id
             /\ w.id \in machines' \/ \E q \in Goroutines : proc'[q].id = w.id /\ proc'[q].pc \in Keepers
  <2>1. w.id = v.id BY <1>5 DEF VmKept
  <2>2. PICK s \in sandboxes : s.id = v.id BY DEF VmsHeld
  <2>3. v.id \in machines \/ \E q \in Goroutines : proc[q].id = v.id /\ proc[q].pc \in Keepers BY DEF VmsHeld
  <2>4. v.id # 0 BY <1>0, IdsTyped
  <2>5. ~(x.pc = "delete_row" /\ s.id = x.id)
    <3> SUFFICES ASSUME x.pc = "delete_row", v.id = x.id PROVE FALSE BY <2>2
    <3>1. x.id \notin machines BY <1>2 DEF MachinesRight, Unstored
    <3>2. PICK q \in Goroutines : proc[q].id = x.id /\ proc[q].pc \in Keepers BY <2>3, <3>1
    <3>3. q = p BY <1>2, <2>4, <3>2 DEF Alone
    <3> QED BY <3>2, <3>3 DEF Keepers, UpPCs
  <2>6. \E r \in sandboxes' : r.id = w.id BY <1>1, <2>1, <2>2, <2>5 DEF StepRows, SameSandbox
  <2>7. CASE v.id \in machines
    <3>1. CASE v.id \in machines' BY <2>1, <2>6, <3>1
    <3>2. CASE v.id \notin machines'
      <4>1. x.pc = "take_machine" /\ x.id = v.id BY <1>1, <2>7, <3>2 DEF StepMachines
      <4>2. y.pc = "wait_vm" BY <1>1, <2>7, <4>1 DEF StepMachines
      <4> QED BY <1>3, <2>1, <2>6, <4>1, <4>2 DEF Keepers
    <3> QED BY <3>1, <3>2
  <2>8. ASSUME NEW q \in Goroutines, proc[q].id = v.id, proc[q].pc \in Keepers
        PROVE  w.id \in machines' \/ \E o \in Goroutines : proc'[o].id = w.id /\ proc'[o].pc \in Keepers
    <3>1. CASE q # p
      <4>1. proc'[q].id = proc[q].id /\ proc'[q].pc \in Keepers
        BY <1>0, <2>8, <3>1, OthersStay DEF Keepers, UpPCs
      <4> QED BY <2>1, <2>8, <4>1
    <3>2. CASE q = p
      <4>1. x.pc \in UpPCs BY <1>4, <2>1, <2>8, <3>2 DEF Keepers
      <4>2. CASE x.pc = "store" BY <1>1, <2>1, <2>8, <3>2, <4>2 DEF StepMachines
      <4>3. CASE x.pc # "store"
        <5>1. y.pc \in Keepers BY <1>3, <4>1, <4>3 DEF Edge, Keepers, UpPCs
        <5>2. y.pc # "idle" BY <5>1 DEF Keepers, UpPCs
        <5> QED BY <1>3, <2>1, <2>8, <3>2, <5>1, <5>2
      <4> QED BY <4>2, <4>3
    <3> QED BY <3>1, <3>2
  <2> QED BY <2>3, <2>6, <2>7, <2>8
<1>6. CASE VmNew(x, y, w)
  <2>1. x.pc \in {"start_vm", "start_clone"} /\ y.pc \in {"forward", "loaded"} /\ w.id = x.sb.id BY <1>6 DEF VmNew
  <2>2. x.pc \notin NoCopy BY <2>1 DEF NoCopy, NoSandbox, FanoutPCs
  <2>3. x.sb.id = x.id /\ \E s \in sandboxes : SameSandbox(s, x.sb) BY <1>2, <2>2 DEF CopyRight
  <2>4. \E r \in sandboxes' : r.id = w.id BY <1>1, <2>1, <2>3 DEF StepRows, SameSandbox
  <2>5. y.pc \in Keepers BY <2>1 DEF Keepers, UpPCs
  <2> QED BY <1>3, <2>1, <2>3, <2>4, <2>5
<1> QED BY <1>1, <1>5, <1>6 DEF StepVms

\* Rootfs files are.
LEMMA WorkDisksHeld ==
    ASSUME NEW p \in Goroutines, Works(p), main = "serve", DisksHeld PROVE DisksHeld'
<1> DEFINE x == proc[p]
           y == proc'[p]
<1>0. Effects(p) /\ SnapInv /\ DiskInv /\ Handles(p) BY WorkEffects DEF Works
<1>1. StepDisks(p) /\ StepRows(p) /\ StepLeaves(p) /\ Walk(p, p) BY <1>0, LeavesStep DEF Effects
<1>2. Alone /\ \A q \in Goroutines : Roles(q) /\ CopyRight(q) BY <1>0 DEF DiskInv
<1>3. Edge(x.pc, y.pc) /\ ((y.pc = "idle" /\ y.id = 0) \/ (y.pc # "idle" /\ y.id = x.id)) BY <1>1 DEF Walk
<1>4. Requests \subseteq Goroutines BY DEF Goroutines
<1>5. ASSUME NEW path \in DOMAIN disks', Staged(path) PROVE Staged(path)'
  <2>1. PICK q \in Requests : proc[q].staged /\ proc[q].snap.rootfs = path BY <1>5 DEF Staged
  <2>2. proc[q].pc = "bring_up" BY <1>2, <1>4, <2>1 DEF Roles
  <2>3. q # p BY <1>1, <2>1, <2>2 DEF StepDisks, Removes, Unlinks
  <2>4. proc'[q] = proc[q] BY <1>0, <1>4, <2>3, OthersStay
  <2> QED BY <2>1, <2>4 DEF Staged
<1>6. ASSUME NEW path \in DOMAIN disks', path \notin DOMAIN disks
      PROVE  \/ x.pc \in {"copy_rootfs", "clone_rootfs"} /\ path = x.sb.rootfs
             \/ Staged(path)'
  <2>1. Lays(x, y, path) BY <1>1, <1>6 DEF StepDisks
  <2>2. CASE x.pc = "stage" /\ y.pc = "bring_up" /\ path = x.snap.rootfs
    <3>1. y.staged BY <1>1, <2>2 DEF StepLeaves
    <3>2. y.snap = x.snap BY <1>1, <2>2 DEF Walk
    <3>3. p \in Requests BY <1>2, <2>2 DEF Roles, FanoutPCs
    <3> QED BY <2>2, <3>1, <3>2, <3>3 DEF Staged
  <2> QED BY <2>1, <2>2 DEF Lays
<1>7. x.pc \in {"copy_rootfs", "clone_rootfs"} => /\ x.sb.id = x.id /\ x.id \in Ids
                                                  /\ \E r \in sandboxes : SameSandbox(r, x.sb)
  BY <1>0, <1>2, IdsTyped DEF CopyRight, NoCopy, NoSandbox, FanoutPCs
<1>8. ASSUME NEW d \in DOMAIN disks'
      PROVE  \/ \E r \in sandboxes' : r.rootfs = d
             \/ \E q \in Requests : proc'[q].pc = "insert_row" /\ proc'[q].id = d
             \/ Staged(d)'
  <2>1. CASE d \notin DOMAIN disks
    <3>1. CASE x.pc \in {"copy_rootfs", "clone_rootfs"} /\ d = x.sb.rootfs
      BY <1>1, <1>7, <3>1 DEF StepRows, SameSandbox
    <3> QED BY <1>6, <2>1, <3>1
  <2>2. ASSUME NEW r \in sandboxes, r.rootfs = d, d \in DOMAIN disks
        PROVE  (\E s \in sandboxes' : s.rootfs = d) \/ Staged(d)'
    <3>1. CASE x.pc = "delete_row" /\ r.id = x.id
      <4>1. r.rootfs = x.sb.rootfs BY <1>2, <3>1 DEF CopyRight, NoCopy, NoSandbox, FanoutPCs
      <4>2. Staged(d) BY <2>2, <3>1, <4>1 DEF DisksHeld
      <4> QED BY <1>5, <4>2
    <3>2. CASE ~(x.pc = "delete_row" /\ r.id = x.id) BY <1>1, <2>2, <3>2 DEF StepRows, SameSandbox
    <3> QED BY <3>1, <3>2
  <2>3. ASSUME NEW q \in Requests, proc[q].pc = "insert_row", proc[q].id = d
        PROVE  \/ \E r \in sandboxes' : r.rootfs = d
               \/ \E o \in Requests : proc'[o].pc = "insert_row" /\ proc'[o].id = d
    <3>1. CASE q # p
      <4>1. proc'[q] = proc[q] BY <1>0, <1>4, <3>1, OthersStay
      <4> QED BY <2>3, <4>1
    <3>2. CASE q = p
      <4>1. y.pc = "create_tap" BY <1>1, <1>3, <2>3, <3>2 DEF Edge, StepDisks, Removes
      <4>2. y.pc \notin NoCopy /\ x.pc \in NoCopy BY <2>3, <3>2, <4>1 DEF NoCopy, NoSandbox, FanoutPCs
      <4>3. PICK r \in sandboxes' : r.id = x.id BY <1>1, <1>3, <4>1, <4>2 DEF Walk
      <4>4. \A s \in sandboxes : s.id # x.id BY <1>1, <2>3, <3>2, <4>1 DEF StepRows, Inserts
      <4>5. r.rootfs = x.id BY <1>1, <2>3, <3>2, <4>3, <4>4 DEF StepRows, SameSandbox
      <4> QED BY <2>3, <3>2, <4>5
    <3> QED BY <3>1, <3>2
  <2> QED BY <1>5, <2>1, <2>2, <2>3 DEF DisksHeld
<1>9. ASSUME NEW q \in Goroutines, proc'[q].pc = "delete_row", proc'[q].sb.rootfs \in DOMAIN disks'
      PROVE  \E o \in Requests : proc'[o].staged /\ proc'[o].snap.rootfs = proc'[q].sb.rootfs
  <2>0. PICK path : path = proc'[q].sb.rootfs OBVIOUS
  <2>1. CASE q = p
    <3>1. x.pc = "remove_rootfs" BY <1>3, <1>9, <2>1 DEF Edge
    <3>2. y.sb = x.sb BY <1>1, <1>9, <2>1, <3>1 DEF Walk, NoCopy, NoSandbox, FanoutPCs, Reads
    <3> QED BY <1>1, <1>9, <2>1, <3>1, <3>2 DEF StepDisks, Removes, Unlinks
  <2>2. CASE q # p
    <3>1. proc'[q] = proc[q]
      <4>1. StepProc(p) BY <1>0, HandlerWalks
      <4> QED BY <1>9, <2>2, <4>1, IdleFacts DEF StepProc, CloneGoes
    <3>2. proc[q].pc = "delete_row" /\ proc[q].sb.rootfs = path /\ path \in DOMAIN disks' BY <1>9, <2>0, <3>1
    <3>3. Staged(path)'
      <4>1. CASE path \in DOMAIN disks BY <1>5, <3>2, <4>1 DEF DisksHeld
      <4>2. CASE x.pc \in {"copy_rootfs", "clone_rootfs"} /\ path = x.sb.rootfs
        <5>1. PICK r \in sandboxes : r.id = x.id /\ r.rootfs = path BY <1>7, <4>2 DEF SameSandbox
        <5>2. r.id = proc[q].id BY <1>2, <3>2, <5>1 DEF CopyRight, NoCopy, NoSandbox, FanoutPCs
        <5>3. x.id # 0 BY <1>0, <1>7, <4>2, IdsTyped
        <5> QED BY <1>2, <2>2, <5>1, <5>2, <5>3 DEF Alone
      <4> QED BY <1>6, <3>2, <4>1, <4>2
    <3> QED BY <2>0, <3>3 DEF Staged
  <2> QED BY <2>1, <2>2
<1> QED BY <1>8, <1>9 DEF DisksHeld, Staged

\* The files of snapshots are.
LEMMA WorkFilesHeld ==
    ASSUME NEW p \in Goroutines, Works(p), FilesHeld PROVE FilesHeld'
<1> DEFINE x == proc[p]
           y == proc'[p]
<1>0. Effects(p) /\ SnapInv /\ DiskInv /\ Handles(p) BY WorkEffects DEF Works
<1>1. StepFiles(p) /\ StepSnaps(p) /\ StepLeaves(p) /\ Walk(p, p) BY <1>0, LeavesStep DEF Effects
<1>2. SnapFilesRight /\ \A q \in Goroutines : Roles(q) BY <1>0 DEF DiskInv
<1>3. Edge(x.pc, y.pc) BY <1>1 DEF Walk
<1>4. Requests \subseteq Goroutines /\ Empty(NoDir) BY DEF Goroutines, Empty, NoDir
<1>a. FramesOK BY <1>0 DEF SnapInv
<1>b. \A q \in Goroutines : proc[q].pc \in Makers => proc[q].snap # NoRow /\ q \in Requests
  BY <1>2, <1>a DEF FramesOK, SnapLocal, HasSnapshot, Makers, Roles
<1>5. ASSUME NEW sid \in SnapIds, ~Empty(files'[sid])
      PROVE  \/ \E s \in snapshots' : s.id = sid
             \/ \E q \in Requests : proc'[q].snap.id = sid /\ proc'[q].pc \in Makers
  <2>1. CASE files'[sid] = files[sid]
    <3>1. ASSUME NEW q \in Requests, proc[q].snap.id = sid, proc[q].pc \in Makers
          PROVE  \/ \E s \in snapshots' : s.id = sid
                 \/ \E o \in Requests : proc'[o].snap.id = sid /\ proc'[o].pc \in Makers
      <4>1. CASE q # p
        <5>1. proc'[q] = proc[q] BY <1>0, <1>4, <4>1, OthersStay
        <5> QED BY <3>1, <5>1
      <4>2. CASE q = p /\ y.pc \in Makers
        <5>1. y.snap = x.snap BY <1>1, <4>2 DEF Walk, Makers, Snapshotting
        <5> QED BY <3>1, <4>2, <5>1
      <4>3. CASE q = p /\ y.pc \notin Makers
        <5>1. x.pc \in {"pause", "resume_failed", "record_snapshot", "clean_up_snapshot"}
          BY <1>3, <3>1, <4>3 DEF Edge, Makers, Snapshotting
        <5>2. x.pc \notin {"pause", "resume_failed"} BY <1>5, <2>1, <3>1, <4>3 DEF FilesHeld, Dir
        <5> QED BY <1>1, <1>4, <1>5, <3>1, <4>3, <5>1, <5>2 DEF StepLeaves
      <4> QED BY <4>1, <4>2, <4>3
    <3>2. \A s \in snapshots : s \in snapshots' BY <1>1 DEF StepSnaps
    <3> QED BY <1>5, <2>1, <3>1, <3>2 DEF FilesHeld
  <2>2. CASE sid = x.snap.id /\ Written(x, y, files[sid], files'[sid])
    <3>1. files'[sid] # NoDir BY <1>4, <1>5
    <3>2. x.pc \in Makers /\ y.pc \in Makers /\ y.pc \notin {"idle", "get_row"}
      BY <2>2, <3>1 DEF Written, Makers, Snapshotting
    <3>3. y.snap = x.snap BY <1>1, <3>2 DEF Walk
    <3> QED BY <1>b, <2>2, <3>2, <3>3
  <2> QED BY <1>1, <2>1, <2>2 DEF StepFiles
<1>6. ASSUME NEW q \in Goroutines, proc'[q].pc \in {"pause", "resume_failed"}
      PROVE  Empty(files'[proc'[q].snap.id])
  <2>1. CASE q = p
    <3>1. y.pc = "resume_failed" /\ x.pc \in {"write_memory", "freeze_rootfs"} BY <1>3, <1>6, <2>1 DEF Edge
    <3>2. y.snap = x.snap BY <1>1, <3>1 DEF Walk
    <3> QED BY <1>1, <1>4, <2>1, <3>1, <3>2 DEF StepLeaves
  <2>2. CASE q # p
    <3>1. proc'[q] = proc[q]
      <4>1. StepProc(p) BY <1>0, HandlerWalks
      <4> QED BY <1>6, <2>2, <4>1, IdleFacts DEF StepProc, CloneGoes
    <3>2. proc[q].pc \in Makers /\ proc[q].pc \in Snapshotting BY <1>6, <3>1 DEF Makers, Snapshotting
    <3>3. proc[q].snap.id \in SnapIds BY <1>0, <1>b, <3>2, IdsTyped
    <3>4. files'[proc[q].snap.id] = files[proc[q].snap.id]
      <4> SUFFICES ASSUME proc[q].snap.id = x.snap.id, x.pc \in Makers PROVE FALSE
        BY <1>1, <3>3 DEF StepFiles, Written, Makers, Snapshotting
      <4>1. x.snap # NoRow BY <1>b
      <4> QED BY <1>2, <2>2, <3>2, <4>1 DEF SnapFilesRight
    <3> QED BY <1>6, <3>1, <3>4 DEF FilesHeld, Dir
  <2> QED BY <2>1, <2>2
<1> QED BY <1>5, <1>6 DEF FilesHeld, Dir

\* Handlers leave nothing over.
LEMMA HandlerHeld == ASSUME NEW p \in Goroutines, Works(p), HeldInv PROVE HeldInv'
<1>0. Effects(p) BY WorkEffects
<1>1. UNCHANGED <<main, crashes>> BY <1>0 DEF Effects, StepElsewhere
<1> SUFFICES ASSUME crashes = 0 PROVE main' = "serve" /\ VmsHeld' /\ DisksHeld' /\ FilesHeld' /\ ClonesOwn'
  BY <1>1 DEF HeldInv
<1>2. main = "serve" /\ VmsHeld /\ DisksHeld /\ FilesHeld /\ ClonesOwn BY DEF HeldInv
<1>3. ClonesOwn'
  <2>1. \A w \in Workers : Walk(p, w) BY <1>0 DEF Effects, Goroutines
  <2> QED BY <1>2, <2>1 DEF ClonesOwn, Walk
<1> QED BY <1>1, <1>2, <1>3, WorkVmsHeld, WorkDisksHeld, WorkFilesHeld

\* Those who were at work go on, and others begin.
Newcomers ==
    \A q \in Goroutines : Alike(proc[q], proc'[q]) \/ (proc[q].pc = "idle" /\ proc'[q].pc \in EnterPCs \cup {"idle"})

\* A request takes up no goroutine but its own and those of its clones.
LEMMA ArrivalNew ==
    ASSUME Outside, ClonesOwn, Arrival \/ SnapArrival PROVE Newcomers /\ ClonesOwn'
<1>0. SnapInv /\ DiskInv /\ OutsideProc BY DEF Outside
<1>1. PICK p \in Requests : /\ proc[p].pc = "idle"
                            /\ \A q \in Goroutines \ {p} : \/ proc'[q] = proc[q]
                                                           \/ /\ q \in Workers /\ proc'[q].pc = "not_started"
                                                              /\ proc'[q].id = -q
  BY <1>0, ArrivalWalks
<1>2. p \in Goroutines /\ p \notin Workers /\ Workers \subseteq Goroutines BY GoroutinesAssumption DEF Goroutines
<1>3. \A q \in Goroutines : proc'[q] = proc[q] => Alike(proc[q], proc'[q]) BY DEF Alike, Same, Keeps
<1>4. ASSUME NEW q \in Goroutines
      PROVE  Alike(proc[q], proc'[q]) \/ (proc[q].pc = "idle" /\ proc'[q].pc \in EnterPCs \cup {"idle"})
  <2>1. CASE q = p
    <3>1. CASE proc'[q] = Idle BY <1>1, <2>1, <3>1, IdleFacts
    <3>2. CASE Enter(q, proc'[q]) BY <1>1, <2>1, <3>2, EnterAt
    <3> QED BY <1>0, <3>1, <3>2 DEF OutsideProc
  <2>2. CASE q # p /\ proc'[q] # proc[q]
    <3>1. q \in Workers /\ proc'[q].pc = "not_started" /\ proc'[q].id = -q BY <1>1, <2>2
    <3>2. CASE Alike(proc[q], proc'[q]) BY <3>2
    <3>3. CASE ~Alike(proc[q], proc'[q])
      <4>1. Enter(q, proc'[q]) BY <1>0, <3>1, <3>3, IdleFacts DEF OutsideProc
      <4>2. nextId <= -q BY <3>1, <4>1 DEF Enter
      <4>3. proc[q].id \in Int /\ proc[q].id < nextId /\ nextId \in Int BY <1>0, NewNobodys, IdsTyped
      <4>4. proc[q].id = 0 \/ proc[q].id = -q BY <3>1 DEF ClonesOwn
      <4>5. proc[q].id # -q
        <5>1. CASE proc[q].id = -q BY <4>2, <4>3, <5>1
        <5> QED BY <5>1
      <4>6. proc[q].pc \in NoSandbox BY <1>0, <4>4, <4>5, IdsTyped
      <4>7. q \notin Requests BY <3>1, GoroutinesAssumption
      <4>8. proc[q].pc = "idle" BY <1>0, <4>6, <4>7 DEF NoSandbox, DiskInv, Roles
      <4> QED BY <4>1, <4>8, EnterAt
    <3> QED BY <3>2, <3>3
  <2> QED BY <1>3, <2>1, <2>2
<1>5. ClonesOwn' BY <1>1, <1>2 DEF ClonesOwn
<1> QED BY <1>4, <1>5 DEF Newcomers

\* What they bring is theirs to see to: files whose sandbox has no row yet, files
\* whose snapshot has lost its row, a directory for a new snapshot.
HostHeld ==
    /\ \A w \in vms' : \E v \in vms : w.id = v.id
    /\ \A d \in DOMAIN disks' :
          d \in DOMAIN disks \/ \E q \in Requests : proc'[q].pc = "insert_row" /\ proc'[q].id = d
    /\ \A s \in snapshots :
          s \in snapshots' \/ \E q \in Requests : proc'[q].pc = "clean_up_snapshot" /\ proc'[q].snap.id = s.id
    /\ \A q \in Goroutines : proc'[q].pc = "pause" => Alike(proc[q], proc'[q]) \/ files[proc'[q].snap.id] = NoDir

\* Then nothing is left over.
LEMMA StaysHeld ==
    ASSUME Outside, VmsHeld, DisksHeld, FilesHeld, Newcomers, HostHeld, main' = "serve", UNCHANGED machines
    PROVE  VmsHeld' /\ DisksHeld' /\ FilesHeld'
<1>0. /\ SnapInv /\ DiskInv /\ OutsideHost /\ Requests \subseteq Goroutines /\ Empty(NoDir)
      /\ (\A q \in Goroutines : Roles(q) /\ CopyRight(q))
  BY DEF Outside, DiskInv, Goroutines, Empty, NoDir
<1>1. ASSUME NEW q \in Goroutines, proc[q].pc # "idle"
      PROVE  /\ proc'[q].pc = proc[q].pc /\ proc'[q].id = proc[q].id /\ proc'[q].snap = proc[q].snap
             /\ proc'[q].sb = proc[q].sb /\ proc'[q].staged = proc[q].staged
  BY <1>1 DEF Newcomers, Alike, Same, Keeps
<1>2. ASSUME NEW path, Staged(path) PROVE Staged(path)'
  <2>1. PICK q \in Requests : proc[q].staged /\ proc[q].snap.rootfs = path BY <1>2 DEF Staged
  <2>2. proc[q].pc = "bring_up" BY <1>0, <2>1 DEF Roles
  <2> QED BY <1>0, <1>1, <2>1, <2>2 DEF Staged
<1>3. VmsHeld'
  <2> SUFFICES ASSUME NEW w \in vms'
               PROVE  /\ \E r \in sandboxes' : r.id = w.id
                      /\ w.id \in machines' \/ \E q \in Goroutines : proc'[q].id = w.id /\ proc'[q].pc \in Keepers
    BY DEF VmsHeld
  <2>1. PICK v \in vms : w.id = v.id BY DEF HostHeld
  <2>2. \E r \in sandboxes' : r.id = w.id BY <1>0, <2>1 DEF VmsHeld, OutsideHost, SameSandbox
  <2>3. ASSUME NEW q \in Goroutines, proc[q].id = v.id, proc[q].pc \in Keepers
        PROVE  proc'[q].id = w.id /\ proc'[q].pc \in Keepers
    BY <1>1, <2>1, <2>3 DEF Keepers, UpPCs
  <2> QED BY <2>1, <2>2, <2>3 DEF VmsHeld
<1>4. ASSUME NEW d \in DOMAIN disks'
      PROVE  \/ \E r \in sandboxes' : r.rootfs = d
             \/ \E q \in Requests : proc'[q].pc = "insert_row" /\ proc'[q].id = d
             \/ Staged(d)'
  <2>1. ASSUME NEW r \in sandboxes, r.rootfs = d PROVE \E s \in sandboxes' : s.rootfs = d
    BY <1>0, <2>1 DEF OutsideHost, SameSandbox
  <2>2. ASSUME NEW q \in Requests, proc[q].pc = "insert_row", proc[q].id = d
        PROVE  proc'[q].pc = "insert_row" /\ proc'[q].id = d
    BY <1>0, <1>1, <2>2
  <2> QED BY <1>2, <2>1, <2>2 DEF HostHeld, DisksHeld
<1>5. ASSUME NEW q \in Goroutines, proc'[q].pc = "delete_row", proc'[q].sb.rootfs \in DOMAIN disks'
      PROVE  \E o \in Requests : proc'[o].staged /\ proc'[o].snap.rootfs = proc'[q].sb.rootfs
  <2>0. PICK path : path = proc'[q].sb.rootfs OBVIOUS
  <2>1. Alike(proc[q], proc'[q]) BY <1>5 DEF Newcomers, EnterPCs
  <2>2. proc[q].pc = "delete_row" /\ proc[q].sb.rootfs = path BY <1>5, <2>0, <2>1 DEF Alike, Same
  <2>3. \E r \in sandboxes : r.rootfs = path
    <3>1. main # "stop_all" BY <1>5, IdleFacts DEF Outside, OutsideProc
    <3> QED BY <1>0, <2>2, <3>1 DEF CopyRight, NoCopy, NoSandbox, FanoutPCs, SameSandbox
  <2>4. path \in DOMAIN disks BY <1>0, <1>5, <2>0, <2>3, RowPathsOld DEF OutsideHost
  <2>5. Staged(path)' BY <1>2, <2>2, <2>4 DEF DisksHeld
  <2> QED BY <2>0, <2>5 DEF Staged
<1>6. DisksHeld' BY <1>4, <1>5 DEF DisksHeld, Staged
<1>7. ASSUME NEW sid \in SnapIds, ~Empty(files'[sid])
      PROVE  \/ \E s \in snapshots' : s.id = sid
             \/ \E q \in Requests : proc'[q].snap.id = sid /\ proc'[q].pc \in Makers
  <2>1. ~Empty(files[sid]) BY <1>0, <1>7 DEF OutsideHost, Empty
  <2>2. ASSUME NEW q \in Requests, proc[q].snap.id = sid, proc[q].pc \in Makers
        PROVE  proc'[q].snap.id = sid /\ proc'[q].pc \in Makers
    BY <1>0, <1>1, <2>2 DEF Makers, Snapshotting
  <2> QED BY <2>1, <2>2 DEF FilesHeld, HostHeld, Makers
<1>8. ASSUME NEW q \in Goroutines, proc'[q].pc \in {"pause", "resume_failed"}
      PROVE  Empty(files'[proc'[q].snap.id])
  <2>0. PICK sid : sid = proc'[q].snap.id OBVIOUS
  <2>1. sid \in SnapIds
    <3>1. proc'[q].pc \in HasSnapshot BY <1>8 DEF HasSnapshot, Snapshotting
    <3> QED BY <2>0, <3>1 DEF Outside, SnapInv, FramesOK, SnapLocal, Snapshot
  <2>2. Empty(files[sid])
    <3>1. CASE Alike(proc[q], proc'[q]) BY <1>8, <2>0, <3>1 DEF Alike, Same, Keeps, FilesHeld, Dir
    <3>2. CASE ~Alike(proc[q], proc'[q]) BY <1>0, <1>8, <2>0, <3>2 DEF Newcomers, EnterPCs, HostHeld
    <3> QED BY <3>1, <3>2
  <2> QED BY <1>0, <2>0, <2>1, <2>2 DEF OutsideHost, Empty
<1>9. FilesHeld' BY <1>7, <1>8 DEF FilesHeld, Dir
<1> QED BY <1>3, <1>6, <1>9

\* A request that arrives brings what it sees to.
LEMMA ArrivalHeld ==
    ASSUME SnapInv, "rootfs_partial" \notin Faults, (Arrival /\ UNCHANGED files) \/ SnapArrival
    PROVE  HostHeld /\ UNCHANGED machines
<1>1. PICK p \in Requests :
        \/ (\E timeout \in Timeouts : PrepareRootfs(p, timeout)) /\ UNCHANGED files
        \/ (\E id \in Ids : DestroyArrives(p, id)) /\ UNCHANGED files
        \/ (\E id \in Ids, guest \in GuestPorts : ExposeArrives(p, id, guest)) /\ UNCHANGED files
        \/ \E id \in Ids, sid \in SnapIds : SnapshotArrives(p, id, sid)
        \/ \E s \in snapshots :
              \/ DeleteSnapshotRow(p, s)
              \/ \E timeout \in Timeouts : RestoreArrives(p, s, timeout)
              \/ \E n \in Counts, timeout \in Timeouts : FanoutArrives(p, s, n, timeout)
  BY DEF Arrival, SnapArrival
<1>2. UNCHANGED <<machines, vms>>
  BY <1>1 DEF PrepareRootfs, DestroyArrives, ExposeArrives, SnapshotArrives, DeleteSnapshotRow, RestoreArrives,
              FanoutArrives, hostVars
<1>3. p \in Goroutines /\ FramesOK BY DEF Goroutines, SnapInv
<1>4. \A x : proc' = [proc EXCEPT ![p] = x] => proc'[p] = x /\ \A q \in Goroutines \ {p} : Alike(proc[q], proc'[q])
  BY <1>3 DEF FramesOK, Alike, Same, Keeps
<1>5. ASSUME NEW timeout \in Timeouts, PrepareRootfs(p, timeout) PROVE HostHeld
  <2> DEFINE x == [Idle EXCEPT !.pc = "insert_row", !.id = nextId, !.expires = Deadline(timeout), !.ctx = "request"]
  <2>1. x.pc = "insert_row" /\ x.id = nextId BY DEF Idle
  <2>2. UNCHANGED snapshots BY <1>5 DEF PrepareRootfs, regVars
  <2>3. CASE disks' = WithFile(nextId, 0) /\ proc' = [proc EXCEPT ![p] = x]
    <3> HIDE DEF x
    <3>1. \A d \in DOMAIN disks' : d \in DOMAIN disks \/ d = nextId BY <2>3 DEF WithFile
    <3>2. proc'[p].pc = "insert_row" /\ proc'[p].id = nextId BY <1>4, <2>1, <2>3
    <3> QED BY <1>2, <1>3, <1>4, <2>2, <2>3, <3>1, <3>2 DEF HostHeld
  <2>4. CASE UNCHANGED <<disks, proc>> BY <1>2, <2>2, <2>4, SameAlike DEF HostHeld
  <2> QED BY <1>5, <2>3, <2>4 DEF PrepareRootfs, Fault
<1>6. ASSUME NEW id \in Ids, DestroyArrives(p, id) \/ \E guest \in GuestPorts : ExposeArrives(p, id, guest)
      PROVE  HostHeld
  <2>1. UNCHANGED <<snapshots, disks>> BY <1>6 DEF DestroyArrives, ExposeArrives, regVars, hostVars
  <2>2. PICK x : proc' = [proc EXCEPT ![p] = x] /\ x.pc # "pause"
    <3>1. CASE DestroyArrives(p, id)
      <4> DEFINE x == [Idle EXCEPT !.pc = "get_row", !.id = id, !.ctx = "request"]
      <4>1. x.pc # "pause" BY DEF Idle
      <4>2. proc' = [proc EXCEPT ![p] = x] BY <3>1 DEF DestroyArrives
      <4> HIDE DEF x
      <4> QED BY <4>1, <4>2
    <3>2. ASSUME NEW guest \in GuestPorts, ExposeArrives(p, id, guest)
          PROVE  \E x : proc' = [proc EXCEPT ![p] = x] /\ x.pc # "pause"
      <4> DEFINE sb == RowOf(id, sandboxes)
                 x == [Idle EXCEPT !.pc = "add_port", !.id = id, !.sb = sb, !.guest = guest, !.ctx = "request"]
      <4>1. x.pc # "pause" BY DEF Idle
      <4>2. proc' = [proc EXCEPT ![p] = x] BY <3>2 DEF ExposeArrives
      <4> HIDE DEF x
      <4> QED BY <4>1, <4>2
    <3> QED BY <1>6, <3>1, <3>2
  <2> QED BY <1>2, <1>4, <2>1, <2>2 DEF HostHeld
<1>7. ASSUME NEW id \in Ids, NEW sid \in SnapIds, SnapshotArrives(p, id, sid) PROVE HostHeld
  <2>1. UNCHANGED <<snapshots, disks>> /\ files[sid] = NoDir BY <1>7 DEF SnapshotArrives, regVars, hostVars, Unused
  <2>2. PICK sb : sb = RowOf(id, sandboxes) OBVIOUS
  <2>3. PICK s : s = [id |-> sid, source |-> id, tap |-> sb.tap, ip |-> sb.ip, rootfs |-> sb.rootfs] OBVIOUS
  <2> DEFINE x == [Idle EXCEPT !.pc = "pause", !.id = id, !.sb = sb, !.ctx = "request", !.snap = s]
  <2>4. x.snap.id = sid BY <2>3 DEF Idle
  <2>5. proc' = [proc EXCEPT ![p] = x] BY <1>7, <2>2, <2>3 DEF SnapshotArrives
  <2> HIDE DEF x
  <2> QED BY <1>2, <1>4, <2>1, <2>4, <2>5 DEF HostHeld
<1>8. ASSUME NEW s \in snapshots, DeleteSnapshotRow(p, s) PROVE HostHeld
  <2>1. UNCHANGED disks /\ snapshots' = snapshots \ GetSnapshot(s.id)
    BY <1>8 DEF DeleteSnapshotRow, DeleteSnapshot, hostVars
  <2> DEFINE x == [Idle EXCEPT !.pc = "clean_up_snapshot", !.snap = s, !.ctx = "request"]
  <2>2. x.pc = "clean_up_snapshot" /\ x.snap = s BY DEF Idle
  <2>3. proc' = [proc EXCEPT ![p] = x] BY <1>8 DEF DeleteSnapshotRow
  <2> HIDE DEF x
  <2>4. \A t \in snapshots : t \in snapshots' \/ t.id = s.id BY <2>1 DEF GetSnapshot
  <2> QED BY <1>2, <1>3, <1>4, <2>1, <2>2, <2>3, <2>4 DEF HostHeld
<1>9. ASSUME NEW s \in snapshots, NEW timeout \in Timeouts, RestoreArrives(p, s, timeout) PROVE HostHeld
  <2>1. UNCHANGED <<snapshots, disks>> BY <1>9 DEF RestoreArrives, regVars, hostVars
  <2> DEFINE e == Deadline(timeout)
             x == [Idle EXCEPT !.pc = "insert_restore", !.id = nextId, !.snap = s, !.expires = e, !.ctx = "request"]
  <2>2. x.pc # "pause" BY DEF Idle
  <2>3. proc' = [proc EXCEPT ![p] = x] BY <1>9 DEF RestoreArrives
  <2> HIDE DEF x
  <2> QED BY <1>2, <1>4, <2>1, <2>2, <2>3 DEF HostHeld
<1>10. ASSUME NEW s \in snapshots, NEW n \in Counts, NEW timeout \in Timeouts, FanoutArrives(p, s, n, timeout)
       PROVE  HostHeld
  <2> DEFINE ids == nextId .. nextId + n - 1
             new == {-id : id \in ids}
             e == Deadline(timeout)
             x == [Idle EXCEPT !.pc = "stat_baked", !.snap = s, !.ctx = "request"]
             y(q) == [Idle EXCEPT !.pc = "not_started", !.id = -q, !.snap = s, !.by = p, !.expires = e]
  <2>1. proc' = [q \in Goroutines |-> CASE q = p -> x [] q \in new -> y(q) [] OTHER -> proc[q]]
    BY <1>10, Zenon DEF FanoutArrives
  <2>2. x.pc # "pause" /\ \A q : y(q).pc # "pause" BY DEF Idle
  <2>3. UNCHANGED <<snapshots, disks>> BY <1>10 DEF FanoutArrives, regVars, hostVars
  <2> HIDE DEF x, y, new
  <2>4. \A q \in Goroutines : proc'[q].pc # "pause" \/ proc'[q] = proc[q] BY <2>1, <2>2
  <2>5. \A q \in Goroutines : proc'[q].pc = "pause" => Alike(proc[q], proc'[q]) BY <2>4 DEF Alike, Same, Keeps
  <2> QED BY <1>2, <2>3, <2>5 DEF HostHeld
<1> QED BY <1>1, <1>2, <1>5, <1>6, <1>7, <1>8, <1>9, <1>10

\* The other steps of a server that is not stopped leave files and tables alone.
LEMMA CalmHeld ==
    ASSUME Outside, ClonesOwn, \A q \in Goroutines : Alike(proc[q], proc'[q]), DOMAIN disks' = DOMAIN disks,
           UNCHANGED snapshots
    PROVE  Newcomers /\ HostHeld /\ ClonesOwn'
<1>1. \A w \in vms' : \E v \in vms : w.id = v.id BY DEF Outside, OutsideHost
<1>2. Newcomers /\ HostHeld BY <1>1 DEF Newcomers, HostHeld
<1>3. ClonesOwn' BY DEF ClonesOwn, Alike, Same, Keeps, Goroutines
<1> QED BY <1>2, <1>3

\* So every step outside of the handlers does.
LEMMA OtherHeld ==
    ASSUME SnapInv, SnapInv', DiskInv, Careful, "rootfs_partial" \notin Faults, HeldInv, [SnapNext]_allVars,
           ~\E p \in Goroutines : Handles(p)
    PROVE  HeldInv'
<1>0. Outside BY OtherOutside
<1> SUFFICES ASSUME crashes' = 0
             PROVE  main' = "serve" /\ VmsHeld' /\ DisksHeld' /\ FilesHeld' /\ ClonesOwn'
  BY DEF HeldInv
<1>a. ~ReaperTick /\ ~ReapNext BY ReaperIdle
<1>b. crashes \in Nat BY DEF SnapInv, HostTyped, EnvOK
<1>c. ~Stop /\ ~Crash /\ ~Reboot
  <2>1. crashes' # crashes + 1 BY <1>b
  <2> QED BY <2>1 DEF Stop, Crash, Reboot
<1>1. UNCHANGED crashes /\ (main' = main \/ main \in {"down", "recover", "abort", "drain", "stop_all"})
  <2>1. CASE Arrival \/ SnapArrival BY <2>1, ArrivalWalks
  <2>2. CASE GuestStep BY <2>2 DEF GuestStep, Thaw, GuestWrites, memVars, envVars
  <2>3. CASE Serve
    BY <2>3 DEF Serve, Restart, ReconcileNext, Listen, ShutdownAll, Exit, ProcessGone, envVars
  <2>4. CASE Environment BY <1>c, <2>4 DEF Environment, Disconnect, VMExit, Tick, memVars, envVars
  <2>5. CASE UNCHANGED allVars BY <2>5 DEF allVars, vars, memVars, envVars
  <2>6. ASSUME NEW id \in Ids, NEW timeout \in Timeouts, SetTimeout(id, timeout)
        PROVE  UNCHANGED crashes /\ main' = main
    BY <2>6 DEF SetTimeout, memVars, envVars
  <2> QED BY <1>a, <2>1, <2>2, <2>3, <2>4, <2>5, <2>6 DEF SnapNext, Next, Handles
<1>2. main = "serve" /\ main' = "serve" /\ VmsHeld /\ DisksHeld /\ FilesHeld /\ ClonesOwn BY <1>1 DEF HeldInv
<1>d. ~Serve BY <1>2 DEF Serve, Restart, ReconcileNext, Listen, ShutdownAll, Exit
<1>3. CASE (Arrival /\ UNCHANGED files) \/ SnapArrival
  <2>1. Newcomers /\ ClonesOwn' BY <1>0, <1>2, <1>3, ArrivalNew
  <2>2. HostHeld /\ UNCHANGED machines BY <1>3, ArrivalHeld
  <2> QED BY <1>0, <1>2, <2>1, <2>2, StaysHeld
<1>4. ASSUME \A q \in Goroutines : Alike(proc[q], proc'[q]), DOMAIN disks' = DOMAIN disks,
             UNCHANGED <<snapshots, machines>>
      PROVE  VmsHeld' /\ DisksHeld' /\ FilesHeld' /\ ClonesOwn'
  <2>1. Newcomers /\ HostHeld /\ ClonesOwn' BY <1>0, <1>2, <1>4, CalmHeld
  <2> QED BY <1>0, <1>2, <1>4, <2>1, StaysHeld
<1>5. CASE UNCHANGED <<proc, disks, snapshots, machines>> BY <1>2, <1>4, <1>5, SameAlike
<1>6. CASE Tick \/ UNCHANGED allVars \/ GuestStep
  <2>1. CASE Tick \/ UNCHANGED allVars
    BY <1>5, <2>1 DEF Tick, allVars, vars, regVars, hostVars, memVars
  <2>2. ASSUME NEW v \in vms, Thaw(v) PROVE UNCHANGED <<proc, disks, snapshots, machines>>
    BY <2>2 DEF Thaw, regVars, memVars
  <2>3. ASSUME NEW v \in vms, GuestWrites(v)
        PROVE  UNCHANGED <<proc, snapshots, machines>> /\ DOMAIN disks' = DOMAIN disks
    <3>1. UNCHANGED <<proc, snapshots, machines>> BY <2>3 DEF GuestWrites, regVars, memVars
    <3>2. disks' = disks \/ \E path, c : disks' = [disks EXCEPT ![path] = c] BY <2>3 DEF GuestWrites
    <3> QED BY <3>1, <3>2
  <2> QED BY <1>2, <1>4, <1>5, <1>6, <2>1, <2>2, <2>3, SameAlike DEF GuestStep
<1>7. ASSUME NEW p \in Requests, Disconnect(p) PROVE VmsHeld' /\ DisksHeld' /\ FilesHeld' /\ ClonesOwn'
  <2>1. \A q \in Goroutines : Alike(proc[q], proc'[q])
    BY <1>7 DEF Disconnect, SnapInv, FramesOK, SnapFrame, Alike, Same, Keeps
  <2>2. UNCHANGED <<disks, snapshots, machines>> BY <1>7 DEF Disconnect, regVars, hostVars
  <2> QED BY <1>4, <2>1, <2>2
<1>8. ASSUME NEW v \in vms, VMExit(v) PROVE UNCHANGED <<proc, disks, snapshots, machines>>
  BY <1>8 DEF VMExit, regVars, memVars
<1>9. ASSUME NEW id \in Ids, NEW timeout \in Timeouts, SetTimeout(id, timeout)
      PROVE  UNCHANGED <<proc, disks, snapshots, machines>>
  BY <1>9 DEF SetTimeout, SetExpiry, hostVars, memVars
<1> QED BY <1>2, <1>3, <1>5, <1>6, <1>7, <1>8, <1>9, <1>a, <1>c, <1>d DEF SnapNext, Next, Environment, Handles

\* Hence it is an invariant, unless cp leaves a part of a file behind.
LEMMA HeldInvariant == Careful /\ "rootfs_partial" \notin Faults => (SnapSpec => []HeldInv)
<1> SUFFICES ASSUME Careful, "rootfs_partial" \notin Faults PROVE SnapSpec => []HeldInv OBVIOUS
<1>1. SnapInit => HeldInv
  <2> SUFFICES ASSUME SnapInit PROVE HeldInv OBVIOUS
  <2>1. /\ vms = {} /\ main = "serve" /\ DOMAIN disks = {} /\ files = [sid \in SnapIds |-> NoDir]
        /\ \A p \in Goroutines : proc[p] = Idle
    BY DEF SnapInit, Init
  <2>2. Workers \subseteq Goroutines /\ Empty(NoDir) BY DEF Goroutines, Empty, NoDir
  <2>3. VmsHeld /\ DisksHeld BY <2>1, IdleFacts DEF VmsHeld, DisksHeld
  <2>4. FilesHeld BY <2>1, <2>2, IdleFacts DEF FilesHeld
  <2>5. ClonesOwn BY <2>1, <2>2, IdleFacts DEF ClonesOwn
  <2> QED BY <2>1, <2>3, <2>4, <2>5 DEF HeldInv
<1>2. SnapInv /\ SnapInv' /\ DiskInv /\ HeldInv /\ [SnapNext]_allVars => HeldInv' BY HandlerHeld, OtherHeld DEF Works
<1> QED BY <1>1, <1>2, SnapshotsInvariant, DiskInvariant, PTL DEF SnapSpec

\* Until the server goes down for the first time every VM has a row, every disk
\* file a row or a request that will record or remove it, and every snapshot file
\* likewise, however calls fail and clients hang up, provided that clients leave a
\* sandbox that another call is at work on alone and that a cp that fails leaves
\* no partial file (which the create's error path does not remove).
THEOREM SnapshotsNothingLeftOver ==
    ASSUME Careful, "rootfs_partial" \notin Faults PROVE SnapSpec => [](crashes = 0 => NothingLeftOver)
<1>1. HeldInv => (crashes = 0 => NothingLeftOver)
  <2> SUFFICES ASSUME VmsHeld, DisksHeld, FilesHeld PROVE NothingLeftOver BY DEF HeldInv
  <2>1. \A v \in vms : Get(v.id) # {} BY DEF VmsHeld, Get
  <2>2. \A d \in DOMAIN disks : \/ \E r \in sandboxes : r.rootfs = d
                                \/ \E p \in Requests : \/ proc[p].pc = "insert_row" /\ proc[p].id = d
                                                       \/ proc[p].staged /\ proc[p].snap.rootfs = d
    BY DEF DisksHeld, Staged
  <2>3. \A sid \in SnapIds : files[sid].mem # Absent \/ files[sid].disk # Absent =>
            GetSnapshot(sid) # {} \/ \E p \in Requests : proc[p].snap.id = sid
    BY DEF FilesHeld, Empty, GetSnapshot
  <2> QED BY <2>1, <2>2, <2>3 DEF NothingLeftOver
<1> QED BY <1>1, HeldInvariant, PTL

-----------------------------------------------------------------------------
(* Who is on the bridge *)

\* A device belongs to the row that has its name; it is gone before the row is.
TapsRight ==
    /\ \A d \in taps : \E r \in sandboxes : r.id = d.owner /\ r.tap = d.tap
    /\ \A p \in Goroutines : proc[p].pc \in {"remove_rootfs", "delete_row"} =>
          \A d \in taps : d.tap # proc[p].sb.tap
    /\ \A p \in Goroutines : proc[p].pc \notin NoCopy =>
          \A r \in sandboxes : r.id = proc[p].id => r.tap = proc[p].sb.tap

\* A VM runs on its own device and uses the address that goes with the name; a
\* clone's guest has another one until it thaws, and then its device is off the
\* bridge.
Addr(v) == IpMin + v.tap
GuestsRight ==
    /\ \A v \in vms : v.dev = v.id /\ v.mmds \in {0, Addr(v)} /\ (v.mmds = 0 => v.ip = Addr(v))
    /\ \A v \in vms : Thawing(v) => ~OnBridge(v)
    /\ \A p \in Goroutines : proc[p].pc = "start_clone" => \A d \in taps : d.tap = proc[p].sb.tap => ~d.bridged
    /\ \A p \in Goroutines : proc[p].pc = "bridge" => \A v \in vms : v.id = proc[p].id => ~Thawing(v)

BridgeInv == TapsRight /\ GuestsRight

\* What a handler does to the devices: one is created for its sandbox, off the
\* bridge for a clone, is attached or deleted.
StepTaps(p) ==
    LET x == proc[p]
        y == proc'[p] IN
    /\ \A d \in taps' :
          \/ d \in taps
          \/ /\ x.pc \in {"create_tap", "create_tap_unbridged"} /\ d.tap = x.sb.tap /\ d.owner = x.id
             /\ x.pc = "create_tap_unbridged" => ~d.bridged
          \/ x.pc = "bridge" /\ d.tap = x.sb.tap /\ \E e \in taps : e.tap = d.tap /\ e.owner = d.owner
    /\ \A d \in taps : d \in taps' \/ ~d.bridged \/ (x.pc = "delete_tap" /\ d.tap = x.sb.tap)
    /\ x.pc = "delete_tap" => \A d \in taps' : d.tap # x.sb.tap
    /\ x.pc = "create_tap_unbridged" /\ y.pc = "start_clone" => \A d \in taps : d.tap # x.sb.tap
\* A fan-out lets its clones onto the bridge when they have thawed.
StepSettles(p) ==
    \A q \in Goroutines : proc[q].pc = "loaded" /\ proc'[q].pc = "bridge" =>
        UNCHANGED vms /\ \A v \in vms : v.id = proc[q].id => ~Thawing(v)

\* So every handler's step does.
LEMMA TapsStep == ASSUME SnapInv, NEW p \in Goroutines, Handles(p) PROVE StepTaps(p)
<1> DEFINE x == proc[p]
<1>0. FramesOK BY DEF SnapInv
<1>1. CASE CreateTap(p)
  <2>1. PICK b : taps' = taps \/ taps' = taps \cup {[tap |-> x.sb.tap, owner |-> x.id, bridged |-> b]}
    BY <1>1 DEF CreateTap
  <2>2. PICK e : e = [tap |-> x.sb.tap, owner |-> x.id, bridged |-> b] OBVIOUS
  <2>3. e.tap = x.sb.tap /\ e.owner = x.id BY <2>2
  <2>4. x.pc = "create_tap" /\ (taps' = taps \/ taps' = taps \cup {e}) BY <1>1, <2>1, <2>2 DEF CreateTap
  <2> QED BY <2>3, <2>4 DEF StepTaps
<1>2. CASE CreateTapUnbridged(p)
  <2>1. PICK e : e = [tap |-> x.sb.tap, owner |-> x.id, bridged |-> FALSE] OBVIOUS
  <2>2. e.tap = x.sb.tap /\ e.owner = x.id /\ ~e.bridged BY <2>1
  <2>3. x.pc = "create_tap_unbridged" /\ (taps' = taps \/ taps' = taps \cup {e}) BY <1>2, <2>1 DEF CreateTapUnbridged
  <2>4. (\A d \in taps : d.tap # x.sb.tap) \/ Rollback(p) BY <1>2 DEF CreateTapUnbridged
  <2>5. Rollback(p) => proc'[p].pc = "delete_tap" BY <1>0, JumpGoes
  <2> QED BY <2>2, <2>3, <2>4, <2>5 DEF StepTaps
<1>3. CASE AttachTapToBridge(p)
  <2> DEFINE new(d) == IF d.tap = x.sb.tap THEN [d EXCEPT !.bridged = TRUE] ELSE d
  <2>0. \A d \in taps : d \in [tap : Taps, owner : Ids, bridged : BOOLEAN] BY DEF SnapInv, HostTyped, TapsOK
  <2>1. \A d \in taps : \/ new(d) = d
                        \/ ~d.bridged /\ new(d).tap = x.sb.tap /\ new(d).tap = d.tap /\ new(d).owner = d.owner
    BY <2>0
  <2>2. x.pc = "bridge" /\ (taps' = taps \/ taps' = {new(d) : d \in taps}) BY <1>3 DEF AttachTapToBridge
  <2> HIDE DEF new
  <2> QED BY <2>1, <2>2 DEF StepTaps
<1>4. CASE DeleteTap(p) BY <1>4 DEF DeleteTap, StepTaps
<1>5. CASE UNCHANGED taps /\ x.pc \notin {"delete_tap", "create_tap_unbridged"} BY <1>5 DEF StepTaps
<1>6. CASE Step(p) /\ ~CreateTap(p) /\ ~DeleteTap(p)
  <2>1. UNCHANGED taps /\ x.pc \notin {"delete_tap", "create_tap_unbridged"}
    BY <1>6 DEF Step, InsertRow, StartVM, AddPortForward, RecordStart, StopForce, StoreMachine, WaitForAgent, GetRow,
       ReadPorts, TakeMachine, WaitVM, RemoveForwards, RemoveRootfs, DeleteRow, AllocatePort, ForwardExtra,
       UndoPort, hostVars
  <2> QED BY <1>5, <2>1
<1>7. CASE SnapStep(p) /\ ~CreateTapUnbridged(p) /\ ~AttachTapToBridge(p)
  <2>1. UNCHANGED taps /\ x.pc \notin {"delete_tap", "create_tap_unbridged"}
    BY <1>7 DEF SnapStep, Pause, WriteMemory, FreezeRootfs, Resume, RecordSnapshot, CleanupSnapshot,
       InsertRestore, CopyRootfs, LoadSnapshot, StatBaked, StageBaked, Unstage, Settle, FanoutDone, CloneRow,
       CloneRootfs, StartClone, ForwardClone, RecordClone, StopClone, hostVars
  <2> QED BY <1>5, <2>1
<1> QED BY <1>1, <1>2, <1>3, <1>4, <1>6, <1>7 DEF Handles

\* Only a fan-out that has settled bridges its clones.
LEMMA SettlesStep ==
    ASSUME SnapInv, "late_thaw" \notin Faults, NEW p \in Goroutines, Handles(p) PROVE StepSettles(p)
<1>0. FramesOK /\ StepProc(p) BY HandlerWalks DEF SnapInv
<1>1. CASE Settle(p)
  <2>1. UNCHANGED vms /\ \A w \in ClonesOf(p), v \in vms : v.id = proc[w].id => ~Thawing(v)
    BY <1>1 DEF Settle, Fault, hostVars
  <2> DEFINE x == [proc[p] EXCEPT !.pc = "finish_clones"]
             y == [w \in Workers |-> [proc[w] EXCEPT !.pc = "bridge", !.ctx = "parent"]]
  <2>2. WithClones(p, x, "loaded", y) /\ proc[p].pc = "settle" BY <1>1 DEF Settle
  <2> HIDE DEF x, y
  <2>3. \A q \in Goroutines : proc[q].pc = "loaded" /\ proc'[q].pc = "bridge" => q \in ClonesOf(p)
    BY <2>2 DEF WithClones
  <2> QED BY <2>1, <2>3 DEF StepSettles
<1>2. CASE ~Settle(p)
  <2> SUFFICES \A q \in Goroutines : ~(proc[q].pc = "loaded" /\ proc'[q].pc = "bridge") BY DEF StepSettles
  <2>1. CASE \A q \in Goroutines \ {p} : proc'[q] = proc[q]
    <3>1. Edge(proc[p].pc, proc'[p].pc) BY <1>0 DEF StepProc, Goes
    <3> QED BY <2>1, <3>1 DEF Edge
  <2>2. CASE StatBaked(p) \/ StageBaked(p)
    <3>1. ASSUME NEW x, NEW y, WithClones(p, x, "not_started", y), proc[p].pc \in {"stat_baked", "stage"}
          PROVE  \A q \in Goroutines : proc[q].pc = "loaded" => proc'[q] = proc[q]
      BY <3>1 DEF WithClones
    <3>2. \/ \E x, y : WithClones(p, x, "not_started", y)
          \/ GoTo(p, "stage")
      <4> DEFINE y == [w \in Workers |-> Idle]
                 z == [w \in Workers |-> [proc[w] EXCEPT !.pc = "clone_row"]]
                 x(b) == [proc[p] EXCEPT !.pc = "bring_up", !.staged = b]
      <4>1. \A b : BringUp(p, b) => WithClones(p, x(b), "not_started", z) BY DEF BringUp
      <4>2. BringUp(p, TRUE) \/ BringUp(p, FALSE) \/ WithClones(p, Idle, "not_started", y) \/ GoTo(p, "stage")
        BY <2>2 DEF StatBaked, StageBaked
      <4> HIDE DEF x, y, z
      <4> QED BY <4>1, <4>2
    <3>3. GoTo(p, "stage") => \A q \in Goroutines \ {p} : proc'[q] = proc[q] BY <1>0, JumpGoes
    <3>4. proc[p].pc \in {"stat_baked", "stage"} BY <2>2 DEF StatBaked, StageBaked
    <3> QED BY <3>1, <3>2, <3>3, <3>4
  <2>3. CASE ~StatBaked(p) /\ ~StageBaked(p)
    <3>0. proc = [q \in Goroutines |-> proc[q]] BY <1>0 DEF FramesOK
    <3>1. CASE Step(p)
      BY <2>1, <3>0, <3>1 DEF Step, InsertRow, CreateTap, StartVM, AddPortForward, RecordStart, StopForce, StoreMachine,
         WaitForAgent, GetRow, ReadPorts, TakeMachine, WaitVM, RemoveForwards, DeleteTap, RemoveRootfs, DeleteRow,
         AllocatePort, ForwardExtra, UndoPort, AddPortForwardTo, GoTo, Return, Rollback
    <3>2. CASE SnapStep(p)
      BY <1>2, <2>1, <2>3, <3>0, <3>2 DEF SnapStep, Pause, WriteMemory, FreezeRootfs, Resume, RecordSnapshot,
         CleanupSnapshot, InsertRestore, CopyRootfs, LoadSnapshot, Unstage, FanoutDone, CloneRow, CloneRootfs,
         CreateTapUnbridged, StartClone, AttachTapToBridge, ForwardClone, RecordClone, StopClone, AddPortForwardTo,
         GoTo, Return, Rollback
    <3> QED BY <3>1, <3>2 DEF Handles
  <2> QED BY <2>2, <2>3
<1> QED BY <1>1, <1>2

\* A goroutine that makes a sandbox has its row, and only that has its tap.
LEMMA OwnTap ==
    ASSUME SnapInv, DiskInv, NEW p \in Goroutines, proc[p].pc \notin StopPCs \cup NoCopy
    PROVE  /\ \E r \in sandboxes : r.id = proc[p].id /\ r.tap = proc[p].sb.tap
           /\ \A r \in sandboxes : r.tap = proc[p].sb.tap => r.id = proc[p].id
           /\ proc[p].sb.id = proc[p].id /\ proc[p].id # 0
<1>1. main # "stop_all" BY HasItsOwn DEF NoCopy
<1>2. proc[p].sb.id = proc[p].id /\ \E r \in sandboxes : SameSandbox(r, proc[p].sb) BY <1>1 DEF DiskInv, CopyRight
<1>3. \A r, s \in sandboxes : r.tap = s.tap => r.id = s.id BY DEF SnapInv, RegInv, Exclusive, RowsExclusive
<1>4. proc[p].id # 0 BY IdsTyped DEF NoCopy
<1> QED BY <1>2, <1>3, <1>4 DEF SameSandbox

\* No other goroutine with a row has it.
LEMMA TapApart ==
    ASSUME SnapInv, DiskInv, NEW p \in Goroutines, NEW q \in Goroutines \ {p},
           proc[p].pc \notin StopPCs \cup NoCopy, proc[q].pc \notin NoCopy
    PROVE  proc[q].sb.tap # proc[p].sb.tap
<1>1. main # "stop_all" /\ proc[q].id # proc[p].id BY HasItsOwn DEF NoCopy
<1>2. proc[q].sb.id = proc[q].id /\ \E r \in sandboxes : SameSandbox(r, proc[q].sb) BY <1>1 DEF DiskInv, CopyRight
<1> QED BY <1>1, <1>2, OwnTap DEF SameSandbox

\* Devices go with their rows after a handler's step.
LEMMA WorkTaps == ASSUME NEW p \in Goroutines, Works(p), TapsRight PROVE TapsRight'
<1> DEFINE x == proc[p]
           y == proc'[p]
<1>0. Effects(p) /\ SnapInv /\ SnapInv' /\ DiskInv /\ Handles(p) BY WorkEffects DEF Works
<1>1. StepRows(p) /\ StepTaps(p) /\ Walk(p, p) BY <1>0, TapsStep DEF Effects
<1>2. x.pc \in {"create_tap", "create_tap_unbridged", "bridge"} => x.pc \notin StopPCs \cup NoCopy
  BY DEF StopPCs, Tail, NoCopy, NoSandbox, FanoutPCs
<1>3. Edge(x.pc, y.pc) BY <1>1 DEF Walk
<1>4. ASSUME NEW d \in taps' PROVE \E r \in sandboxes' : r.id = d.owner /\ r.tap = d.tap
  <2>1. PICK s \in sandboxes : s.id = d.owner /\ s.tap = d.tap /\ ~(x.pc = "delete_row" /\ s.id = x.id)
    <3>1. CASE d \in taps
      <4>1. PICK s \in sandboxes : s.id = d.owner /\ s.tap = d.tap BY <3>1 DEF TapsRight
      <4>2. ASSUME x.pc = "delete_row", s.id = x.id PROVE FALSE
        <5>1. s.tap = x.sb.tap BY <4>2 DEF TapsRight, NoCopy, NoSandbox, FanoutPCs
        <5> QED BY <3>1, <4>1, <4>2, <5>1 DEF TapsRight
      <4> QED BY <4>1, <4>2
    <3>2. CASE x.pc \in {"create_tap", "create_tap_unbridged"} /\ d.tap = x.sb.tap /\ d.owner = x.id
      BY <1>0, <1>2, <3>2, OwnTap
    <3>3. CASE x.pc = "bridge" /\ \E e \in taps : e.tap = d.tap /\ e.owner = d.owner BY <3>3 DEF TapsRight
    <3> QED BY <1>1, <3>1, <3>2, <3>3 DEF StepTaps
  <2> QED BY <1>1, <2>1 DEF StepRows, SameSandbox
<1>5. ASSUME NEW q \in Goroutines, proc'[q].pc \in {"remove_rootfs", "delete_row"}, NEW d \in taps'
      PROVE  d.tap # proc'[q].sb.tap
  <2>1. CASE q = p
    <3>1. y.sb = x.sb BY <1>1, <1>3, <1>5, <2>1 DEF Walk, NoCopy, NoSandbox, FanoutPCs, Reads, Edge
    <3>2. CASE x.pc = "delete_tap" BY <1>1, <2>1, <3>1, <3>2 DEF StepTaps
    <3>3. CASE x.pc = "remove_rootfs" BY <1>1, <2>1, <3>1, <3>3 DEF StepTaps, TapsRight
    <3> QED BY <1>3, <1>5, <2>1, <3>2, <3>3 DEF Edge
  <2>2. CASE q # p
    <3>1. proc'[q] = proc[q]
      <4>1. StepProc(p) BY <1>0, HandlerWalks
      <4> QED BY <1>5, <2>2, <4>1, IdleFacts DEF StepProc, CloneGoes
    <3>2. proc[q].pc \notin NoCopy BY <1>5, <3>1 DEF NoCopy, NoSandbox, FanoutPCs
    <3>3. CASE d \in taps BY <1>5, <3>1, <3>3 DEF TapsRight
    <3>4. CASE x.pc \in {"create_tap", "create_tap_unbridged", "bridge"} /\ d.tap = x.sb.tap
      BY <1>0, <1>2, <2>2, <3>1, <3>2, <3>4, TapApart
    <3> QED BY <1>1, <3>3, <3>4 DEF StepTaps
  <2> QED BY <2>1, <2>2
<1>6. ASSUME NEW q \in Goroutines, proc'[q].pc \notin NoCopy, NEW r \in sandboxes', r.id = proc'[q].id
      PROVE  r.tap = proc'[q].sb.tap
  <2>0. Walk(p, q) BY <1>0 DEF Effects
  <2>1. CASE proc'[q].sb \in sandboxes' /\ proc'[q].sb.id = proc'[q].id
    BY <1>0, <1>6, <2>1, RowsApartNext DEF RowsDiffer
  <2>2. CASE proc'[q].sb = proc[q].sb /\ proc[q].pc \notin NoCopy
    <3>1. proc'[q].id = proc[q].id /\ proc[q].id # 0
      BY <1>0, <1>6, <2>0, <2>2, IdsTyped DEF Walk, NoCopy, NoSandbox
    <3>2. CASE \E s \in sandboxes : SameSandbox(r, s) BY <1>6, <2>2, <3>1, <3>2 DEF TapsRight, SameSandbox
    <3>3. CASE x.pc \in Inserts /\ r.id = x.id
      <4>1. x.pc \in NoCopy /\ x.pc \notin StopPCs \cup NoSandbox
        BY <3>3 DEF Inserts, NoCopy, NoSandbox, StopPCs, Tail, FanoutPCs
      <4> QED BY <1>0, <1>6, <2>2, <3>1, <3>3, <4>1, HasItsOwn
    <3> QED BY <1>1, <3>2, <3>3 DEF StepRows
  <2> QED BY <1>6, <2>0, <2>1, <2>2 DEF Walk
<1> QED BY <1>4, <1>5, <1>6 DEF TapsRight

\* A VM that starts has its own device and the address that goes with it.
LEMMA LaunchedRight ==
    ASSUME NEW p \in Goroutines, Works(p), TapsRight, NEW w \in vms', VmNew(proc[p], proc'[p], w)
    PROVE  /\ w.id = proc[p].id /\ w.dev = w.id /\ w.tap = proc[p].sb.tap
           /\ w.mmds = (IF proc[p].pc = "start_clone" THEN Addr(w) ELSE 0)
           /\ proc[p].pc = "start_vm" => w.ip = Addr(w)
<1> DEFINE x == proc[p]
<1>0. SnapInv /\ DiskInv /\ SnapLocal(x) BY DEF Works, SnapInv, FramesOK
<1>1. x.pc \in {"start_vm", "start_clone"} /\ w.id = x.sb.id /\ w.tap = x.sb.tap BY DEF VmNew
<1>2. x.pc \notin StopPCs \cup NoCopy BY <1>1 DEF StopPCs, Tail, NoCopy, NoSandbox, FanoutPCs
<1>3. x.sb.id = x.id /\ \A r \in sandboxes : r.tap = x.sb.tap => r.id = x.id BY <1>0, <1>2, OwnTap
<1>4. PICK d \in taps : d.tap = x.sb.tap /\ w.dev = d.owner BY DEF VmNew, Bootable
<1>5. w.dev = x.id BY <1>3, <1>4 DEF TapsRight
<1>6. x.sb.ip = Addr(w) BY <1>0, <1>1, <1>2 DEF SnapLocal, TogetherAddr, Addr
<1>7. ASSUME x.pc = "start_vm", x.snap # NoRow PROVE x.snap.ip = Addr(w)
  <2>1. Restoring(p) BY <1>0, <1>7 DEF Restoring, RestorePCs, DiskInv, Roles, CreatePCs
  <2>2. x.sb.rootfs = x.snap.rootfs BY <1>0, <1>7, <2>1 DEF DiskInv, PathsApart
  <2>3. x.snap.rootfs \in Ids /\ x.snap.tap \in Taps BY <1>0, <1>7, IdsTyped
  <2>4. Knows(x.snap.rootfs, x.snap.tap) BY <1>7 DEF Knows
  <2>5. PICK r \in sandboxes : SameSandbox(r, x.sb)
    <3>1. main # "stop_all" BY <1>0, <1>2, HasItsOwn DEF NoCopy
    <3> QED BY <1>0, <1>2, <3>1 DEF DiskInv, CopyRight
  <2>6. Knows(x.snap.rootfs, x.sb.tap) /\ x.sb.tap \in Taps BY <1>0, <2>2, <2>5, IdsTyped DEF Knows, SameSandbox
  <2>7. x.snap.tap = x.sb.tap BY <1>0, <2>3, <2>4, <2>6 DEF SnapInv, PathsOK
  <2>8. TogetherAddr(x.snap) BY <1>0, <1>7 DEF SnapLocal
  <2> QED BY <1>1, <2>7, <2>8 DEF TogetherAddr, Addr
<1>8. w.mmds = IF x.pc = "start_clone" THEN x.sb.ip ELSE 0 BY DEF VmNew
<1>9. w.ip = IF x.snap = NoRow THEN x.sb.ip ELSE x.snap.ip BY DEF VmNew
<1> QED BY <1>1, <1>3, <1>5, <1>6, <1>7, <1>8, <1>9

\* Guests on the bridge have thawed after a handler's step.
LEMMA WorkGuests ==
    ASSUME NEW p \in Goroutines, Works(p), BridgeInv, "late_thaw" \notin Faults, 0 \notin IPs
    PROVE  GuestsRight'
<1> DEFINE x == proc[p]
           y == proc'[p]
<1>0. Effects(p) /\ SnapInv /\ SnapInv' /\ DiskInv /\ Handles(p) /\ TapsRight /\ GuestsRight
  BY WorkEffects DEF Works, BridgeInv
<1>1. StepVms(p) /\ StepTaps(p) /\ StepSettles(p) /\ Walk(p, p) BY <1>0, TapsStep, SettlesStep DEF Effects
<1>2. x.pc \in {"create_tap", "create_tap_unbridged", "bridge", "start_vm", "start_clone"} =>
          x.pc \notin StopPCs \cup NoCopy
  BY DEF StopPCs, Tail, NoCopy, NoSandbox, FanoutPCs
<1>3. Edge(x.pc, y.pc) BY <1>1 DEF Walk
<1>4. ASSUME NEW w \in vms' PROVE w.dev = w.id /\ w.mmds \in {0, Addr(w)} /\ (w.mmds = 0 => w.ip = Addr(w))
  <2>1. ASSUME NEW v \in vms, VmKept(x, y, v, w)
        PROVE  w.dev = w.id /\ w.mmds \in {0, Addr(w)} /\ (w.mmds = 0 => w.ip = Addr(w))
    BY <1>0, <2>1 DEF VmKept, GuestsRight, Addr
  <2>2. CASE VmNew(x, y, w)
    <3>1. x.pc \in {"start_vm", "start_clone"} BY <2>2 DEF VmNew
    <3>2. Addr(w) # 0
      <4>1. w.tap = x.sb.tap BY <2>2 DEF VmNew
      <4>2. x.sb.ip = Addr(w) /\ x.sb \in Sandbox
        BY <1>0, <1>2, <3>1, <4>1 DEF SnapInv, FramesOK, SnapLocal, TogetherAddr, Addr
      <4> QED BY <4>2 DEF Sandbox
    <3> QED BY <1>0, <2>2, <3>1, <3>2, LaunchedRight
  <2> QED BY <1>1, <2>1, <2>2 DEF StepVms
<1>5. ASSUME NEW w \in vms', Thawing(w), NEW g \in taps', g.tap = w.tap, g.owner = w.dev, g.bridged PROVE FALSE
  <2>0. g \in [tap : Taps, owner : Ids, bridged : BOOLEAN] BY <1>0 DEF SnapInv, HostTyped, TapsOK
  <2>1. ASSUME NEW v \in vms, VmKept(x, y, v, w) PROVE FALSE
    <3>1. Thawing(v) /\ v.dev = w.dev /\ v.tap = w.tap BY <1>5, <2>1 DEF VmKept, Thawing
    <3>2. ~OnBridge(v) /\ v.dev = v.id BY <1>0, <3>1 DEF GuestsRight
    <3>3. CASE g \in taps
      <4>1. g = [tap |-> v.tap, owner |-> v.dev, bridged |-> TRUE] BY <1>5, <2>0, <3>1
      <4> QED BY <3>2, <3>3, <4>1 DEF OnBridge
    <3>4. CASE x.pc \in {"create_tap", "create_tap_unbridged"} /\ g.owner = x.id
      <4>1. v.id = x.id BY <1>5, <3>1, <3>2, <3>4
      <4> QED BY <1>0, <3>4, <4>1 DEF DiskInv, VmsRight, Unlaunched
    <3>5. CASE x.pc = "bridge" /\ g.tap = x.sb.tap /\ \E e \in taps : e.tap = g.tap /\ e.owner = g.owner
      <4>1. PICK r \in sandboxes : r.id = g.owner /\ r.tap = g.tap BY <1>0, <3>5 DEF TapsRight
      <4>2. r.id = x.id BY <1>0, <1>2, <3>5, <4>1, OwnTap
      <4> QED BY <1>0, <1>5, <3>1, <3>2, <3>5, <4>1, <4>2 DEF GuestsRight
    <3> QED BY <1>1, <3>3, <3>4, <3>5 DEF StepTaps
  <2>2. CASE VmNew(x, y, w)
    <3>1. x.pc \in {"start_vm", "start_clone"} BY <2>2 DEF VmNew
    <3>2. x.pc = "start_clone" BY <1>0, <1>5, <2>2, <3>1, LaunchedRight DEF Thawing
    <3>3. g \in taps BY <1>1, <3>2 DEF StepTaps
    <3>4. g.tap = x.sb.tap BY <1>5, <2>2 DEF VmNew
    <3> QED BY <1>0, <1>5, <3>2, <3>3, <3>4 DEF GuestsRight
  <2> QED BY <1>1, <2>1, <2>2 DEF StepVms
<1>6. \A w \in vms' : Thawing(w) => ~([tap |-> w.tap, owner |-> w.dev, bridged |-> TRUE] \in taps')
  <2> SUFFICES ASSUME NEW w \in vms', Thawing(w), NEW g \in taps', g = [tap |-> w.tap, owner |-> w.dev, bridged |-> TRUE]
               PROVE  FALSE
    OBVIOUS
  <2>1. g.tap = w.tap /\ g.owner = w.dev /\ g.bridged OBVIOUS
  <2> QED BY <1>5, <2>1
<1>7. ASSUME NEW q \in Goroutines, proc'[q].pc = "start_clone", NEW d \in taps', d.tap = proc'[q].sb.tap PROVE ~d.bridged
  <2>1. CASE q = p
    <3>1. x.pc = "create_tap_unbridged" /\ y.pc = "start_clone" BY <1>3, <1>7, <2>1 DEF Edge
    <3>2. y.sb = x.sb BY <1>1, <3>1 DEF Walk, NoCopy, NoSandbox, FanoutPCs, Reads
    <3> QED BY <1>1, <1>7, <2>1, <3>1, <3>2 DEF StepTaps
  <2>2. CASE q # p
    <3>1. proc'[q] = proc[q]
      <4>1. StepProc(p) BY <1>0, HandlerWalks
      <4> QED BY <1>7, <2>2, <4>1, IdleFacts DEF StepProc, CloneGoes
    <3>2. proc[q].pc \notin NoCopy BY <1>7, <3>1 DEF NoCopy, NoSandbox, FanoutPCs
    <3>3. CASE d \in taps BY <1>0, <1>7, <3>1, <3>3 DEF GuestsRight
    <3>4. CASE x.pc \in {"create_tap", "create_tap_unbridged", "bridge"} /\ d.tap = x.sb.tap
      BY <1>0, <1>2, <1>7, <2>2, <3>1, <3>2, <3>4, TapApart
    <3> QED BY <1>1, <3>3, <3>4 DEF StepTaps
  <2> QED BY <2>1, <2>2
<1>8. ASSUME NEW q \in Goroutines, proc'[q].pc = "bridge", NEW w \in vms', w.id = proc'[q].id PROVE ~Thawing(w)
  <2>1. q # p BY <1>3, <1>8 DEF Edge
  <2>2. CASE proc[q].pc = "loaded"
    <3>1. proc'[q].id = proc[q].id
      <4>1. Walk(p, q) BY <1>0 DEF Effects
      <4> QED BY <1>8, <4>1 DEF Walk
    <3> QED BY <1>1, <1>8, <2>2, <3>1 DEF StepSettles
  <2>3. CASE proc'[q] = proc[q]
    <3>1. ASSUME NEW v \in vms, VmKept(x, y, v, w) PROVE ~Thawing(w)
      <4>1. ~Thawing(v) BY <1>0, <1>8, <2>3, <3>1 DEF GuestsRight, VmKept
      <4> QED BY <3>1, <4>1 DEF VmKept, Thawing
    <3>2. CASE VmNew(x, y, w)
      <4>1. x.pc \in {"start_vm", "start_clone"} /\ w.id = x.id BY <1>0, <3>2, LaunchedRight DEF VmNew
      <4> QED BY <1>0, <1>2, <1>8, <2>1, <2>3, <4>1, HasItsOwn DEF NoCopy
    <3> QED BY <1>1, <3>1, <3>2 DEF StepVms
  <2>4. proc[q].pc = "loaded" \/ proc'[q] = proc[q]
    <3>1. StepProc(p) BY <1>0, HandlerWalks
    <3> QED BY <1>8, <2>1, <3>1, IdleFacts DEF StepProc, CloneGoes
  <2> QED BY <2>2, <2>3, <2>4
<1> QED BY <1>4, <1>6, <1>7, <1>8 DEF GuestsRight, OnBridge, Addr, Thawing

\* Outside of the handlers devices only go, and guests only thaw.
OutsideGuests ==
    /\ taps' \subseteq taps
    /\ \A w \in vms' : \E v \in vms :
          /\ w.id = v.id /\ w.tap = v.tap /\ w.dev = v.dev /\ w.mmds = v.mmds
          /\ w.ip = v.ip \/ (v.mmds # 0 /\ w.ip \in {0, v.mmds})

\* So it is.
LEMMA OtherGuests ==
    ASSUME SnapInv, DiskInv, [SnapNext]_allVars, ~\E p \in Goroutines : Handles(p) PROVE OutsideGuests
<1>a. \A v \in vms : v \in VM BY DEF SnapInv, HostTyped, VmsTyped
<1>1. CASE taps' \subseteq taps /\ vms' \subseteq vms BY <1>1 DEF OutsideGuests
<1>2. CASE Arrival
  BY <1>1, <1>2 DEF Arrival, PrepareRootfs, DestroyArrives, ExposeArrives, hostVars
<1>3. ASSUME NEW p \in Requests, NEW id \in Ids, NEW sid \in SnapIds, SnapshotArrives(p, id, sid) PROVE OutsideGuests
  <2>1. UNCHANGED <<taps, vms>> BY <1>3 DEF SnapshotArrives, hostVars
  <2> QED BY <1>1, <2>1
<1>4. ASSUME NEW p \in Requests, NEW s \in snapshots,
             \/ DeleteSnapshotRow(p, s)
             \/ \E timeout \in Timeouts : RestoreArrives(p, s, timeout)
             \/ \E n \in Counts, timeout \in Timeouts : FanoutArrives(p, s, n, timeout)
      PROVE  OutsideGuests
  <2>1. CASE DeleteSnapshotRow(p, s) BY <1>1, <2>1 DEF DeleteSnapshotRow, hostVars
  <2>2. ASSUME NEW timeout \in Timeouts, RestoreArrives(p, s, timeout) PROVE UNCHANGED <<taps, vms>>
    BY <2>2 DEF RestoreArrives, hostVars
  <2>3. ASSUME NEW n \in Counts, NEW timeout \in Timeouts, FanoutArrives(p, s, n, timeout) PROVE UNCHANGED <<taps, vms>>
    BY <2>3 DEF FanoutArrives, hostVars
  <2> QED BY <1>1, <1>4, <2>1, <2>2, <2>3
<1>5. CASE SnapArrival BY <1>3, <1>4, <1>5 DEF SnapArrival
<1>6. CASE Serve
  BY <1>1, <1>6 DEF Serve, Restart, ReconcileNext, Listen, ShutdownAll, Exit, hostVars
<1>7. CASE Environment
  BY <1>1, <1>7 DEF Environment, Disconnect, VMExit, Stop, Crash, Reboot, Tick, hostVars
<1>8. CASE ReaperTick \/ ReapNext BY <1>8, ReaperIdle
<1>9. ASSUME NEW id \in Ids, NEW timeout \in Timeouts, SetTimeout(id, timeout) PROVE OutsideGuests
  BY <1>1, <1>9 DEF SetTimeout, hostVars
<1>10. CASE UNCHANGED allVars BY <1>1, <1>10 DEF allVars, vars, hostVars
<1>11. ASSUME NEW v \in vms, NEW w, vms' = Updated(v, w), UNCHANGED taps, w.id = v.id, w.tap = v.tap, w.dev = v.dev,
              w.mmds = v.mmds, w.ip = v.ip \/ (v.mmds # 0 /\ w.ip \in {0, v.mmds})
       PROVE  OutsideGuests
  BY <1>11 DEF OutsideGuests, Updated
<1>12. ASSUME NEW v \in vms, Thaw(v) PROVE OutsideGuests
  <2>1. PICK ip \in {0, v.mmds} : vms' = Updated(v, [v EXCEPT !.ip = ip]) BY <1>12 DEF Thaw
  <2>2. PICK w : w = [v EXCEPT !.ip = ip] OBVIOUS
  <2>3. w.id = v.id /\ w.tap = v.tap /\ w.dev = v.dev /\ w.mmds = v.mmds /\ w.ip = ip BY <1>a, <2>2 DEF VM
  <2>4. v.mmds # 0 /\ UNCHANGED taps BY <1>12 DEF Thaw, Thawing
  <2> QED BY <1>11, <2>1, <2>2, <2>3, <2>4
<1>13. ASSUME NEW v \in vms, GuestWrites(v) PROVE OutsideGuests
  <2>1. PICK w : w = [v EXCEPT !.ver = @ + 1] OBVIOUS
  <2>2. w.id = v.id /\ w.tap = v.tap /\ w.dev = v.dev /\ w.mmds = v.mmds /\ w.ip = v.ip BY <1>a, <2>1 DEF VM
  <2>3. vms' = Updated(v, w) /\ UNCHANGED taps BY <1>13, <2>1 DEF GuestWrites
  <2> QED BY <1>11, <2>2, <2>3
<1> QED BY <1>2, <1>5, <1>6, <1>7, <1>8, <1>9, <1>10, <1>12, <1>13 DEF SnapNext, Next, GuestStep, Handles

\* They keep devices with their rows.
LEMMA OutsideTaps == ASSUME Outside, OutsideGuests, TapsRight PROVE TapsRight'
<1>0. SnapInv /\ OutsideProc /\ OutsideHost BY DEF Outside
<1>1. ASSUME NEW q \in Goroutines, proc'[q].pc \in {"remove_rootfs", "delete_row"}
      PROVE  proc'[q].sb = proc[q].sb /\ proc'[q].id = proc[q].id /\ proc'[q].pc = proc[q].pc
  BY <1>0, <1>1, WentOn DEF EnterPCs, Alike, Same, Keeps
<1>2. ASSUME NEW d \in taps' PROVE \E r \in sandboxes' : r.id = d.owner /\ r.tap = d.tap
  <2>1. PICK s \in sandboxes : s.id = d.owner /\ s.tap = d.tap BY <1>0 DEF TapsRight, OutsideGuests
  <2> QED BY <1>0, <2>1 DEF OutsideHost, SameSandbox
<1>3. ASSUME NEW q \in Goroutines, proc'[q].pc \in {"remove_rootfs", "delete_row"}, NEW d \in taps'
      PROVE  d.tap # proc'[q].sb.tap
  <2>1. d \in taps BY DEF OutsideGuests
  <2> QED BY <1>0, <1>1, <1>3, <2>1 DEF TapsRight
<1>4. ASSUME NEW q \in Goroutines, proc'[q].pc \notin NoCopy, NEW r \in sandboxes', r.id = proc'[q].id
      PROVE  r.tap = proc'[q].sb.tap
  <2>1. PICK s \in sandboxes : SameSandbox(r, s) BY <1>0 DEF OutsideHost
  <2>2. CASE Alike(proc[q], proc'[q])
    <3>1. proc'[q].sb = proc[q].sb /\ proc'[q].id = proc[q].id /\ proc[q].pc \notin NoCopy
      BY <1>4, <2>2 DEF Alike, Same, Keeps
    <3>2. s.id = proc[q].id /\ s.tap = r.tap BY <1>4, <2>1, <3>1 DEF SameSandbox
    <3>3. s.tap = proc[q].sb.tap BY <1>0, <3>1, <3>2 DEF TapsRight
    <3> QED BY <3>1, <3>2, <3>3
  <2>3. CASE Enter(q, proc'[q])
    <3>1. proc'[q].pc \in {"read_ports", "add_port", "pause"}
      BY <1>4, <2>3, EnterAt DEF EnterPCs, NoCopy, NoSandbox, FanoutPCs
    <3>2. proc'[q].sb \in sandboxes /\ proc'[q].sb.id = proc'[q].id BY <2>3, <3>1 DEF Enter
    <3> QED BY <1>0, <1>4, <2>1, <3>2, RowsApart DEF RowsDiffer, SameSandbox
  <2>4. proc'[q] # Idle BY <1>4, IdleFacts DEF NoCopy, NoSandbox
  <2> QED BY <1>0, <2>2, <2>3, <2>4 DEF OutsideProc
<1> QED BY <1>2, <1>3, <1>4 DEF TapsRight

\* They keep devices and guests right.
LEMMA OutsideBridge == ASSUME Outside, OutsideGuests, BridgeInv PROVE BridgeInv'
<1>0. SnapInv /\ OutsideProc /\ OutsideHost /\ TapsRight /\ GuestsRight BY DEF Outside, BridgeInv
<1>1. ASSUME NEW q \in Goroutines, proc'[q].pc \in {"start_clone", "bridge"}
      PROVE  proc'[q].sb = proc[q].sb /\ proc'[q].id = proc[q].id /\ proc'[q].pc = proc[q].pc
  BY <1>0, <1>1, WentOn DEF EnterPCs, Alike, Same, Keeps
<1>5. TapsRight' BY <1>0, OutsideTaps
<1>6. ASSUME NEW w \in vms'
      PROVE  /\ w.dev = w.id /\ w.mmds \in {0, Addr(w)} /\ (w.mmds = 0 => w.ip = Addr(w))
             /\ Thawing(w) => ~([tap |-> w.tap, owner |-> w.dev, bridged |-> TRUE] \in taps')
             /\ \E v \in vms : w.id = v.id /\ (Thawing(w) => Thawing(v))
  <2>1. PICK v \in vms : /\ w.id = v.id /\ w.tap = v.tap /\ w.dev = v.dev /\ w.mmds = v.mmds
                         /\ w.ip = v.ip \/ (v.mmds # 0 /\ w.ip \in {0, v.mmds})
    BY DEF OutsideGuests
  <2>2. v.dev = v.id /\ v.mmds \in {0, Addr(v)} /\ (v.mmds = 0 => v.ip = Addr(v)) BY <1>0 DEF GuestsRight
  <2>3. Addr(w) = Addr(v) BY <2>1 DEF Addr
  <2>4. Thawing(w) => Thawing(v) BY <2>1 DEF Thawing
  <2>5. Thawing(v) => ~([tap |-> w.tap, owner |-> w.dev, bridged |-> TRUE] \in taps)
    BY <1>0, <2>1 DEF GuestsRight, OnBridge
  <2> QED BY <2>1, <2>2, <2>3, <2>4, <2>5 DEF OutsideGuests
<1>7. ASSUME NEW q \in Goroutines, proc'[q].pc = "start_clone", NEW d \in taps', d.tap = proc'[q].sb.tap PROVE ~d.bridged
  <2>1. d \in taps BY DEF OutsideGuests
  <2> QED BY <1>0, <1>1, <1>7, <2>1 DEF GuestsRight
<1>8. ASSUME NEW q \in Goroutines, proc'[q].pc = "bridge", NEW w \in vms', w.id = proc'[q].id PROVE ~Thawing(w)
  BY <1>0, <1>1, <1>6, <1>8 DEF GuestsRight
<1>9. GuestsRight' BY <1>6, <1>7, <1>8 DEF GuestsRight, OnBridge, Addr, Thawing
<1> QED BY <1>5, <1>9 DEF BridgeInv

\* Devices are right always, whenever guests thaw.
LEMMA TapsInvariant == Careful => (SnapSpec => []TapsRight)
<1> SUFFICES ASSUME Careful PROVE SnapSpec => []TapsRight OBVIOUS
<1>1. SnapInit => TapsRight
  <2> SUFFICES ASSUME SnapInit PROVE TapsRight OBVIOUS
  <2>1. taps = {} /\ sandboxes = {} BY DEF SnapInit, Init, RegInit
  <2> QED BY <2>1 DEF TapsRight
<1>2. SnapInv /\ SnapInv' /\ DiskInv /\ TapsRight /\ [SnapNext]_allVars => TapsRight'
  <2> SUFFICES ASSUME SnapInv, SnapInv', DiskInv, TapsRight, [SnapNext]_allVars PROVE TapsRight' OBVIOUS
  <2>1. ASSUME NEW p \in Goroutines, Handles(p) PROVE TapsRight' BY <2>1, WorkTaps DEF Works
  <2>2. CASE ~\E p \in Goroutines : Handles(p) BY <2>2, OtherOutside, OtherGuests, OutsideTaps
  <2> QED BY <2>1, <2>2
<1> QED BY <1>1, <1>2, SnapshotsInvariant, DiskInvariant, PTL DEF SnapSpec

\* With guests that thaw in time so are they.
LEMMA BridgeInvariant ==
    Careful /\ "late_thaw" \notin Faults /\ 0 \notin IPs => (SnapSpec => []BridgeInv)
<1> SUFFICES ASSUME Careful, "late_thaw" \notin Faults, 0 \notin IPs PROVE SnapSpec => []BridgeInv OBVIOUS
<1>1. SnapInit => BridgeInv
  <2> SUFFICES ASSUME SnapInit PROVE BridgeInv OBVIOUS
  <2>1. taps = {} /\ vms = {} /\ sandboxes = {} BY DEF SnapInit, Init, RegInit
  <2> QED BY <2>1 DEF BridgeInv, TapsRight, GuestsRight
<1>2. SnapInv /\ SnapInv' /\ DiskInv /\ BridgeInv /\ [SnapNext]_allVars => BridgeInv'
  <2> SUFFICES ASSUME SnapInv, SnapInv', DiskInv, BridgeInv, [SnapNext]_allVars PROVE BridgeInv' OBVIOUS
  <2>1. ASSUME NEW p \in Goroutines, Handles(p) PROVE BridgeInv'
    <3>1. Works(p) BY <2>1 DEF Works
    <3> QED BY <3>1, WorkTaps, WorkGuests DEF BridgeInv
  <2>2. CASE ~\E p \in Goroutines : Handles(p) BY <2>2, OtherOutside, OtherGuests, OutsideBridge
  <2> QED BY <2>1, <2>2
<1> QED BY <1>1, <1>2, SnapshotsInvariant, DiskInvariant, PTL DEF SnapSpec

\* A VM on the bridge has a row, and the address of its row or none.
LEMMA BridgedRow ==
    ASSUME SnapInv, BridgeInv, NEW v \in vms, OnBridge(v)
    PROVE  /\ v.dev = v.id /\ v.ip \in {0, Addr(v)}
           /\ \E r \in sandboxes : r.id = v.id /\ r.tap = v.tap /\ r.ip = Addr(v)
<1>0. TapsRight /\ GuestsRight BY DEF BridgeInv
<1>1. PICK d \in taps : d = [tap |-> v.tap, owner |-> v.dev, bridged |-> TRUE] BY DEF OnBridge
<1>2. d.tap = v.tap /\ d.owner = v.dev BY <1>1
<1>3. PICK r \in sandboxes : r.id = v.id /\ r.tap = v.tap BY <1>0, <1>2 DEF TapsRight, GuestsRight
<1>4. r.ip = Addr(v) BY <1>3 DEF SnapInv, RegInv, Paired, TogetherAddr, Addr
<1>5. ~Thawing(v) /\ v.mmds \in {0, Addr(v)} /\ (v.mmds = 0 => v.ip = Addr(v)) BY <1>0 DEF GuestsRight
<1> QED BY <1>0, <1>3, <1>4, <1>5 DEF Thawing, GuestsRight

\* On the bridge a guest uses no address but the one that its row holds: the
\* source's address, with which every clone comes up, "never collides on the
\* shared bridge" (snapshot.go:241-242), whatever fails or crashes, provided that
\* clients leave a sandbox that another call is at work on alone and that guests
\* thaw within the time that the fan-out waits for them, which it does not check.
THEOREM SnapshotsBridgedAddressOwned ==
    ASSUME Careful, "late_thaw" \notin Faults, 0 \notin IPs PROVE SnapSpec => []BridgedAddressOwned
<1>1. SnapInv /\ BridgeInv => BridgedAddressOwned
  <2> SUFFICES ASSUME SnapInv, BridgeInv, NEW v \in vms, OnBridge(v), v.ip # 0
               PROVE  \E r \in Get(v.id) : r.ip = v.ip
    BY DEF BridgedAddressOwned
  <2>1. v.ip = Addr(v) /\ \E r \in sandboxes : r.id = v.id /\ r.ip = Addr(v) BY BridgedRow
  <2> QED BY <2>1 DEF Get
<1> QED BY <1>1, SnapshotsInvariant, BridgeInvariant, PTL

-----------------------------------------------------------------------------
(* Which rules are in the kernel *)

\* A sandbox before its forward and its mappings; a destroy that knows the mappings;
\* one that has taken the rules away.
Undressed == {"copy_rootfs", "create_tap", "start_vm", "forward", "clone_rootfs", "create_tap_unbridged",
              "start_clone", "loaded", "bridge", "forward_clone"}
Listed == {"take_machine", "wait_vm", "remove_forwards"}
Cleared == {"delete_tap", "remove_rootfs", "delete_row"}
NoRules(id) == \A f \in BagToSet(rules), r \in sandboxes : r.id = id => f.ip # r.ip
Primary(sb) == Forward(sb.port, sb.ip, PrimaryPort)

\* What a goroutine knows of the rules of its sandbox.  A destroy whose client has
\* hung up does not know all of them, nor will it delete the row.
RulesAt(p) ==
    LET x == proc[p] IN
    /\ x.pc \notin NoCopy => \A r \in sandboxes : r.id = x.id => r.ip = x.sb.ip /\ r.port = x.sb.port
    /\ x.pc \in Tail => x.ctx # "parent"
    /\ x.pc \in Undressed \cup {"finish_start"} => \A m \in sandbox_ports : m.id # x.id
    /\ x.pc \in Undressed \cup {"stop_force"} \/ (x.pc \in Cleared /\ x.ctx # "cancelled") => NoRules(x.id)
    /\ x.pc \in Listed /\ x.ctx # "cancelled" => \A m \in sandbox_ports : m.id = x.id => m \in x.extra
    /\ x.pc = "add_port" => \A m \in sandbox_ports : m.id = x.id => m.guest # x.guest
    /\ x.pc \in {"add_forward", "delete_port"} =>
          /\ \E m \in sandbox_ports : m.id = x.id /\ m.guest = x.guest /\ m.host = x.host
          /\ \A f \in BagToSet(rules) : f.host # x.host
Recorded == \A f \in BagToSet(rules) : \E r \in sandboxes : f \in RowRules(r)
RulesInv == IsABag(rules) /\ NoDuplicateRule /\ Recorded /\ \A p \in Goroutines : RulesAt(p)

\* What a handler does to the tables: a row it inserts has an address that was
\* free, a mapping a host port that was; it deletes its own.
StepTables(p) ==
    LET x == proc[p] IN
    /\ \A r \in sandboxes' :
          \/ \E s \in sandboxes : SameHolding(r, s)
          \/ x.pc \in Inserts /\ r.id = x.id /\ (\A s \in sandboxes : s.id # x.id /\ s.ip # r.ip)
    /\ \A s \in sandboxes :
          \/ \E r \in sandboxes' : SameHolding(r, s)
          \/ x.pc = "delete_row" /\ ~Cancelled(p) /\ s.id = x.id
    /\ \A m \in sandbox_ports' :
          \/ m \in sandbox_ports
          \/ x.pc = "add_port" /\ m.id = x.id
    /\ \A m \in sandbox_ports :
          \/ m \in sandbox_ports'
          \/ x.pc = "delete_row" /\ ~Cancelled(p) /\ m.id = x.id
          \/ x.pc = "delete_port" /\ m.id = x.id /\ m.guest = x.guest
    /\ x.pc = "add_port" /\ (\A m \in sandbox_ports : m.id = x.id => m.guest # x.guest) =>
          \/ proc'[p].pc = "idle"
          \/ \E m \in sandbox_ports' : /\ m.id = x.id /\ m.guest = proc'[p].guest /\ m.host = proc'[p].host
                                       /\ m.host \notin UsedPorts

\* To its local variables: the tail of destroy keeps its context, and the ways into
\* it give it a background one.
StepLocals(p) ==
    LET x == proc[p]
        y == proc'[p] IN
    /\ y.pc \in Tail => y.ctx = IF x.pc \in Tail THEN x.ctx ELSE "background"
    /\ x.pc = "read_ports" /\ ~Cancelled(p) => y.extra = Ports(x.id)
    /\ x.pc \in {"take_machine", "wait_vm"} => y.extra = x.extra
    /\ y.pc = "delete_port" => y.guest = x.guest /\ y.host = x.host

\* To the rules, when iptables commands fail as a whole.
Appends(p) ==
    IF proc[p].pc = "add_forward" THEN Forward(proc[p].host, proc[p].sb.ip, proc[p].guest)
    ELSE Primary(proc[p].sb)
Deletes(p) ==
    Primary(proc[p].sb) \cup
        (IF proc[p].pc = "remove_forwards"
           THEN UNION {Forward(m.host, proc[p].sb.ip, m.guest) : m \in proc[p].extra} ELSE {})
StepRules(p) ==
    LET x == proc[p]
        y == proc'[p] IN
    \/ /\ rules' = rules /\ x.pc # "remove_forwards" /\ ~(x.pc = "finish_start" /\ y.pc = "stop_force")
       /\ y.pc = "finish_start" => x.pc # "forward"
       /\ y.pc = "record_clone" => x.pc # "forward_clone"
    \/ /\ rules' = rules (+) SetToBag(Appends(p))
       /\ \/ x.pc \in {"forward", "forward_clone"} /\ y.pc \in {"finish_start", "record_clone"}
          \/ x.pc = "add_forward" /\ y.pc = "idle"
    \/ /\ rules' = rules (-) SetToBag(Deletes(p))
       /\ x.pc = "remove_forwards" \/ (x.pc = "finish_start" /\ y.pc = "stop_force")

\* Rows that are inserted.
LEMMA InsertTables ==
    ASSUME NEW p \in Goroutines, NEW row, InsertSandbox(row), row.id = proc[p].id, proc[p].pc \in Inserts,
           UNCHANGED sandbox_ports
    PROVE  StepTables(p)
<1>1. proc[p].pc # "add_port" BY DEF Inserts
<1> QED BY <1>1 DEF StepTables, InsertSandbox, SameHolding

\* Tables that do not change, or in which a row keeps its resources.
LEMMA SameTables ==
    ASSUME NEW p \in Goroutines, UNCHANGED sandbox_ports, proc[p].pc # "add_port",
           \/ UNCHANGED sandboxes
           \/ RegInv /\ \E id, pid : FinishStart(id, pid)
    PROVE  StepTables(p)
<1>1. CASE UNCHANGED sandboxes BY <1>1 DEF StepTables, SameHolding
<1>2. ASSUME RegInv, NEW id, NEW pid, FinishStart(id, pid) PROVE StepTables(p)
  <2> DEFINE new(r) == IF r.id = id THEN [r EXCEPT !.pid = pid] ELSE r
  <2>1. sandboxes' = {new(r) : r \in sandboxes} BY <1>2 DEF FinishStart
  <2>2. \A r \in sandboxes : SameHolding(new(r), r) BY <1>2 DEF RegInv, RegTypeOK, Sandbox, SameHolding
  <2> HIDE DEF new
  <2> QED BY <2>1, <2>2 DEF StepTables
<1> QED BY <1>1, <1>2

\* So every handler's step does.
LEMMA TablesStep == ASSUME SnapInv, NEW p \in Goroutines, Handles(p) PROVE StepTables(p)
<1> DEFINE x == proc[p]
<1>0. RegInv /\ FramesOK BY DEF SnapInv
<1>a. Return(p) => proc'[p].pc = "idle" BY <1>0, JumpGoes DEF Idle
<1>b. ASSUME Create(x.id, x.id, x.expires), x.pc \in Inserts PROVE StepTables(p)
  <2> DEFINE row(t, a, h) == [id |-> x.id, pid |-> NoPid, tap |-> t, ip |-> a, port |-> h,
                              rootfs |-> x.id, expires |-> x.expires]
  <2>1. PICK t \in Taps, a \in IPs, h \in HostPorts : InsertSandbox(row(t, a, h)) BY <1>b DEF Create
  <2>2. row(t, a, h).id = x.id /\ UNCHANGED sandbox_ports BY <1>b DEF Create
  <2> HIDE DEF row
  <2> QED BY <1>b, <2>1, <2>2, InsertTables
<1>1. CASE InsertRow(p)
  BY <1>0, <1>1, <1>b, SameTables DEF InsertRow, Inserts, regVars
<1>2. CASE CloneRow(p)
  BY <1>0, <1>2, <1>b, SameTables DEF CloneRow, Inserts, regVars
<1>3. CASE InsertRestore(p)
  <2> DEFINE s == proc[p].snap
  <2>1. ASSUME CreateRestore(x.id, s.rootfs, s.tap, s.ip, x.expires) PROVE StepTables(p)
    <3> DEFINE row(h) == [id |-> x.id, pid |-> NoPid, tap |-> s.tap, ip |-> s.ip, port |-> h,
                          rootfs |-> s.rootfs, expires |-> x.expires]
    <3>1. PICK h \in HostPorts : InsertSandbox(row(h)) BY <2>1 DEF CreateRestore
    <3>2. row(h).id = x.id /\ UNCHANGED sandbox_ports BY <2>1 DEF CreateRestore
    <3> HIDE DEF row
    <3>3. x.pc \in Inserts BY <1>3 DEF InsertRestore, Inserts
    <3> QED BY <3>1, <3>2, <3>3, InsertTables
  <2> QED BY <1>0, <1>3, <2>1, SameTables DEF InsertRestore, regVars
<1>4. CASE RecordStart(p)
  <2>1. x.pc # "add_port" /\ (UNCHANGED regVars \/ FinishStart(x.sb.id, x.sb.id)) BY <1>4 DEF RecordStart
  <2> QED BY <1>0, <2>1, SameTables DEF FinishStart, regVars
<1>5. CASE RecordClone(p)
  <2>1. x.pc # "add_port" /\ (UNCHANGED regVars \/ FinishStart(x.id, x.id)) BY <1>5 DEF RecordClone
  <2> QED BY <1>0, <2>1, SameTables DEF FinishStart, regVars
<1>6. CASE DeleteRow(p)
  <2>1. CASE Destroy(x.id) /\ ~Cancelled(p) BY <1>6, <2>1 DEF StepTables, SameHolding, DeleteRow, Destroy, Get, Ports
  <2>2. x.pc # "add_port" BY <1>6 DEF DeleteRow
  <2> QED BY <1>6, <2>1, <2>2, SameTables DEF DeleteRow, regVars
<1>7. CASE UndoPort(p)
  <2>1. CASE DeletePort(x.id, x.guest) BY <1>7, <2>1 DEF StepTables, SameHolding, UndoPort, DeletePort
  <2>2. x.pc # "add_port" BY <1>7 DEF UndoPort
  <2> QED BY <1>7, <2>1, <2>2, SameTables DEF UndoPort, regVars
<1>8. CASE AllocatePort(p)
  <2> DEFINE mapping(table) == CHOOSE m \in table : m.id = x.id /\ m.guest = x.guest
  <2>1. x.pc = "add_port" BY <1>8 DEF AllocatePort
  <2>2. CASE AddPort(x.id, x.guest) /\
             proc' = [proc EXCEPT ![p].pc = "add_forward", ![p].host = mapping(sandbox_ports').host]
    <3>1. proc'[p].guest = x.guest /\ proc'[p].host = mapping(sandbox_ports').host
      BY <1>0, <2>2 DEF FramesOK, SnapFrame
    <3>2. PICK row : /\ row.id = x.id /\ row.guest = x.guest /\ sandbox_ports' = sandbox_ports \cup {row}
                     /\ row.host \notin UsedPorts /\ sandboxes' = sandboxes
                     /\ \A m \in sandbox_ports : ~(m.id = x.id /\ m.guest = x.guest)
      BY <2>2, AddPortFacts
    <3>3. mapping(sandbox_ports') = row BY <3>2
    <3> HIDE DEF mapping
    <3> QED BY <2>1, <3>1, <3>2, <3>3 DEF StepTables, SameHolding
  <2>3. CASE UNCHANGED regVars /\ (Return(p) \/ \E m \in Ports(x.id) : m.guest = x.guest)
    BY <1>a, <2>1, <2>3 DEF StepTables, SameHolding, Ports, regVars
  <2> QED BY <1>8, <2>2, <2>3 DEF AllocatePort
<1>9. CASE \/ CreateTap(p) \/ StartVM(p) \/ AddPortForward(p)
           \/ StopForce(p) \/ StoreMachine(p) \/ WaitForAgent(p)
           \/ GetRow(p) \/ ReadPorts(p) \/ TakeMachine(p) \/ WaitVM(p)
           \/ RemoveForwards(p) \/ DeleteTap(p) \/ RemoveRootfs(p) \/ ForwardExtra(p)
  <2>1. UNCHANGED <<sandboxes, sandbox_ports>> /\ x.pc # "add_port"
    BY <1>9 DEF CreateTap, StartVM, AddPortForward, StopForce, StoreMachine, WaitForAgent, GetRow,
        ReadPorts, TakeMachine, WaitVM, RemoveForwards, DeleteTap, RemoveRootfs, ForwardExtra, regVars
  <2> QED BY <2>1, SameTables
<1>10. CASE \/ Pause(p) \/ WriteMemory(p) \/ FreezeRootfs(p) \/ Resume(p) \/ RecordSnapshot(p) \/ CleanupSnapshot(p)
           \/ CopyRootfs(p) \/ LoadSnapshot(p) \/ StatBaked(p) \/ StageBaked(p) \/ Unstage(p) \/ Settle(p)
           \/ FanoutDone(p) \/ CloneRootfs(p) \/ CreateTapUnbridged(p) \/ StartClone(p)
           \/ AttachTapToBridge(p) \/ ForwardClone(p) \/ StopClone(p)
  <2>1. UNCHANGED <<sandboxes, sandbox_ports>> /\ x.pc # "add_port"
    BY <1>10 DEF Pause, WriteMemory, FreezeRootfs, Resume, RecordSnapshot, CreateSnapshot, CleanupSnapshot, CopyRootfs,
        LoadSnapshot, StatBaked, StageBaked, Unstage, Settle, FanoutDone, CloneRootfs, CreateTapUnbridged,
        StartClone, AttachTapToBridge, ForwardClone, StopClone, regVars
  <2> QED BY <2>1, SameTables
<1> QED BY <1>1, <1>2, <1>3, <1>4, <1>5, <1>6, <1>7, <1>8, <1>9, <1>10 DEF Handles, Step, SnapStep

\* GoTo, Rollback and Return, once more.
LEMMA JumpLocals ==
    ASSUME FramesOK, NEW p \in Goroutines
    PROVE  /\ \A c : GoTo(p, c) => /\ proc'[p].pc = c /\ proc'[p].ctx = proc[p].ctx /\ proc'[p].extra = proc[p].extra
                                   /\ proc'[p].guest = proc[p].guest /\ proc'[p].host = proc[p].host
           /\ Rollback(p) => proc'[p].pc = "delete_tap" /\ proc'[p].ctx = "background"
           /\ Return(p) => proc'[p].pc = "idle"
BY DEF FramesOK, SnapFrame, GoTo, Rollback, Return, Idle

\* So every handler's step does.
LEMMA LocalsStep == ASSUME SnapInv, NEW p \in Goroutines, Handles(p) PROVE StepLocals(p)
<1> DEFINE x == proc[p]
           y == proc'[p]
<1>0. FramesOK BY DEF SnapInv
<1>a. CASE y.pc \notin Tail \cup {"delete_port"} /\ x.pc \notin {"read_ports", "take_machine", "wait_vm"}
  BY <1>a DEF StepLocals
<1>b. CASE Return(p) /\ x.pc \notin {"read_ports", "take_machine", "wait_vm"}
  <2>1. y.pc = "idle" BY <1>0, <1>b, JumpLocals
  <2> QED BY <1>a, <1>b, <2>1 DEF Tail
<1>c. CASE Rollback(p) /\ x.pc \notin Tail
  BY <1>0, <1>c, JumpLocals DEF StepLocals, Tail
<1>d. ASSUME NEW c, GoTo(p, c), c \notin Tail \/ x.pc \in Tail, x.pc # "read_ports" PROVE StepLocals(p)
  BY <1>0, <1>d, JumpLocals DEF StepLocals, Tail
<1>e. ASSUME NEW z, z = [Idle EXCEPT !.pc = "get_row", !.id = x.id, !.by = x.by], proc' = [proc EXCEPT ![p] = z],
             x.pc \notin Tail
      PROVE  StepLocals(p)
  <2>1. y = z BY <1>0, <1>e DEF FramesOK
  <2>2. z.pc = "get_row" /\ z.ctx = "background" BY <1>e DEF Idle
  <2> QED BY <1>e, <2>1, <2>2 DEF StepLocals, Tail
<1>f. ASSUME NEW c, NEW sb, proc' = [proc EXCEPT ![p].pc = c, ![p].sb = sb], c \notin Tail \/ x.pc \in Tail,
             x.pc # "read_ports"
      PROVE  StepLocals(p)
  <2>1. y.pc = c /\ y.ctx = x.ctx /\ y.extra = x.extra /\ y.guest = x.guest /\ y.host = x.host
    BY <1>0, <1>f DEF FramesOK, SnapFrame
  <2> QED BY <1>f, <2>1 DEF StepLocals
<1>1. CASE InsertRow(p) \/ InsertRestore(p) \/ CloneRow(p)
  BY <1>1, <1>b, <1>f DEF InsertRow, InsertRestore, CloneRow, Tail
<1>2. CASE GetRow(p)
  BY <1>2, <1>b, <1>f DEF GetRow, Tail
<1>3. CASE ReadPorts(p)
  <2>1. /\ x.pc = "read_ports"
        /\ proc' = [proc EXCEPT ![p].pc = "take_machine", ![p].extra = IF Cancelled(p) THEN {} ELSE Ports(proc[p].id)]
    BY <1>3 DEF ReadPorts
  <2>2. y.pc = "take_machine" /\ y.ctx = x.ctx /\ y.extra = IF Cancelled(p) THEN {} ELSE Ports(proc[p].id)
    BY <1>0, <2>1 DEF FramesOK, SnapFrame
  <2> QED BY <2>1, <2>2 DEF StepLocals, Tail
<1>4. CASE WaitForAgent(p) BY <1>4, <1>b, <1>e DEF WaitForAgent, Tail
<1>5. CASE StopClone(p) BY <1>5, <1>e DEF StopClone, Tail
<1>6. CASE AllocatePort(p)
  <2> DEFINE mapping(table) == CHOOSE m \in table : m.id = x.id /\ m.guest = x.guest
             h == mapping(sandbox_ports).host
             h1 == mapping(sandbox_ports').host
  <2>1. /\ x.pc = "add_port"
        /\ \/ proc' = [proc EXCEPT ![p].pc = "add_forward", ![p].host = h1]
           \/ proc' = [proc EXCEPT ![p].pc = "add_forward", ![p].host = h]
           \/ Return(p)
    BY <1>6 DEF AllocatePort
  <2> HIDE DEF h, h1
  <2>2. Return(p) \/ y.pc = "add_forward" BY <1>0, <2>1 DEF FramesOK, SnapFrame
  <2> QED BY <1>a, <1>b, <2>1, <2>2 DEF Tail
<1>7. CASE \/ CreateTap(p) \/ StartVM(p) \/ AddPortForward(p) \/ RecordStart(p) \/ StopForce(p) \/ StoreMachine(p)
  BY <1>7, <1>c, <1>d DEF CreateTap, StartVM, AddPortForward, AddPortForwardTo, RecordStart, StopForce, StoreMachine, Tail
<1>8. CASE \/ TakeMachine(p) \/ WaitVM(p) \/ RemoveForwards(p) \/ DeleteTap(p) \/ RemoveRootfs(p) \/ DeleteRow(p)
  BY <1>8, <1>b, <1>d DEF TakeMachine, WaitVM, RemoveForwards, DeleteTap, RemoveRootfs, DeleteRow, Tail
<1>9. CASE ForwardExtra(p) \/ UndoPort(p)
  BY <1>9, <1>b, <1>d DEF ForwardExtra, AddPortForwardTo, UndoPort, Tail
<1>10. CASE \/ Pause(p) \/ WriteMemory(p) \/ FreezeRootfs(p) \/ Resume(p) \/ RecordSnapshot(p) \/ CleanupSnapshot(p)
            \/ CopyRootfs(p) \/ LoadSnapshot(p) \/ FanoutDone(p)
  BY <1>10, <1>b, <1>c, <1>d DEF Pause, WriteMemory, FreezeRootfs, Resume, RecordSnapshot, CleanupSnapshot, CopyRootfs,
        LoadSnapshot, FanoutDone, Tail
<1>11. CASE CloneRootfs(p) \/ CreateTapUnbridged(p) \/ StartClone(p) \/ AttachTapToBridge(p) \/ ForwardClone(p) \/ RecordClone(p)
  BY <1>11, <1>c, <1>d DEF CloneRootfs, CreateTapUnbridged, StartClone, AttachTapToBridge, ForwardClone,
     AddPortForwardTo, RecordClone, Tail
<1>12. CASE StatBaked(p) \/ StageBaked(p) \/ Unstage(p) \/ Settle(p)
  <2>1. x.pc \in FanoutPCs BY <1>12 DEF StatBaked, StageBaked, Unstage, Settle, FanoutPCs
  <2>2. Edge(x.pc, y.pc) BY HandlerWalks DEF StepProc, Goes
  <2> QED BY <1>a, <2>1, <2>2 DEF Edge, FanoutPCs, Tail
<1> QED BY <1>1, <1>2, <1>3, <1>4, <1>5, <1>6, <1>7, <1>8, <1>9, <1>10, <1>11, <1>12 DEF Handles, Step, SnapStep

\* So every handler's step does.
LEMMA RulesStep ==
    ASSUME SnapInv, "forward_partial" \notin Faults, NEW p \in Goroutines, Handles(p) PROVE StepRules(p)
<1> DEFINE x == proc[p]
           y == proc'[p]
<1>0. FramesOK BY DEF SnapInv
<1>a. (\A c : GoTo(p, c) => y.pc = c) /\ (Return(p) => y.pc = "idle") BY <1>0, JumpLocals
<1>1. CASE AddPortForward(p)
  BY <1>1, <1>a DEF AddPortForward, AddPortForwardTo, Fault, StepRules, Appends, Primary
<1>2. CASE ForwardClone(p)
  BY <1>2, <1>a DEF ForwardClone, AddPortForwardTo, Fault, StepRules, Appends, Primary
<1>3. CASE ForwardExtra(p)
  BY <1>3, <1>a DEF ForwardExtra, AddPortForwardTo, Fault, StepRules, Appends
<1>4. CASE RecordStart(p)
  <2>1. x.pc = "finish_start" BY <1>4 DEF RecordStart
  <2>2. CASE GoTo(p, "store") /\ rules' = rules BY <1>a, <2>1, <2>2 DEF StepRules
  <2>3. CASE GoTo(p, "stop_force") /\ rules' = Without(Primary(x.sb))
    <3>1. Deletes(p) = Primary(x.sb) BY <2>1 DEF Deletes
    <3> QED BY <1>a, <2>1, <2>3, <3>1 DEF StepRules, Without
  <2> QED BY <1>4, <2>2, <2>3 DEF RecordStart, Primary
<1>5. CASE RemoveForwards(p)
  BY <1>5 DEF RemoveForwards, StepRules, Deletes, Primary, Without
<1>6. CASE \/ InsertRow(p) \/ CreateTap(p) \/ StartVM(p) \/ StopForce(p) \/ StoreMachine(p) \/ WaitForAgent(p)
           \/ GetRow(p) \/ ReadPorts(p) \/ TakeMachine(p) \/ WaitVM(p) \/ DeleteTap(p) \/ RemoveRootfs(p)
           \/ DeleteRow(p) \/ AllocatePort(p) \/ UndoPort(p)
  <2>1. rules' = rules /\ x.pc \notin {"remove_forwards", "finish_start", "forward", "forward_clone"}
    BY <1>6 DEF InsertRow, CreateTap, StartVM, StopForce, StoreMachine, WaitForAgent, GetRow,
        ReadPorts, TakeMachine, WaitVM, DeleteTap, RemoveRootfs, DeleteRow, AllocatePort, UndoPort, hostVars
  <2> QED BY <2>1 DEF StepRules
<1>7. CASE SnapStep(p) /\ ~ForwardClone(p)
  <2>1. rules' = rules /\ x.pc \notin {"remove_forwards", "finish_start", "forward", "forward_clone"}
    BY <1>7 DEF SnapStep, Pause, WriteMemory, FreezeRootfs, Resume, RecordSnapshot, CleanupSnapshot,
       InsertRestore, CopyRootfs, LoadSnapshot, StatBaked, StageBaked, Unstage, Settle, FanoutDone, CloneRow,
       CloneRootfs, CreateTapUnbridged, StartClone, AttachTapToBridge, RecordClone, StopClone, hostVars
  <2> QED BY <2>1 DEF StepRules
<1> QED BY <1>1, <1>2, <1>3, <1>4, <1>5, <1>6, <1>7 DEF Handles, Step

\* A goroutine that works on a sandbox has its row.
LEMMA OwnRow ==
    ASSUME SnapInv, DiskInv, NEW p \in Goroutines, RulesAt(p), proc[p].pc \notin StopPCs \cup NoCopy
    PROVE  \E r \in sandboxes : r.id = proc[p].id /\ r.ip = proc[p].sb.ip /\ r.port = proc[p].sb.port
<1>1. \E r \in sandboxes : r.id = proc[p].id BY OwnTap
<1> QED BY <1>1 DEF RulesAt

\* The rules a handler appends are its sandbox's and were not there.
LEMMA AppendedRules ==
    ASSUME SnapInv, DiskInv, NEW p \in Goroutines, RulesAt(p),
           proc[p].pc \in {"forward", "forward_clone", "add_forward"}
    PROVE  /\ Appends(p) \cap BagToSet(rules) = {}
           /\ \A f \in Appends(p) : f.ip = proc[p].sb.ip
           /\ \E r \in sandboxes :
                 /\ r.id = proc[p].id /\ r.ip = proc[p].sb.ip /\ Appends(p) \subseteq RowRules(r)
                 /\ \A f \in Appends(p) : f.host = r.port \/ \E m \in sandbox_ports : m.id = r.id /\ m.host = f.host
<1> DEFINE x == proc[p]
<1>1. x.pc \notin StopPCs \cup NoCopy BY DEF StopPCs, Tail, NoCopy, NoSandbox, FanoutPCs
<1>2. PICK r \in sandboxes : r.id = x.id /\ r.ip = x.sb.ip /\ r.port = x.sb.port BY <1>1, OwnRow
<1>3. CASE x.pc \in {"forward", "forward_clone"}
  <2>1. Appends(p) = Forward(r.port, r.ip, PrimaryPort) BY <1>2, <1>3 DEF Appends, Primary
  <2>2. \A f \in Appends(p) : f.ip = r.ip /\ f.host = r.port BY <2>1, ForwardMembers
  <2>3. NoRules(x.id) BY <1>3 DEF RulesAt, Undressed
  <2>4. Appends(p) \subseteq RowRules(r) BY <2>1, RowRulesMembers
  <2> QED BY <1>2, <2>2, <2>3, <2>4 DEF NoRules
<1>4. CASE x.pc = "add_forward"
  <2>1. Appends(p) = Forward(x.host, r.ip, x.guest) BY <1>2, <1>4 DEF Appends
  <2>2. \A f \in Appends(p) : f.ip = r.ip /\ f.host = x.host BY <2>1, ForwardMembers
  <2>3. PICK m \in sandbox_ports : m.id = x.id /\ m.guest = x.guest /\ m.host = x.host BY <1>4 DEF RulesAt
  <2>4. Appends(p) \subseteq RowRules(r) BY <1>2, <2>1, <2>3, RowRulesMembers
  <2>5. \A f \in BagToSet(rules) : f.host # x.host BY <1>4 DEF RulesAt
  <2> QED BY <1>2, <2>2, <2>3, <2>4, <2>5
<1> QED BY <1>3, <1>4

\* The rules after a handler's step.
LEMMA WorkRuleSet ==
    ASSUME SnapInv, DiskInv, RulesInv, NEW p \in Goroutines, StepRules(p)
    PROVE  /\ IsABag(rules') /\ NoDuplicateRule'
           /\ \/ /\ BagToSet(rules') = BagToSet(rules) /\ proc[p].pc # "remove_forwards"
                 /\ ~(proc[p].pc = "finish_start" /\ proc'[p].pc = "stop_force")
                 /\ proc'[p].pc = "finish_start" => proc[p].pc # "forward"
                 /\ proc'[p].pc = "record_clone" => proc[p].pc # "forward_clone"
              \/ /\ BagToSet(rules') = BagToSet(rules) \cup Appends(p)
                 /\ \/ proc[p].pc \in {"forward", "forward_clone"} /\ proc'[p].pc \in {"finish_start", "record_clone"}
                    \/ proc[p].pc = "add_forward" /\ proc'[p].pc = "idle"
              \/ /\ BagToSet(rules') = BagToSet(rules) \ Deletes(p)
                 /\ proc[p].pc = "remove_forwards" \/ (proc[p].pc = "finish_start" /\ proc'[p].pc = "stop_force")
<1>0. IsABag(rules) /\ NoDuplicateRule /\ RulesAt(p) BY DEF RulesInv
<1>1. CASE /\ rules' = rules /\ proc[p].pc # "remove_forwards"
           /\ ~(proc[p].pc = "finish_start" /\ proc'[p].pc = "stop_force")
           /\ proc'[p].pc = "finish_start" => proc[p].pc # "forward"
           /\ proc'[p].pc = "record_clone" => proc[p].pc # "forward_clone"
  BY <1>0, <1>1 DEF NoDuplicateRule
<1>2. CASE /\ rules' = rules (+) SetToBag(Appends(p))
           /\ \/ proc[p].pc \in {"forward", "forward_clone"} /\ proc'[p].pc \in {"finish_start", "record_clone"}
              \/ proc[p].pc = "add_forward" /\ proc'[p].pc = "idle"
  <2>1. Appends(p) \cap BagToSet(rules) = {} BY <1>0, <1>2, AppendedRules
  <2> QED BY <1>0, <1>2, <2>1, AddRules
<1>3. CASE /\ rules' = rules (-) SetToBag(Deletes(p))
           /\ proc[p].pc = "remove_forwards" \/ (proc[p].pc = "finish_start" /\ proc'[p].pc = "stop_force")
  BY <1>0, <1>3, RemoveRules
<1> QED BY <1>1, <1>2, <1>3 DEF StepRules

\* A destroy works under its own context.
LEMMA TailCtx ==
    ASSUME NEW p \in Goroutines, RulesAt(p), proc[p].pc \in Tail PROVE Cancelled(p) <=> proc[p].ctx = "cancelled"
BY DEF RulesAt, Cancelled

\* A rule that its row accounts for stays so.
LEMMA RuleStays ==
    ASSUME SnapInv, NEW p \in Goroutines, StepTables(p), RulesAt(p), NEW r \in sandboxes, NEW f \in RowRules(r),
           ~(proc[p].pc = "delete_row" /\ ~Cancelled(p) /\ r.id = proc[p].id),
           proc[p].pc = "delete_port" => f.host # proc[p].host
    PROVE  \E s \in sandboxes' : f \in RowRules(s)'
<1> DEFINE x == proc[p]
<1>1. PICK s \in sandboxes' : SameHolding(s, r) BY DEF StepTables
<1>2. CASE f \in Forward(r.port, r.ip, PrimaryPort) BY <1>1, <1>2 DEF SameHolding, RowRules
<1>3. ASSUME NEW m \in sandbox_ports, m.id = r.id, f \in Forward(m.host, r.ip, m.guest) PROVE f \in RowRules(s)'
  <2>1. ~(x.pc = "delete_port" /\ m.id = x.id /\ m.guest = x.guest)
    <3> SUFFICES ASSUME x.pc = "delete_port", m.id = x.id, m.guest = x.guest PROVE FALSE OBVIOUS
    <3>1. PICK n \in sandbox_ports : n.id = x.id /\ n.guest = x.guest /\ n.host = x.host BY DEF RulesAt
    <3>2. m = n BY <3>1 DEF SnapInv, RegInv, Exclusive, ExtraExclusive
    <3> QED BY <1>3, <3>1, <3>2, ForwardMembers
  <2>2. m \in sandbox_ports' BY <1>3, <2>1 DEF StepTables
  <2> QED BY <1>1, <1>3, <2>2 DEF RowRules, Ports, SameHolding
<1> QED BY <1>1, <1>2, <1>3, RowRulesMembers

\* Rules are recorded after a handler's step.
LEMMA WorkRecorded ==
    ASSUME SnapInv, DiskInv, RulesInv, NEW p \in Goroutines, StepTables(p), StepRules(p) PROVE Recorded'
<1> DEFINE x == proc[p]
<1>0. RulesAt(p) /\ Recorded BY DEF RulesInv
<1> SUFFICES ASSUME NEW f \in BagToSet(rules') PROVE \E s \in sandboxes' : f \in RowRules(s)' BY DEF Recorded
<1>1. CASE f \in BagToSet(rules)
  <2>1. PICK r \in sandboxes : f \in RowRules(r) BY <1>0, <1>1 DEF Recorded
  <2>2. f.ip = r.ip BY <2>1, RowRulesAddress
  <2>3. ASSUME x.pc = "delete_row", ~Cancelled(p), r.id = x.id PROVE FALSE
    <3>1. x.ctx # "cancelled" BY <1>0, <2>3, TailCtx DEF Tail
    <3>2. NoRules(x.id) BY <1>0, <2>3, <3>1 DEF RulesAt, Cleared
    <3> QED BY <1>1, <2>2, <2>3, <3>2 DEF NoRules
  <2>4. x.pc = "delete_port" => f.host # x.host BY <1>0, <1>1 DEF RulesAt
  <2> QED BY <1>0, <2>1, <2>3, <2>4, RuleStays
<1>2. CASE f \notin BagToSet(rules)
  <2>1. f \in Appends(p) /\ x.pc \in {"forward", "forward_clone", "add_forward"} BY <1>2, WorkRuleSet
  <2>2. PICK r \in sandboxes : f \in RowRules(r) BY <1>0, <2>1, AppendedRules
  <2> QED BY <1>0, <2>1, <2>2, RuleStays
<1> QED BY <1>1, <1>2

\* A goroutine that does not step, but for a clone that its fan-out moves, goes on
\* knowing what it knew.
LEMMA WorkOtherRules ==
    ASSUME SnapInv, DiskInv, RulesInv, NEW p \in Goroutines, StepTables(p), StepRules(p), NEW q \in Goroutines \ {p},
           \/ proc'[q] = proc[q]
           \/ proc[q].pc = "loaded" /\ proc'[q].pc = "bridge" /\ Same(proc[q], proc'[q])
    PROVE  RulesAt(q)'
<1> DEFINE x == proc[p]
           y == proc[q]
           z == proc'[q]
<1>0. RulesAt(q) /\ RulesAt(p) BY DEF RulesInv
<1>a. z.id = y.id /\ z.sb = y.sb BY DEF Same, Keeps
<1>b. /\ x.pc \in Inserts => x.pc \notin StopPCs \cup NoSandbox
      /\ x.pc = "add_port" => x.pc \notin StopPCs \cup NoSandbox
      /\ x.pc \in {"forward", "forward_clone", "add_forward"} => x.pc \notin StopPCs \cup NoSandbox
      /\ y.pc \in {"add_forward", "delete_port"} => y.pc \notin StopPCs \cup NoSandbox
      /\ x.pc = "delete_port" => x.pc \notin StopPCs \cup NoSandbox
  BY DEF Inserts, StopPCs, Tail, NoSandbox, FanoutPCs
<1>1. ASSUME NEW r \in sandboxes', r.id = y.id PROVE \E s \in sandboxes : SameHolding(r, s)
  BY <1>1, <1>b, HasItsOwn DEF StepTables
<1>2. ASSUME NEW m \in sandbox_ports', m.id = y.id PROVE m \in sandbox_ports
  BY <1>2, <1>b, HasItsOwn DEF StepTables
<1>3. ASSUME NEW f \in BagToSet(rules'), f \notin BagToSet(rules)
      PROVE  /\ \A s \in sandboxes : s.id = y.id => f.ip # s.ip
             /\ \A m \in sandbox_ports : m.id = y.id => f.host # m.host
  <2>1. f \in Appends(p) /\ x.pc \in {"forward", "forward_clone", "add_forward"} BY <1>3, WorkRuleSet
  <2>2. x.id # y.id BY <1>b, <2>1, HasItsOwn
  <2>3. PICK r \in sandboxes :
          /\ r.id = x.id /\ f.ip = r.ip
          /\ f.host = r.port \/ \E m \in sandbox_ports : m.id = r.id /\ m.host = f.host
    BY <1>0, <2>1, AppendedRules
  <2>4. \A s \in sandboxes : s.id = y.id => f.ip # s.ip BY <2>2, <2>3, OneRow DEF SnapInv
  <2>5. \A m \in sandbox_ports : m.id = y.id => f.host # m.host
    BY <2>2, <2>3 DEF SnapInv, RegInv, Exclusive, ExtraExclusive
  <2> QED BY <2>4, <2>5
<1>4. z.pc \notin NoCopy => \A r \in sandboxes' : r.id = z.id => r.ip = z.sb.ip /\ r.port = z.sb.port
  <2>1. z.pc \notin NoCopy => y.pc \notin NoCopy BY DEF NoCopy, NoSandbox, FanoutPCs
  <2> QED BY <1>0, <1>a, <1>1, <2>1 DEF RulesAt, SameHolding
<1>5. z.pc \in Tail => z.ctx # "parent" BY <1>0 DEF RulesAt, Tail
<1>6. z.pc \in Undressed \cup {"finish_start"} => \A m \in sandbox_ports' : m.id # z.id
  BY <1>0, <1>a, <1>2 DEF RulesAt, Undressed
<1>7. z.pc \in Undressed \cup {"stop_force"} \/ (z.pc \in Cleared /\ z.ctx # "cancelled") =>
         \A f \in BagToSet(rules'), r \in sandboxes' : r.id = z.id => f.ip # r.ip
  <2> SUFFICES ASSUME z.pc \in Undressed \cup {"stop_force"} \/ (z.pc \in Cleared /\ z.ctx # "cancelled"),
                      NEW f \in BagToSet(rules'), NEW r \in sandboxes', r.id = z.id
               PROVE  f.ip # r.ip
    OBVIOUS
  <2>1. NoRules(y.id) BY <1>0 DEF RulesAt, Undressed, Cleared
  <2>2. PICK s \in sandboxes : SameHolding(r, s) BY <1>a, <1>1
  <2>3. s.id = y.id /\ s.ip = r.ip BY <1>a, <2>2 DEF SameHolding
  <2> QED BY <1>3, <2>1, <2>3 DEF NoRules
<1>8. z.pc \in Listed /\ z.ctx # "cancelled" => \A m \in sandbox_ports' : m.id = z.id => m \in z.extra
  BY <1>0, <1>a, <1>2 DEF RulesAt, Listed
<1>9. z.pc = "add_port" => \A m \in sandbox_ports' : m.id = z.id => m.guest # z.guest
  BY <1>0, <1>a, <1>2 DEF RulesAt
<1>10. z.pc \in {"add_forward", "delete_port"} =>
          /\ \E m \in sandbox_ports' : m.id = z.id /\ m.guest = z.guest /\ m.host = z.host
          /\ \A f \in BagToSet(rules') : f.host # z.host
  <2> SUFFICES ASSUME z.pc \in {"add_forward", "delete_port"}
               PROVE  /\ \E m \in sandbox_ports' : m.id = z.id /\ m.guest = z.guest /\ m.host = z.host
                      /\ \A f \in BagToSet(rules') : f.host # z.host
    OBVIOUS
  <2>0. z = y OBVIOUS
  <2>1. PICK m \in sandbox_ports : m.id = y.id /\ m.guest = y.guest /\ m.host = y.host BY <1>0, <2>0 DEF RulesAt
  <2>2. x.id # y.id BY <1>b, <2>0, HasItsOwn
  <2>3. m \in sandbox_ports' BY <2>1, <2>2 DEF StepTables
  <2>4. \A f \in BagToSet(rules) : f.host # y.host BY <1>0, <2>0 DEF RulesAt
  <2> QED BY <1>3, <2>0, <2>1, <2>3, <2>4
<1> QED BY <1>4, <1>5, <1>6, <1>7, <1>8, <1>9, <1>10 DEF RulesAt, NoRules

\* The handler that steps knows the rules of the sandbox it goes on with.
LEMMA WorkOwnRules ==
    ASSUME SnapInv, SnapInv', DiskInv, RulesInv, NEW p \in Goroutines, Walk(p, p), StepRows(p), StepTables(p),
           StepLocals(p), StepRules(p)
    PROVE  RulesAt(p)'
<1> DEFINE x == proc[p]
           y == proc'[p]
<1>0. RulesAt(p) /\ Recorded BY DEF RulesInv
<1>a. Edge(x.pc, y.pc) BY DEF Walk
<1>b. y.pc # "idle" => y.id = x.id BY DEF Walk
<1>c. Tail \cap Inserts = {} /\ Inserts \subseteq NoCopy BY DEF Tail, Inserts, NoCopy
<1>1. y.pc \notin NoCopy => \A r \in sandboxes' : r.id = y.id => r.ip = y.sb.ip /\ r.port = y.sb.port
  <2> SUFFICES ASSUME y.pc \notin NoCopy, NEW r \in sandboxes', r.id = y.id
               PROVE  r.ip = y.sb.ip /\ r.port = y.sb.port
    OBVIOUS
  <2>1. CASE y.sb = x.sb /\ x.pc \notin NoCopy
    <3>1. PICK s \in sandboxes : SameHolding(r, s) BY <1>c, <2>1 DEF StepTables
    <3>2. y.id = x.id BY <1>b DEF NoCopy, NoSandbox
    <3> QED BY <1>0, <2>1, <3>1, <3>2 DEF RulesAt, SameHolding
  <2>2. CASE y.sb \in sandboxes' /\ y.sb.id = y.id
    BY <2>2, RowsApartNext DEF RowsDiffer
  <2> QED BY <2>1, <2>2 DEF Walk
<1>2. y.pc \in Tail => y.ctx # "parent" BY <1>0 DEF StepLocals, RulesAt
<1>3. y.pc \in Undressed \cup {"finish_start"} => \A m \in sandbox_ports' : m.id # y.id
  <2> SUFFICES ASSUME y.pc \in Undressed \cup {"finish_start"}, NEW m \in sandbox_ports', m.id = y.id PROVE FALSE
    OBVIOUS
  <2>1. x.pc \in Undressed \cup Inserts BY <1>a DEF Edge, Undressed, Inserts
  <2>2. m \in sandbox_ports /\ m.id = x.id
    BY <1>b, <2>1 DEF StepTables, Undressed, Inserts
  <2>3. x.pc \in Inserts BY <1>0, <2>1, <2>2 DEF RulesAt
  <2>4. \E r \in sandboxes : r.id = x.id BY <2>2 DEF SnapInv, RegInv, PortsOwned
  <2> QED BY <2>3, <2>4 DEF StepRows, Undressed
<1>4. y.pc \in Undressed \cup {"stop_force"} \/ (y.pc \in Cleared /\ y.ctx # "cancelled") =>
         \A f \in BagToSet(rules'), r \in sandboxes' : r.id = y.id => f.ip # r.ip
  <2> SUFFICES ASSUME y.pc \in Undressed \cup {"stop_force"} \/ (y.pc \in Cleared /\ y.ctx # "cancelled"),
                      NEW f \in BagToSet(rules'), NEW r \in sandboxes', r.id = y.id, f.ip = r.ip
               PROVE  FALSE
    OBVIOUS
  <2>1. y.id = x.id BY <1>b DEF Undressed, Cleared
  <2>2. \/ x.pc \in Inserts /\ y.pc \in Undressed
        \/ x.pc \in Undressed \cup {"stop_force"} \/ (x.pc \in Cleared /\ x.ctx # "cancelled")
        \/ x.pc = "finish_start" /\ y.pc = "stop_force"
        \/ x.pc = "remove_forwards" /\ x.ctx # "cancelled"
    <3>1. x.pc \in Cleared \cup {"remove_forwards"} => y.ctx = x.ctx \/ y.pc \notin Tail
      BY DEF StepLocals, Cleared, Tail
    <3> QED BY <1>a, <3>1 DEF Edge, Undressed, Inserts, Cleared, Tail
  <2>3. f \in BagToSet(rules)
    <3>1. ~(x.pc \in {"forward", "forward_clone"} /\ y.pc \in {"finish_start", "record_clone"})
      BY DEF Undressed, Cleared
    <3>2. y.pc # "idle" BY DEF Undressed, Cleared
    <3> QED BY <3>1, <3>2, WorkRuleSet
  <2>4. PICK s \in sandboxes : f \in RowRules(s) BY <1>0, <2>3 DEF Recorded
  <2>5. f.ip = s.ip BY <2>4, RowRulesAddress
  <2>6. CASE x.pc \in Inserts /\ y.pc \in Undressed
    <3>1. \A t \in sandboxes : t.id # x.id BY <2>6 DEF StepRows, Undressed
    <3>2. \A t \in sandboxes : t.ip # r.ip BY <2>1, <3>1 DEF StepTables, SameHolding
    <3> QED BY <2>5, <3>2
  <2>7. CASE x.pc \notin Inserts
    <3>1. PICK t \in sandboxes : SameHolding(r, t) BY <2>7 DEF StepTables
    <3>2. t.id = x.id /\ t.ip = f.ip BY <2>1, <3>1 DEF SameHolding
    <3>3. t = s BY <2>5, <3>2, OneRow DEF SnapInv
    <3>4. CASE x.pc \in Undressed \cup {"stop_force"} \/ (x.pc \in Cleared /\ x.ctx # "cancelled")
      BY <1>0, <2>3, <3>2, <3>4 DEF RulesAt, NoRules
    <3>5. CASE (x.pc = "finish_start" /\ y.pc = "stop_force") \/ (x.pc = "remove_forwards" /\ x.ctx # "cancelled")
      <4>1. f \notin Deletes(p) BY <3>5, WorkRuleSet
      <4>2. s.ip = x.sb.ip /\ s.port = x.sb.port
        BY <1>0, <3>2, <3>3, <3>5 DEF RulesAt, NoCopy, NoSandbox, FanoutPCs
      <4>3. f \notin Forward(s.port, s.ip, PrimaryPort) BY <4>1, <4>2 DEF Deletes, Primary
      <4>4. PICK m \in sandbox_ports : m.id = x.id /\ f \in Forward(m.host, s.ip, m.guest)
        BY <2>4, <3>2, <3>3, <4>3, RowRulesMembers
      <4>5. x.pc = "remove_forwards" /\ m \in x.extra BY <1>0, <3>5, <4>4 DEF RulesAt, Listed
      <4> QED BY <4>1, <4>2, <4>4, <4>5 DEF Deletes
    <3> QED BY <2>2, <2>7, <3>4, <3>5
  <2> QED BY <2>2, <2>6, <2>7 DEF Undressed, Inserts, Cleared
<1>5. y.pc \in Listed /\ y.ctx # "cancelled" => \A m \in sandbox_ports' : m.id = y.id => m \in y.extra
  <2> SUFFICES ASSUME y.pc \in Listed, y.ctx # "cancelled", NEW m \in sandbox_ports', m.id = y.id
               PROVE  m \in y.extra
    OBVIOUS
  <2>1. x.pc \in {"read_ports", "take_machine", "wait_vm"} BY <1>a DEF Edge, Listed
  <2>2. y.ctx = x.ctx BY <2>1 DEF StepLocals, Listed, Tail
  <2>3. m \in sandbox_ports /\ m.id = x.id BY <1>b, <2>1 DEF StepTables, Listed
  <2>4. CASE x.pc = "read_ports"
    <3>1. ~Cancelled(p) BY <1>0, <2>2, <2>4, TailCtx DEF Tail
    <3> QED BY <2>3, <2>4, <3>1 DEF StepLocals, Ports
  <2>5. CASE x.pc \in {"take_machine", "wait_vm"}
    BY <1>0, <2>2, <2>3, <2>5 DEF StepLocals, RulesAt, Listed
  <2> QED BY <2>1, <2>4, <2>5
<1>6. y.pc # "add_port" BY <1>a DEF Edge
<1>7. y.pc \in {"add_forward", "delete_port"} =>
          /\ \E m \in sandbox_ports' : m.id = y.id /\ m.guest = y.guest /\ m.host = y.host
          /\ \A f \in BagToSet(rules') : f.host # y.host
  <2>1. CASE y.pc = "add_forward"
    <3>1. x.pc = "add_port" /\ y.id = x.id BY <1>a, <1>b, <2>1 DEF Edge
    <3>2. PICK m \in sandbox_ports' : m.id = x.id /\ m.guest = y.guest /\ m.host = y.host /\ m.host \notin UsedPorts
      BY <1>0, <2>1, <3>1 DEF StepTables, RulesAt
    <3>3. BagToSet(rules') = BagToSet(rules) BY <3>1, WorkRuleSet
    <3>4. ASSUME NEW f \in BagToSet(rules) PROVE f.host \in UsedPorts
      BY <1>0, <3>4, RowRulesAddress DEF Recorded, UsedPorts
    <3> QED BY <3>1, <3>2, <3>3, <3>4
  <2>2. CASE y.pc = "delete_port"
    <3>1. x.pc = "add_forward" /\ y.id = x.id BY <1>a, <1>b, <2>2 DEF Edge
    <3>2. y.guest = x.guest /\ y.host = x.host BY <2>2 DEF StepLocals
    <3>3. BagToSet(rules') = BagToSet(rules) BY <2>2, <3>1, WorkRuleSet
    <3>4. sandbox_ports \subseteq sandbox_ports' BY <3>1 DEF StepTables
    <3> QED BY <1>0, <3>1, <3>2, <3>3, <3>4 DEF RulesAt
  <2> QED BY <2>1, <2>2
<1> QED BY <1>1, <1>2, <1>3, <1>4, <1>5, <1>6, <1>7 DEF RulesAt, NoRules

\* What holds of the rules goes on holding when a handler steps.
LEMMA HandlerRules ==
    ASSUME NEW p \in Goroutines, Works(p), RulesInv, "forward_partial" \notin Faults PROVE RulesInv'
<1>0. SnapInv /\ SnapInv' /\ DiskInv /\ Handles(p) BY DEF Works
<1>1. StepTables(p) /\ StepLocals(p) /\ StepRules(p) BY <1>0, TablesStep, LocalsStep, RulesStep
<1>2. Walk(p, p) /\ StepRows(p) BY WorkEffects DEF Effects
<1>3. IsABag(rules') /\ NoDuplicateRule' BY <1>0, <1>1, WorkRuleSet
<1>4. Recorded' BY <1>0, <1>1, WorkRecorded
<1>5. RulesAt(p)' BY <1>0, <1>1, <1>2, WorkOwnRules
<1>6. ASSUME NEW q \in Goroutines \ {p} PROVE RulesAt(q)'
  <2>1. proc'[q] = proc[q] \/ CloneGoes(proc[q], proc'[q]) BY <1>0, HandlerWalks DEF StepProc
  <2>2. CASE \/ proc'[q] = proc[q]
             \/ proc[q].pc = "loaded" /\ proc'[q].pc = "bridge" /\ Same(proc[q], proc'[q])
    BY <1>0, <1>1, <2>2, WorkOtherRules
  <2>3. CASE proc'[q].pc \in {"idle", "clone_row"}
    BY <2>3 DEF RulesAt, NoCopy, NoSandbox, Tail, Undressed, Cleared, Listed
  <2> QED BY <2>1, <2>2, <2>3, IdleFacts DEF CloneGoes
<1> QED BY <1>3, <1>4, <1>5, <1>6 DEF RulesInv, IsABag

\* Outside of the handlers goroutines go on with what they know, but for a client
\* that hangs up, or begin; rows keep their resources, mappings stay, and the
\* rules stay or go with the kernel.
Kept(x, y) ==
    /\ y.pc = x.pc /\ y.id = x.id /\ y.sb = x.sb /\ y.extra = x.extra /\ y.guest = x.guest /\ y.host = x.host
    /\ y.ctx \in {x.ctx, "cancelled"}
Begins(y) ==
    /\ y.pc \in EnterPCs \cup {"idle"}
    /\ y.pc \in Tail => y.ctx # "parent"
    /\ y.pc \in {"read_ports", "add_port", "pause"} => y.sb \in sandboxes /\ y.sb.id = y.id
    /\ y.pc = "read_ports" => main # "serve"
    /\ y.pc \in NoSandbox => y.id = 0
    /\ y.pc = "add_port" => \A m \in sandbox_ports : m.id = y.id => m.guest # y.guest
OutsideLocals == \A q \in Goroutines : Kept(proc[q], proc'[q]) \/ Begins(proc'[q])
OutsideTables ==
    /\ \A r \in sandboxes' : \E s \in sandboxes : SameHolding(r, s)
    /\ \A s \in sandboxes : \E r \in sandboxes' : SameHolding(r, s)
    /\ sandbox_ports' = sandbox_ports
    /\ rules' \in {rules, EmptyBag}

\* Tables and rules stay.
LEMMA OtherTables ==
    ASSUME SnapInv, DiskInv, [SnapNext]_allVars, ~\E p \in Goroutines : Handles(p) PROVE OutsideTables
<1>1. CASE UNCHANGED <<sandboxes, sandbox_ports>> /\ rules' \in {rules, EmptyBag}
  BY <1>1 DEF OutsideTables, SameHolding
<1>2. CASE Arrival
  BY <1>1, <1>2 DEF Arrival, PrepareRootfs, DestroyArrives, ExposeArrives, hostVars, regVars
<1>3. CASE SnapArrival
  <2>1. PICK p \in Requests :
          \/ \E id \in Ids, sid \in SnapIds : SnapshotArrives(p, id, sid)
          \/ \E s \in snapshots :
                \/ DeleteSnapshotRow(p, s)
                \/ \E timeout \in Timeouts : RestoreArrives(p, s, timeout)
                \/ \E n \in Counts, timeout \in Timeouts : FanoutArrives(p, s, n, timeout)
    BY <1>3 DEF SnapArrival
  <2>2. UNCHANGED <<sandboxes, sandbox_ports, rules>>
    BY <2>1 DEF SnapshotArrives, DeleteSnapshotRow, DeleteSnapshot, RestoreArrives, FanoutArrives, hostVars, regVars
  <2> QED BY <1>1, <2>2
<1>4. CASE Serve
  BY <1>1, <1>4 DEF Serve, Restart, ReconcileNext, Listen, ShutdownAll, Exit, hostVars, regVars
<1>5. CASE Environment
  BY <1>1, <1>5 DEF Environment, Disconnect, VMExit, Stop, Crash, Reboot, Tick, hostVars, regVars
<1>6. CASE ReaperTick \/ ReapNext BY <1>6, ReaperIdle
<1>7. ASSUME NEW id \in Ids, NEW timeout \in Timeouts, SetTimeout(id, timeout) PROVE OutsideTables
  <2> DEFINE new(r) == IF r.id = id THEN [r EXCEPT !.expires = Deadline(timeout)] ELSE r
  <2>1. sandboxes' = {new(r) : r \in sandboxes} /\ UNCHANGED <<sandbox_ports, rules>>
    BY <1>7 DEF SetTimeout, SetExpiry, hostVars
  <2>2. \A r \in sandboxes : SameHolding(new(r), r) BY DEF SnapInv, RegInv, RegTypeOK, Sandbox, SameHolding
  <2> HIDE DEF new
  <2> QED BY <2>1, <2>2 DEF OutsideTables
<1>8. CASE UNCHANGED allVars BY <1>1, <1>8 DEF allVars, vars, hostVars, regVars
<1>9. ASSUME NEW v \in vms, Thaw(v) \/ GuestWrites(v) PROVE OutsideTables
  BY <1>1, <1>9 DEF Thaw, GuestWrites, regVars
<1> QED BY <1>2, <1>3, <1>4, <1>5, <1>6, <1>7, <1>8, <1>9 DEF SnapNext, Next, GuestStep, Handles

\* One goroutine begins.
LEMMA OneBegins ==
    ASSUME SnapInv, NEW p \in Goroutines, NEW x, Begins(x), proc' = [proc EXCEPT ![p] = x] PROVE OutsideLocals
<1>1. proc'[p] = x /\ \A q \in Goroutines \ {p} : proc'[q] = proc[q] BY DEF SnapInv, FramesOK
<1> QED BY <1>1 DEF OutsideLocals, Kept

\* Requests begin with what the tables say.
LEMMA ArrivalLocals ==
    ASSUME SnapInv, DiskInv, Careful, Arrival \/ SnapArrival PROVE OutsideLocals
<1>0. Requests \subseteq Goroutines BY DEF Goroutines
<1>a. CASE proc' = proc BY <1>a DEF OutsideLocals, Kept
<1>1. ASSUME NEW p \in Requests, NEW timeout \in Timeouts, PrepareRootfs(p, timeout) PROVE OutsideLocals
  <2> DEFINE x == [Idle EXCEPT !.pc = "insert_row", !.id = nextId, !.expires = Deadline(timeout), !.ctx = "request"]
  <2>1. x.pc = "insert_row" BY DEF Idle
  <2>2. proc' = proc \/ proc' = [proc EXCEPT ![p] = x] BY <1>1 DEF PrepareRootfs
  <2> HIDE DEF x
  <2>3. Begins(x) BY <2>1 DEF Begins, EnterPCs, Tail, NoSandbox, FanoutPCs
  <2> QED BY <1>0, <1>a, <2>2, <2>3, OneBegins
<1>2. ASSUME NEW p \in Requests, NEW id \in Ids, DestroyArrives(p, id) PROVE OutsideLocals
  <2> DEFINE x == [Idle EXCEPT !.pc = "get_row", !.id = id, !.ctx = "request"]
  <2>1. x.pc = "get_row" /\ x.ctx = "request" BY DEF Idle
  <2>2. proc' = [proc EXCEPT ![p] = x] BY <1>2 DEF DestroyArrives
  <2> HIDE DEF x
  <2>3. Begins(x) BY <2>1 DEF Begins, EnterPCs, NoSandbox, FanoutPCs
  <2> QED BY <1>0, <2>2, <2>3, OneBegins
<1>3. ASSUME NEW p \in Requests, NEW id \in Ids, NEW guest \in GuestPorts, ExposeArrives(p, id, guest)
      PROVE  OutsideLocals
  <2>1. PICK sb : sb = RowOf(id, sandboxes) OBVIOUS
  <2>2. sb \in sandboxes /\ sb.id = id BY <1>3, <2>1, AddressedFree DEF ExposeArrives
  <2> DEFINE x == [Idle EXCEPT !.pc = "add_port", !.id = id, !.sb = sb, !.guest = guest, !.ctx = "request"]
  <2>3. x.pc = "add_port" /\ x.id = id /\ x.sb = sb /\ x.guest = guest BY DEF Idle
  <2>4. proc' = [proc EXCEPT ![p] = x] BY <1>3, <2>1 DEF ExposeArrives
  <2>5. \A m \in sandbox_ports : m.id = id => m.guest # guest BY <1>3 DEF ExposeArrives, Ports
  <2> HIDE DEF x
  <2>6. Begins(x) BY <2>2, <2>3, <2>5 DEF Begins, EnterPCs, Tail, NoSandbox, FanoutPCs
  <2> QED BY <1>0, <2>4, <2>6, OneBegins
<1>4. ASSUME NEW p \in Requests, NEW id \in Ids, NEW sid \in SnapIds, SnapshotArrives(p, id, sid)
      PROVE  OutsideLocals
  <2>1. PICK sb : sb = RowOf(id, sandboxes) OBVIOUS
  <2>2. sb \in sandboxes /\ sb.id = id BY <1>4, <2>1, AddressedFree DEF SnapshotArrives
  <2>3. PICK s : s = [id |-> sid, source |-> id, tap |-> sb.tap, ip |-> sb.ip, rootfs |-> sb.rootfs] OBVIOUS
  <2> DEFINE x == [Idle EXCEPT !.pc = "pause", !.id = id, !.sb = sb, !.ctx = "request", !.snap = s]
  <2>4. x.pc = "pause" /\ x.id = id /\ x.sb = sb BY DEF Idle
  <2>5. proc' = [proc EXCEPT ![p] = x] BY <1>4, <2>1, <2>3 DEF SnapshotArrives
  <2> HIDE DEF x
  <2>6. Begins(x) BY <2>2, <2>4 DEF Begins, EnterPCs, Tail, NoSandbox, FanoutPCs
  <2> QED BY <1>0, <2>5, <2>6, OneBegins
<1>5. ASSUME NEW p \in Requests, NEW s \in snapshots, DeleteSnapshotRow(p, s) PROVE OutsideLocals
  <2> DEFINE x == [Idle EXCEPT !.pc = "clean_up_snapshot", !.snap = s, !.ctx = "request"]
  <2>1. x.pc = "clean_up_snapshot" /\ x.id = 0 BY DEF Idle
  <2>2. proc' = [proc EXCEPT ![p] = x] BY <1>5 DEF DeleteSnapshotRow
  <2> HIDE DEF x
  <2>3. Begins(x) BY <2>1 DEF Begins, EnterPCs, Tail, NoSandbox, FanoutPCs
  <2> QED BY <1>0, <2>2, <2>3, OneBegins
<1>6. ASSUME NEW p \in Requests, NEW s \in snapshots, NEW timeout \in Timeouts, RestoreArrives(p, s, timeout)
      PROVE  OutsideLocals
  <2> DEFINE x == [Idle EXCEPT !.pc = "insert_restore", !.id = nextId, !.snap = s, !.expires = Deadline(timeout),
                               !.ctx = "request"]
  <2>1. x.pc = "insert_restore" BY DEF Idle
  <2>2. proc' = [proc EXCEPT ![p] = x] BY <1>6 DEF RestoreArrives
  <2> HIDE DEF x
  <2>3. Begins(x) BY <2>1 DEF Begins, EnterPCs, Tail, NoSandbox, FanoutPCs
  <2> QED BY <1>0, <2>2, <2>3, OneBegins
<1>7. ASSUME NEW p \in Requests, NEW s \in snapshots, NEW n \in Counts, NEW timeout \in Timeouts,
             FanoutArrives(p, s, n, timeout)
      PROVE  OutsideLocals
  <2> DEFINE new == {-id : id \in nextId .. nextId + n - 1}
             e == Deadline(timeout)
             x == [Idle EXCEPT !.pc = "stat_baked", !.snap = s, !.ctx = "request"]
             y(q) == [Idle EXCEPT !.pc = "not_started", !.id = -q, !.snap = s, !.by = p, !.expires = e]
  <2>1. proc' = [q \in Goroutines |-> CASE q = p -> x [] q \in new -> y(q) [] OTHER -> proc[q]]
    BY <1>7, Zenon DEF FanoutArrives
  <2>2. x.pc = "stat_baked" /\ x.id = 0 /\ \A q : y(q).pc = "not_started" BY DEF Idle
  <2> HIDE DEF x, y, new
  <2>3. Begins(x) /\ \A q : Begins(y(q)) BY <2>2 DEF Begins, EnterPCs, Tail, NoSandbox, FanoutPCs
  <2> QED BY <2>1, <2>3 DEF OutsideLocals, Kept
<1> QED BY <1>1, <1>2, <1>3, <1>4, <1>5, <1>6, <1>7 DEF Arrival, SnapArrival

\* And whoever goes on goes on with what it knew.
LEMMA OtherLocals ==
    ASSUME SnapInv, DiskInv, Careful, [SnapNext]_allVars, ~\E p \in Goroutines : Handles(p) PROVE OutsideLocals
<1>0. FramesOK /\ RecoveryOK /\ Requests \subseteq Goroutines /\ Main \in Goroutines BY DEF SnapInv, Goroutines
<1>a. CASE proc' = proc BY <1>a DEF OutsideLocals, Kept
<1>b. CASE \A q \in Goroutines : proc'[q] = Idle
  BY <1>b, IdleFacts DEF OutsideLocals, Begins, Tail
<1>c. ASSUME NEW p \in Goroutines, proc' = [proc EXCEPT ![p].ctx = "cancelled"] PROVE OutsideLocals
  BY <1>0, <1>c DEF FramesOK, SnapFrame, OutsideLocals, Kept
<1>1. CASE Arrival \/ SnapArrival BY <1>1, ArrivalLocals
<1>2. CASE ReconcileNext
  <2>1. PICK id \in todo : \E sb, ctx : /\ sb = RowOf(id, sandboxes) /\ ctx \in {"cancelled", "background"}
                                        /\ proc' = [proc EXCEPT ![Main] = [Idle EXCEPT !.pc = "read_ports", !.id = id,
                                                                                !.sb = sb, !.ctx = ctx]]
    BY <1>2 DEF ReconcileNext
  <2>2. PICK sb, ctx : /\ sb = RowOf(id, sandboxes) /\ ctx \in {"cancelled", "background"}
                       /\ proc' = [proc EXCEPT ![Main] = [Idle EXCEPT !.pc = "read_ports", !.id = id,
                                                               !.sb = sb, !.ctx = ctx]]
    BY <2>1
  <2>3. \E r \in sandboxes : r.id = id BY <1>0, <1>2, <2>1 DEF RecoveryOK, ReconcileNext
  <2>4. sb \in sandboxes /\ sb.id = id BY <2>2, <2>3 DEF RowOf
  <2> DEFINE x == [Idle EXCEPT !.pc = "read_ports", !.id = id, !.sb = sb, !.ctx = ctx]
  <2>5. x.pc = "read_ports" /\ x.id = id /\ x.sb = sb /\ x.ctx = ctx BY DEF Idle
  <2>6. proc' = [proc EXCEPT ![Main] = x] BY <2>2
  <2> HIDE DEF x
  <2>7. main # "serve" BY <1>2 DEF ReconcileNext
  <2>8. Begins(x) BY <2>2, <2>4, <2>5, <2>7 DEF Begins, EnterPCs, NoSandbox, FanoutPCs
  <2> QED BY <1>0, <2>6, <2>8, OneBegins
<1>3. CASE ShutdownAll
  <2> DEFINE x(q) == [Idle EXCEPT !.pc = "get_row", !.id = q]
  <2>1. proc' = [q \in Goroutines |-> IF q \in machines THEN x(q) ELSE proc[q]] BY <1>3 DEF ShutdownAll
  <2>2. \A q : x(q).pc = "get_row" /\ x(q).ctx = "background" BY DEF Idle
  <2> HIDE DEF x
  <2>3. \A q : Begins(x(q)) BY <2>2 DEF Begins, EnterPCs, NoSandbox, FanoutPCs
  <2> QED BY <2>1, <2>3 DEF OutsideLocals, Kept
<1>4. CASE Exit \/ Crash \/ Reboot BY <1>4, <1>b DEF Exit, Crash, Reboot, ProcessGone
<1>5. CASE Restart \/ Listen BY <1>5, <1>a DEF Restart, Listen
<1>6. ASSUME NEW p \in Requests, Disconnect(p) PROVE OutsideLocals BY <1>0, <1>6, <1>c DEF Disconnect
<1>7. CASE Stop BY <1>0, <1>7, <1>a, <1>c DEF Stop
<1>8. ASSUME NEW v \in vms, VMExit(v) \/ Thaw(v) \/ GuestWrites(v) PROVE OutsideLocals
  BY <1>8, <1>a DEF VMExit, Thaw, GuestWrites, memVars
<1>9. CASE Tick \/ UNCHANGED allVars \/ \E id \in Ids, timeout \in Timeouts : SetTimeout(id, timeout)
  BY <1>9, <1>a DEF Tick, SetTimeout, allVars, vars, memVars
<1>10. CASE ReaperTick \/ ReapNext BY <1>10, ReaperIdle
<1> QED BY <1>1, <1>2, <1>3, <1>4, <1>5, <1>6, <1>7, <1>8, <1>9, <1>10
        DEF SnapNext, Next, Serve, Environment, GuestStep, Handles

\* Then what holds of the rules goes on holding.
LEMMA OutsideRules ==
    ASSUME SnapInv, RulesInv, OutsideLocals, OutsideTables PROVE RulesInv'
<1>0. IsABag(rules) /\ NoDuplicateRule /\ Recorded BY DEF RulesInv
<1>a. IsABag(EmptyBag) /\ BagToSet(EmptyBag) = {} BY DEF EmptyBag, SetToBag, BagToSet, IsABag
<1>1. IsABag(rules') BY <1>0, <1>a DEF OutsideTables
<1>2. BagToSet(rules') \subseteq BagToSet(rules) BY <1>a DEF OutsideTables
<1>3. NoDuplicateRule' BY <1>0, <1>a DEF OutsideTables, NoDuplicateRule
<1>4. sandbox_ports' = sandbox_ports /\ \A r \in sandboxes' : \E s \in sandboxes : SameHolding(r, s)
  BY DEF OutsideTables
<1>5. Recorded'
  <2> SUFFICES ASSUME NEW f \in BagToSet(rules') PROVE \E r \in sandboxes' : f \in RowRules(r)' BY DEF Recorded
  <2>1. PICK s \in sandboxes : f \in RowRules(s) BY <1>0, <1>2 DEF Recorded
  <2>2. PICK r \in sandboxes' : SameHolding(r, s) BY DEF OutsideTables
  <2>3. RowRules(r)' = RowRules(s) BY <1>4, <2>2 DEF SameHolding, RowRules, Ports
  <2> QED BY <2>1, <2>3
<1>6. ASSUME NEW q \in Goroutines PROVE RulesAt(q)'
  <2> DEFINE x == proc[q]
             y == proc'[q]
  <2>0. RulesAt(q) BY DEF RulesInv
  <2>1. CASE Kept(x, y)
    <3>1. y.ctx # "cancelled" => x.ctx # "cancelled" BY <2>1 DEF Kept
    <3>2. y.pc \notin NoCopy => \A r \in sandboxes' : r.id = y.id => r.ip = y.sb.ip /\ r.port = y.sb.port
      BY <1>4, <2>0, <2>1 DEF Kept, RulesAt, SameHolding
    <3>3. NoRules(x.id) => \A f \in BagToSet(rules'), r \in sandboxes' : r.id = y.id => f.ip # r.ip
      BY <1>2, <1>4, <2>1 DEF Kept, NoRules, SameHolding
    <3> QED BY <1>2, <1>4, <2>0, <2>1, <3>1, <3>2, <3>3 DEF Kept, RulesAt, NoRules
  <2>2. CASE Begins(y)
    <3>1. y.pc \notin NoCopy => \A r \in sandboxes' : r.id = y.id => r.ip = y.sb.ip /\ r.port = y.sb.port
      <4> SUFFICES ASSUME y.pc \notin NoCopy, NEW r \in sandboxes', r.id = y.id
                   PROVE  r.ip = y.sb.ip /\ r.port = y.sb.port
        OBVIOUS
      <4>1. y.sb \in sandboxes /\ y.sb.id = y.id BY <2>2 DEF Begins, EnterPCs, NoCopy, NoSandbox, FanoutPCs
      <4>2. PICK s \in sandboxes : SameHolding(r, s) BY <1>4
      <4>3. s = y.sb BY <4>1, <4>2, OneRow DEF SnapInv, SameHolding
      <4> QED BY <4>2, <4>3 DEF SameHolding
    <3>2. y.pc \notin Undressed \cup Cleared \cup Listed \cup {"finish_start", "stop_force", "add_forward", "delete_port"}
      BY <2>2 DEF Begins, EnterPCs, Undressed, Cleared, Listed
    <3> QED BY <1>4, <2>2, <3>1, <3>2 DEF Begins, RulesAt
  <2> QED BY <2>1, <2>2 DEF OutsideLocals
<1> QED BY <1>1, <1>3, <1>5, <1>6 DEF RulesInv, IsABag

\* Rules are right always, when iptables commands fail as a whole.
LEMMA RulesInvariant == Careful /\ "forward_partial" \notin Faults => (SnapSpec => []RulesInv)
<1> SUFFICES ASSUME Careful, "forward_partial" \notin Faults PROVE SnapSpec => []RulesInv OBVIOUS
<1>1. SnapInit => RulesInv
  <2> SUFFICES ASSUME SnapInit PROVE RulesInv OBVIOUS
  <2>1. rules = EmptyBag /\ \A p \in Goroutines : proc[p].pc = "idle" BY IdleFacts DEF SnapInit, Init
  <2>2. IsABag(rules) /\ BagToSet(rules) = {} BY <2>1 DEF EmptyBag, SetToBag, BagToSet, IsABag
  <2>3. \A p \in Goroutines : RulesAt(p)
    BY <2>1 DEF RulesAt, NoCopy, NoSandbox, Tail, Undressed, Cleared, Listed
  <2> QED BY <2>2, <2>3 DEF RulesInv, NoDuplicateRule, Recorded
<1>2. SnapInv /\ SnapInv' /\ DiskInv /\ RulesInv /\ [SnapNext]_allVars => RulesInv'
  <2> SUFFICES ASSUME SnapInv, SnapInv', DiskInv, RulesInv, [SnapNext]_allVars PROVE RulesInv' OBVIOUS
  <2>1. ASSUME NEW p \in Goroutines, Handles(p) PROVE RulesInv' BY <2>1, HandlerRules DEF Works
  <2>2. CASE ~\E p \in Goroutines : Handles(p) BY <2>2, OtherLocals, OtherTables, OutsideRules
  <2> QED BY <2>1, <2>2
<1> QED BY <1>1, <1>2, SnapshotsInvariant, DiskInvariant, PTL DEF SnapSpec

\* At every moment a tap or a DNAT rule on the host is one that some row accounts
\* for, also with sandboxes that are restored or fanned out, whatever fails or
\* crashes: the row is written before the first device is made and deleted after
\* the last is gone on each of the rollbacks of restore and of a clone
\* (snapshot.go:150-199, 364-385).  Clients leave a sandbox that another call is at
\* work on alone, and no iptables command fails half-way.
THEOREM SnapshotsKernelStateRecorded ==
    ASSUME Careful, "forward_partial" \notin Faults PROVE SnapSpec => []KernelStateRecorded
<1>1. TapsRight /\ RulesInv => KernelStateRecorded BY DEF TapsRight, RulesInv, Recorded, KernelStateRecorded
<1> QED BY <1>1, TapsInvariant, RulesInvariant, PTL

\* No rule is in the kernel twice, so that the destroy of a restored sandbox or of a
\* clone, which takes one copy away, leaves nothing that forwards to the next
\* holder of its address; under the same conditions.
THEOREM SnapshotsNoDuplicateRule ==
    ASSUME Careful, "forward_partial" \notin Faults PROVE SnapSpec => []NoDuplicateRule
<1>1. RulesInv => NoDuplicateRule BY DEF RulesInv
<1> QED BY <1>1, RulesInvariant, PTL

-----------------------------------------------------------------------------
(* What a client was told stays true *)

\* The steps of the calls that leave a sandbox whole; those of a sandbox that
\* comes up.  What makes a sandbox whole, beyond what holds of every one.
Gentle == {"get_row", "add_port", "add_forward", "delete_port"} \cup Snapshotting
Booted == UpPCs \cup {"wait_agent"}
Forwarded == {"finish_start", "record_clone", "store", "wait_agent"}
Served(id) ==
    /\ id \in machines
    /\ \E v \in vms : v.id = id /\ OnBridge(v) /\ v.ip = Addr(v)
    /\ \A r \in sandboxes : r.id = id => Primary(r) \subseteq BagToSet(rules)

\* Sandboxes that were answered with 201 are served, by calls that leave them whole,
\* until the server stops; one that comes up has its rules, its VM belongs to the
\* running server, and its machine is stored before its agent is waited for.
ServedInv ==
    /\ serving # {} => main = "serve"
    /\ \A id \in serving : Served(id)
    /\ \A p \in Goroutines : proc[p].id \in serving => proc[p].pc \in Gentle
    /\ \A p \in Goroutines : proc[p].pc \in Forwarded /\ main # "stop_all" => Primary(proc[p].sb) \subseteq BagToSet(rules)
    /\ \A p \in Goroutines, v \in vms : proc[p].pc \in Booted /\ v.id = proc[p].id => main = "serve" /\ v.run = crashes
    /\ \A p \in Goroutines : proc[p].pc = "wait_agent" /\ main # "stop_all" => proc[p].id \in machines

\* A sandbox that is served is whole.
LEMMA ServedWhole == ASSUME SnapInv, DiskInv, BridgeInv, NEW id, Served(id) PROVE Whole(id)
<1>1. id \in machines /\ \A r \in sandboxes : r.id = id => Primary(r) \subseteq BagToSet(rules) BY DEF Served
<1>2. PICK v \in vms : v.id = id /\ OnBridge(v) /\ v.ip = Addr(v) BY DEF Served
<1>3. v.dev = id BY <1>2, BridgedRow
<1>4. PICK r \in sandboxes : r.id = id /\ r.tap = v.tap /\ r.ip = Addr(v) BY <1>2, BridgedRow
<1>5. Up(id) BY <1>1 DEF Up
<1>6. PICK s \in sandboxes : s.id = id /\ s.rootfs = v.disk BY <1>2, <1>5 DEF DiskInv, VmsRight
<1>7. r = s BY <1>4, <1>6, OneRow DEF SnapInv
<1>8. r.rootfs \in DOMAIN disks BY <1>4, <1>5 DEF DiskInv, FilesRight
<1>9. Forward(r.port, r.ip, PrimaryPort) \subseteq BagToSet(rules) BY <1>1, <1>4 DEF Primary
<1> QED BY <1>1, <1>2, <1>3, <1>4, <1>6, <1>7, <1>8, <1>9 DEF Whole

\* Only the wait for the agent adds a sandbox, one that nobody else is at work on;
\* a destroy that has read the row takes it off.
StepServing(p) ==
    LET x == proc[p]
        y == proc'[p] IN
    /\ \A id \in serving' :
          \/ id \in serving
          \/ /\ x.pc = "wait_agent" /\ y.pc = "idle" /\ id = x.id
             /\ AgentAnswers(x.sb.ip) /\ WorkingOn(id) = {p} /\ Get(id) # {}
    /\ x.pc = "get_row" /\ y.pc = "read_ports" => x.id \notin serving'

\* So every handler's step does.
LEMMA ServingStep == ASSUME SnapInv, NEW p \in Goroutines, Handles(p) PROVE StepServing(p)
<1> DEFINE x == proc[p]
<1>0. FramesOK BY DEF SnapInv
<1>a. Return(p) => proc'[p].pc = "idle" BY <1>0, JumpLocals
<1>1. CASE WaitForAgent(p)
  <2>1. x.pc = "wait_agent" BY <1>1 DEF WaitForAgent
  <2>2. \/ UNCHANGED serving
        \/ /\ serving' = serving \cup {x.id} /\ Return(p) /\ AgentAnswers(x.sb.ip)
           /\ WorkingOn(x.id) = {p} /\ Get(x.id) # {}
    BY <1>1 DEF WaitForAgent
  <2> QED BY <1>a, <2>1, <2>2 DEF StepServing
<1>2. CASE GetRow(p)
  <2>1. CASE serving' = serving \ {x.id} BY <1>2, <2>1 DEF StepServing
  <2>2. CASE Return(p) /\ UNCHANGED serving BY <1>a, <2>2 DEF StepServing
  <2> QED BY <1>2, <2>1, <2>2 DEF GetRow
<1>3. CASE \/ InsertRow(p) \/ CreateTap(p) \/ StartVM(p) \/ AddPortForward(p) \/ RecordStart(p) \/ StopForce(p)
           \/ StoreMachine(p) \/ ReadPorts(p) \/ TakeMachine(p) \/ WaitVM(p) \/ RemoveForwards(p) \/ DeleteTap(p)
           \/ RemoveRootfs(p) \/ DeleteRow(p) \/ AllocatePort(p) \/ ForwardExtra(p) \/ UndoPort(p)
  <2>1. UNCHANGED serving /\ x.pc # "get_row"
    BY <1>3 DEF InsertRow, CreateTap, StartVM, AddPortForward, RecordStart, StopForce, StoreMachine, ReadPorts,
       TakeMachine, WaitVM, RemoveForwards, DeleteTap, RemoveRootfs, DeleteRow, AllocatePort, ForwardExtra, UndoPort
  <2> QED BY <2>1 DEF StepServing
<1>4. CASE SnapStep(p)
  <2>1. UNCHANGED serving /\ x.pc # "get_row"
    BY <1>4 DEF SnapStep, Pause, WriteMemory, FreezeRootfs, Resume, RecordSnapshot, CleanupSnapshot,
       InsertRestore, CopyRootfs, LoadSnapshot, StatBaked, StageBaked, Unstage, Settle, FanoutDone, CloneRow,
       CloneRootfs, CreateTapUnbridged, StartClone, AttachTapToBridge, ForwardClone, RecordClone, StopClone
  <2> QED BY <2>1 DEF StepServing
<1> QED BY <1>1, <1>2, <1>3, <1>4 DEF Handles, Step

\* Before shutdownAll a goroutine with a copy of a row has the row.
LEMMA HasRow ==
    ASSUME SnapInv, DiskInv, RulesInv, NEW p \in Goroutines, main # "stop_all", proc[p].pc \notin NoCopy
    PROVE  /\ proc[p].id # 0
           /\ \E r \in sandboxes : /\ r.id = proc[p].id /\ r.tap = proc[p].sb.tap /\ r.ip = proc[p].sb.ip
                                   /\ Primary(r) = Primary(proc[p].sb)
<1>1. proc[p].sb.id = proc[p].id /\ \E r \in sandboxes : SameSandbox(r, proc[p].sb) BY DEF DiskInv, CopyRight
<1>2. PICK r \in sandboxes : r.id = proc[p].id /\ r.tap = proc[p].sb.tap /\ r.ip = proc[p].sb.ip
  BY <1>1 DEF SameSandbox
<1>3. r.port = proc[p].sb.port BY <1>2 DEF RulesInv, RulesAt
<1>4. proc[p].id # 0 BY IdsTyped DEF NoCopy
<1> QED BY <1>2, <1>3, <1>4 DEF Primary

\* A handler takes away no rule of another's sandbox.
LEMMA PrimaryStays ==
    ASSUME SnapInv, DiskInv, RulesInv, NEW p \in Goroutines, StepRules(p), main # "stop_all",
           NEW s \in sandboxes, Primary(s) \subseteq BagToSet(rules),
           s.id # proc[p].id \/ proc[p].pc \notin {"remove_forwards", "finish_start"}
    PROVE  Primary(s) \subseteq BagToSet(rules')
<1> DEFINE x == proc[p]
<1> SUFFICES ASSUME NEW f \in Primary(s), f \in Deletes(p), x.pc \in {"remove_forwards", "finish_start"} PROVE FALSE
  BY WorkRuleSet
<1>1. x.pc \notin NoCopy BY DEF NoCopy, NoSandbox, FanoutPCs
<1>2. PICK r \in sandboxes : r.id = x.id /\ r.ip = x.sb.ip BY <1>1, HasRow
<1>3. f.ip = s.ip BY ForwardMembers DEF Primary
<1>4. f.ip = x.sb.ip
  <2>1. CASE f \in Primary(x.sb) BY <2>1, ForwardMembers DEF Primary
  <2>2. ASSUME NEW m \in x.extra, f \in Forward(m.host, x.sb.ip, m.guest) PROVE f.ip = x.sb.ip
    BY <2>2, ForwardMembers
  <2> QED BY <2>1, <2>2 DEF Deletes
<1>5. r = s BY <1>2, <1>3, <1>4, OneRow DEF SnapInv
<1> QED BY <1>2, <1>5

\* What another call does leaves a sandbox that is served alone.
LEMMA ServedStays ==
    ASSUME NEW p \in Goroutines, Works(p), BridgeInv, RulesInv, StepRules(p), main # "stop_all", NEW id, Served(id),
           id # proc[p].id \/ proc[p].pc \in Gentle \cup {"wait_agent"}
    PROVE  Served(id)'
<1> DEFINE x == proc[p]
<1>0. SnapInv /\ DiskInv /\ Handles(p) /\ Effects(p) BY WorkEffects DEF Works
<1>1. StepVms(p) /\ StepMachines(p) /\ StepTaps(p) /\ StepTables(p) BY <1>0, TapsStep, TablesStep DEF Effects
<1>2. x.pc \in Gentle \cup {"wait_agent"} =>
        x.pc \notin {"take_machine", "delete_tap", "stop_force", "wait_vm", "stop_clone", "remove_forwards", "finish_start"}
                    \cup Inserts
  BY DEF Gentle, Snapshotting, Inserts
<1>3. id \in machines' BY <1>1, <1>2 DEF Served, StepMachines
<1>4. \E w \in vms' : w.id = id /\ OnBridge(w)' /\ w.ip = Addr(w)
  <2>1. PICK v \in vms : v.id = id /\ OnBridge(v) /\ v.ip = Addr(v) BY DEF Served
  <2>2. PICK w \in vms' : VmKept(x, proc'[p], v, w) BY <1>1, <1>2, <2>1 DEF StepVms
  <2>3. w.id = id /\ w.ip = v.ip /\ w.tap = v.tap /\ w.dev = v.dev BY <2>1, <2>2 DEF VmKept
  <2>4. PICK d \in taps : d = [tap |-> v.tap, owner |-> v.dev, bridged |-> TRUE] BY <2>1 DEF OnBridge
  <2>5. d.tap = v.tap /\ d.bridged BY <2>4
  <2>6. ASSUME x.pc = "delete_tap", d.tap = x.sb.tap PROVE FALSE
    <3>1. PICK r \in sandboxes : r.id = x.id /\ r.tap = x.sb.tap
      BY <1>0, <2>6, HasRow DEF NoCopy, NoSandbox, FanoutPCs
    <3>2. PICK s \in sandboxes : s.id = id /\ s.tap = v.tap BY <1>0, <2>1, BridgedRow
    <3>3. r = s BY <1>0, <2>5, <2>6, <3>1, <3>2, OneRow DEF SnapInv
    <3> QED BY <1>2, <2>6, <3>1, <3>2, <3>3
  <2>7. d \in taps' BY <1>1, <2>5, <2>6 DEF StepTaps
  <2>8. OnBridge(w)' BY <2>3, <2>4, <2>7 DEF OnBridge
  <2> QED BY <2>1, <2>3, <2>8 DEF Addr
<1>5. ASSUME NEW r \in sandboxes', r.id = id PROVE Primary(r) \subseteq BagToSet(rules')
  <2>1. PICK s \in sandboxes : SameHolding(r, s) BY <1>1, <1>2, <1>5 DEF StepTables
  <2>2. s.id = id /\ Primary(s) = Primary(r) BY <1>5, <2>1 DEF SameHolding, Primary
  <2>3. Primary(s) \subseteq BagToSet(rules) BY <2>2 DEF Served
  <2>4. Primary(s) \subseteq BagToSet(rules') BY <1>0, <1>2, <2>2, <2>3, PrimaryStays
  <2> QED BY <2>2, <2>4
<1> QED BY <1>3, <1>4, <1>5 DEF Served, OnBridge, Primary, Addr

\* A guest that answers is the sandbox's own, so that the sandbox is served.
LEMMA AnswerServed ==
    ASSUME SnapInv, DiskInv, BridgeInv, RulesInv, ServedInv, 0 \notin IPs, NEW p \in Goroutines,
           proc[p].pc = "wait_agent", AgentAnswers(proc[p].sb.ip), Get(proc[p].id) # {}
    PROVE  main = "serve" /\ Served(proc[p].id)
<1> DEFINE x == proc[p]
<1>0. x.pc \notin NoCopy BY DEF NoCopy, NoSandbox, FanoutPCs
<1>1. PICK v \in vms : v.ip = x.sb.ip /\ OnBridge(v) BY DEF AgentAnswers
<1>2. x.sb.ip # 0 BY <1>0 DEF SnapInv, FramesOK, SnapLocal, Sandbox
<1>3. v.ip = Addr(v) BY <1>1, <1>2, BridgedRow
<1>4. PICK r \in sandboxes : r.id = v.id /\ r.ip = Addr(v) BY <1>1, BridgedRow
<1>5. \A s \in sandboxes : s.id = x.id => s.ip = x.sb.ip /\ s.port = x.sb.port BY <1>0 DEF RulesInv, RulesAt
<1>6. PICK s \in sandboxes : s.id = x.id BY DEF Get
<1>7. r = s BY <1>1, <1>3, <1>4, <1>5, <1>6, OneRow DEF SnapInv
<1>8. v.id = x.id BY <1>4, <1>6, <1>7
<1>9. main = "serve" BY <1>8 DEF ServedInv, Booted
<1>10. x.id \in machines /\ Primary(x.sb) \subseteq BagToSet(rules) BY <1>9 DEF ServedInv, Forwarded
<1>11. \A t \in sandboxes : t.id = x.id => Primary(t) = Primary(x.sb) BY <1>5 DEF Primary
<1> QED BY <1>1, <1>3, <1>8, <1>9, <1>10, <1>11 DEF Served

\* A goroutine that does not step stays, but for clones that its fan-out moves.
LEMMA OtherSame ==
    ASSUME SnapInv, NEW p \in Goroutines, Handles(p), NEW q \in Goroutines \ {p}
    PROVE  /\ proc'[q].pc \in Forwarded \cup Gentle => proc'[q] = proc[q]
           /\ proc'[q].pc \in Booted => proc[q].pc \in Booted /\ proc'[q].id = proc[q].id
           /\ proc'[q].id = proc[q].id \/ proc'[q].id = 0
           /\ proc[q].pc \in Gentle => proc'[q] = proc[q]
<1>1. proc'[q] = proc[q] \/ CloneGoes(proc[q], proc'[q]) BY HandlerWalks DEF StepProc
<1>2. CASE proc'[q] = proc[q] BY <1>2
<1>3. CASE proc[q].pc = "not_started" /\ (proc'[q] = Idle \/ (proc'[q].pc = "clone_row" /\ Same(proc[q], proc'[q])))
  BY <1>3, IdleFacts DEF Same, Keeps, Forwarded, Gentle, Snapshotting, Booted, UpPCs
<1>4. CASE proc[q].pc = "loaded" /\ proc'[q].pc = "bridge" /\ Same(proc[q], proc'[q])
  BY <1>4 DEF Same, Keeps, Forwarded, Gentle, Snapshotting, Booted, UpPCs
<1> QED BY <1>1, <1>2, <1>3, <1>4 DEF CloneGoes

\* What a client was told stays true when a handler steps.
LEMMA HandlerServed ==
    ASSUME NEW p \in Goroutines, Works(p), BridgeInv, RulesInv, ServedInv, "forward_partial" \notin Faults, 0 \notin IPs
    PROVE  ServedInv'
<1> DEFINE x == proc[p]
           y == proc'[p]
<1>0. SnapInv /\ SnapInv' /\ DiskInv /\ Handles(p) /\ Effects(p) BY WorkEffects DEF Works
<1>1. /\ StepRules(p) /\ StepServing(p) /\ StepVms(p) /\ StepMachines(p) /\ Walk(p, p) /\ Edge(x.pc, y.pc)
      /\ main' = main /\ crashes' = crashes
  BY <1>0, RulesStep, ServingStep DEF Effects, StepElsewhere, Walk
<1>2. 0 \notin machines /\ 0 \notin machines' BY <1>0, IdsTyped DEF SnapInv, HostTyped, MemoryTyped
<1>3. ASSUME NEW id \in serving', id \notin serving
      PROVE  /\ main = "serve" /\ Served(id) /\ id = x.id /\ x.pc = "wait_agent" /\ y.pc = "idle"
             /\ WorkingOn(id) = {p}
  BY <1>0, <1>1, <1>3, AnswerServed DEF StepServing
<1>4. ASSUME NEW id \in serving' PROVE main' = "serve" /\ Served(id)'
  <2>1. main = "serve" /\ Served(id) BY <1>3 DEF ServedInv
  <2>2. id # x.id \/ x.pc \in Gentle \cup {"wait_agent"} BY <1>3 DEF ServedInv
  <2>3. Served(id)' BY <1>1, <2>1, <2>2, ServedStays
  <2> QED BY <1>1, <2>1, <2>3
<1>5. 0 \notin serving' BY <1>2, <1>4 DEF Served
<1>6. ASSUME NEW q \in Goroutines, proc'[q].id \in serving' PROVE proc'[q].pc \in Gentle
  <2>1. CASE q = p
    <3>1. y.pc # "idle" /\ y.id = x.id BY <1>1, <1>5, <1>6, <2>1 DEF Walk
    <3>2. x.id \in serving BY <1>3, <1>6, <2>1, <3>1
    <3>3. x.pc \in Gentle BY <3>2 DEF ServedInv
    <3>4. ~(x.pc = "get_row" /\ y.pc = "read_ports") BY <1>1, <1>6, <2>1, <3>1 DEF StepServing
    <3> QED BY <1>1, <2>1, <3>1, <3>3, <3>4 DEF Edge, Gentle, Snapshotting
  <2>2. CASE q # p
    <3>1. proc'[q].id = proc[q].id BY <1>0, <1>5, <1>6, <2>2, OtherSame
    <3>2. proc[q].id \in serving
      <4>1. CASE proc'[q].id \notin serving
        <5>1. WorkingOn(proc[q].id) = {p} BY <1>3, <1>6, <3>1, <4>1
        <5> QED BY <2>2, <5>1 DEF WorkingOn
      <4> QED BY <3>1, <4>1
    <3>3. proc[q].pc \in Gentle BY <3>2 DEF ServedInv
    <3> QED BY <1>0, <2>2, <3>3, OtherSame
  <2> QED BY <2>1, <2>2
<1>7. ASSUME NEW q \in Goroutines, proc'[q].pc \in Forwarded, main' # "stop_all"
      PROVE  Primary(proc'[q].sb) \subseteq BagToSet(rules')
  <2>0. proc'[q].pc \notin NoCopy BY <1>7 DEF Forwarded, NoCopy, NoSandbox, FanoutPCs
  <2>1. CASE q # p
    <3>1. proc'[q] = proc[q] BY <1>0, <1>7, <2>1, OtherSame
    <3>2. PICK s \in sandboxes : s.id = proc[q].id /\ Primary(s) = Primary(proc[q].sb)
      BY <1>0, <1>1, <1>7, <2>0, <3>1, HasRow
    <3>3. proc[q].id # 0 BY <1>0, <1>1, <1>7, <2>0, <3>1, HasRow
    <3>4. s.id # x.id BY <1>0, <1>1, <1>7, <2>1, <3>2, <3>3 DEF DiskInv, Alone
    <3>5. Primary(s) \subseteq BagToSet(rules) BY <1>1, <1>7, <3>1, <3>2 DEF ServedInv
    <3> QED BY <1>0, <1>1, <1>7, <3>1, <3>2, <3>4, <3>5, PrimaryStays
  <2>2. CASE q = p
    <3>1. y.sb = x.sb BY <1>1, <1>7, <2>0, <2>2 DEF Walk, Edge, Forwarded, Reads
    <3>2. CASE x.pc \in {"forward", "forward_clone"}
      <4>1. Appends(p) = Primary(x.sb) BY <3>2 DEF Appends
      <4>2. BagToSet(rules') = BagToSet(rules) \cup Appends(p)
        BY <1>0, <1>1, <1>7, <2>2, <3>2, WorkRuleSet DEF Edge, Forwarded
      <4> QED BY <2>2, <3>1, <4>1, <4>2
    <3>3. CASE x.pc \in Forwarded
      <4>1. Primary(x.sb) \subseteq BagToSet(rules) BY <1>1, <1>7, <3>3 DEF ServedInv
      <4>2. BagToSet(rules') = BagToSet(rules)
        BY <1>0, <1>1, <1>7, <2>2, <3>3, WorkRuleSet DEF Forwarded
      <4> QED BY <2>2, <3>1, <4>1, <4>2
    <3> QED BY <1>1, <1>7, <2>2, <3>2, <3>3 DEF Edge, Forwarded
  <2> QED BY <2>1, <2>2
<1>8. ASSUME NEW q \in Goroutines, NEW w \in vms', proc'[q].pc \in Booted, w.id = proc'[q].id
      PROVE  main' = "serve" /\ w.run = crashes'
  <2>1. CASE VmNew(x, y, w) BY <1>1, <2>1 DEF VmNew
  <2>2. ASSUME NEW v \in vms, VmKept(x, y, v, w) PROVE main = "serve" /\ w.run = crashes
    <3>1. v.id = w.id /\ v.run = w.run BY <2>2 DEF VmKept
    <3>2. proc[q].pc \in Booted /\ proc[q].id = w.id
      <4>1. CASE q # p BY <1>0, <1>8, <4>1, OtherSame
      <4>2. CASE q = p
        <5>1. y.id = x.id BY <1>1, <1>8, <4>2 DEF Walk, Booted, UpPCs
        <5>2. x.pc \notin Unlaunched BY <1>0, <1>8, <3>1, <4>2, <5>1 DEF DiskInv, VmsRight
        <5>3. x.pc \in Booted BY <1>1, <1>8, <4>2, <5>2 DEF Edge, Booted, UpPCs, Unlaunched
        <5> QED BY <1>8, <4>2, <5>1, <5>3
      <4> QED BY <4>1, <4>2
    <3> QED BY <3>1, <3>2 DEF ServedInv
  <2> QED BY <1>1, <2>1, <2>2 DEF StepVms
<1>9. ASSUME NEW q \in Goroutines, proc'[q].pc = "wait_agent", main' # "stop_all" PROVE proc'[q].id \in machines'
  <2>1. CASE q = p
    <3>1. x.pc = "store" /\ y.id = x.id BY <1>1, <1>9, <2>1 DEF Edge, Walk
    <3> QED BY <1>1, <2>1, <3>1 DEF StepMachines
  <2>2. CASE q # p
    <3>1. proc'[q] = proc[q] BY <1>0, <1>9, <2>2, OtherSame DEF Forwarded
    <3>2. proc[q].id \in machines BY <1>1, <1>9, <3>1 DEF ServedInv
    <3>3. proc[q].id # x.id BY <1>0, <1>1, <1>2, <1>9, <2>2, <3>2 DEF DiskInv, Alone
    <3> QED BY <1>1, <3>1, <3>2, <3>3 DEF StepMachines
  <2> QED BY <2>1, <2>2
<1> QED BY <1>4, <1>6, <1>7, <1>8, <1>9 DEF ServedInv, Served, Primary, OnBridge, Addr

\* Outside of the handlers a sandbox that stays served keeps its machine, its device,
\* its rules and its VM, whose guest may only thaw; the process or the VMs of its
\* run go before a server that serves does anything else.
OutsideServed ==
    /\ \A id \in serving' :
          /\ id \in serving /\ UNCHANGED <<main, machines, taps, rules>>
          /\ \A v \in vms : v.id = id =>
                \E w \in vms' : w.id = v.id /\ w.tap = v.tap /\ w.dev = v.dev /\ (w.ip = v.ip \/ Thawing(v))
    /\ rules' = rules \/ \A q \in Goroutines : proc'[q] = Idle
    /\ \A w \in vms' : \E v \in vms : w.id = v.id /\ w.run = v.run
    /\ \/ UNCHANGED <<main, crashes>> \/ main # "serve"
       \/ \A w \in vms' : w.run # crashes
       \/ \A q \in Goroutines : proc'[q] = Idle

\* So it is.
LEMMA OtherServed ==
    ASSUME SnapInv, DiskInv, ServedInv, [SnapNext]_allVars, ~\E p \in Goroutines : Handles(p) PROVE OutsideServed
<1>0. serving # {} => main = "serve" BY DEF ServedInv
<1>a. \A v \in vms : v \in VM BY DEF SnapInv, HostTyped, VmsTyped
<1>1. CASE UNCHANGED <<main, crashes, machines, taps, rules, vms, serving>> BY <1>1 DEF OutsideServed
<1>2. CASE (\A q \in Goroutines : proc'[q] = Idle) /\ serving' = {} /\ vms' \subseteq vms BY <1>2 DEF OutsideServed
<1>3. CASE main # "serve" /\ serving' = serving /\ rules' = rules /\ vms' \subseteq vms
  BY <1>0, <1>3 DEF OutsideServed
<1>4. CASE Arrival
  BY <1>1, <1>4 DEF Arrival, PrepareRootfs, DestroyArrives, ExposeArrives, hostVars, memVars, envVars
<1>5. CASE SnapArrival
  <2>1. PICK p \in Requests :
          \/ \E id \in Ids, sid \in SnapIds : SnapshotArrives(p, id, sid)
          \/ \E s \in snapshots :
                \/ DeleteSnapshotRow(p, s)
                \/ \E timeout \in Timeouts : RestoreArrives(p, s, timeout)
                \/ \E n \in Counts, timeout \in Timeouts : FanoutArrives(p, s, n, timeout)
    BY <1>5 DEF SnapArrival
  <2>2. UNCHANGED <<main, crashes, machines, taps, rules, vms, serving>>
    BY <2>1 DEF SnapshotArrives, DeleteSnapshotRow, RestoreArrives, FanoutArrives, hostVars, memVars, envVars
  <2> QED BY <1>1, <2>2
<1>6. CASE Restart \/ Listen \/ ReconcileNext \/ ShutdownAll
  BY <1>3, <1>6 DEF Restart, Listen, ReconcileNext, ShutdownAll, hostVars
<1>7. CASE Exit \/ Crash \/ Reboot BY <1>2, <1>7 DEF Exit, Crash, Reboot, ProcessGone, hostVars
<1>8. CASE Stop BY <1>8 DEF Stop, OutsideServed
<1>9. CASE Tick \/ UNCHANGED allVars \/ (\E p \in Requests : Disconnect(p))
           \/ \E id \in Ids, timeout \in Timeouts : SetTimeout(id, timeout)
  BY <1>1, <1>9 DEF Tick, Disconnect, SetTimeout, allVars, vars, hostVars, memVars, envVars
<1>10. ASSUME NEW v \in vms, VMExit(v) PROVE OutsideServed
  BY <1>10 DEF VMExit, OutsideServed, memVars, envVars
<1>11. ASSUME NEW v \in vms, NEW w, vms' = Updated(v, w), UNCHANGED <<main, crashes, machines, taps, rules, serving>>,
              w.id = v.id, w.run = v.run, w.tap = v.tap, w.dev = v.dev, w.ip = v.ip \/ Thawing(v)
       PROVE  OutsideServed
  BY <1>11 DEF OutsideServed, Updated
<1>12. ASSUME NEW v \in vms, Thaw(v) PROVE OutsideServed
  <2>1. PICK ip \in {0, v.mmds} : vms' = Updated(v, [v EXCEPT !.ip = ip]) BY <1>12 DEF Thaw
  <2>2. PICK w : w = [v EXCEPT !.ip = ip] OBVIOUS
  <2>3. w.id = v.id /\ w.run = v.run /\ w.tap = v.tap /\ w.dev = v.dev BY <1>a, <2>2 DEF VM
  <2>4. Thawing(v) /\ UNCHANGED <<main, crashes, machines, taps, rules, serving>>
    BY <1>12 DEF Thaw, memVars, envVars
  <2> QED BY <1>11, <2>1, <2>2, <2>3, <2>4
<1>13. ASSUME NEW v \in vms, GuestWrites(v) PROVE OutsideServed
  <2>1. PICK w : w = [v EXCEPT !.ver = @ + 1] OBVIOUS
  <2>2. w.id = v.id /\ w.run = v.run /\ w.tap = v.tap /\ w.dev = v.dev /\ w.ip = v.ip BY <1>a, <2>1 DEF VM
  <2>3. vms' = Updated(v, w) /\ UNCHANGED <<main, crashes, machines, taps, rules, serving>>
    BY <1>13, <2>1 DEF GuestWrites, memVars, envVars
  <2> QED BY <1>11, <2>2, <2>3
<1>14. CASE ReaperTick \/ ReapNext BY <1>14, ReaperIdle
<1> QED BY <1>4, <1>5, <1>6, <1>7, <1>8, <1>9, <1>10, <1>12, <1>13, <1>14
        DEF SnapNext, Next, Serve, Environment, GuestStep, Handles

\* Then what a client was told stays true.
LEMMA OutsideServing ==
    ASSUME Outside, OutsideLocals, OutsideTables, OutsideServed, BridgeInv, ServedInv PROVE ServedInv'
<1>0. SnapInv /\ DiskInv /\ OutsideProc /\ Quiet BY DEF Outside, DiskInv
<1>1. 0 \notin machines BY <1>0, IdsTyped DEF SnapInv, HostTyped, MemoryTyped
<1>2. ASSUME NEW id \in serving' PROVE main = "serve" /\ main' = "serve" /\ id \in serving /\ Served(id) /\ Served(id)'
  <2>1. id \in serving /\ UNCHANGED <<main, machines, taps, rules>> BY <1>2 DEF OutsideServed
  <2>2. main = "serve" /\ Served(id) BY <2>1 DEF ServedInv
  <2>3. PICK v \in vms : v.id = id /\ OnBridge(v) /\ v.ip = Addr(v) BY <2>2 DEF Served
  <2>4. ~Thawing(v) BY <2>3 DEF BridgeInv, GuestsRight
  <2>5. PICK w \in vms' : w.id = id /\ w.tap = v.tap /\ w.dev = v.dev /\ w.ip = v.ip
    BY <1>2, <2>3, <2>4 DEF OutsideServed
  <2>6. w.ip = Addr(w) /\ OnBridge(w)' BY <2>1, <2>3, <2>5 DEF Addr, OnBridge
  <2>7. ASSUME NEW r \in sandboxes', r.id = id PROVE Primary(r) \subseteq BagToSet(rules')
    <3>1. PICK s \in sandboxes : SameHolding(r, s) BY DEF OutsideTables
    <3>2. s.id = id /\ Primary(r) = Primary(s) BY <2>7, <3>1 DEF SameHolding, Primary
    <3> QED BY <2>1, <2>2, <3>2 DEF Served
  <2>8. Served(id)' BY <2>1, <2>2, <2>5, <2>6, <2>7 DEF Served, Addr, Primary
  <2> QED BY <2>1, <2>2, <2>8
<1>3. ASSUME NEW q \in Goroutines, proc'[q].id \in serving' PROVE proc'[q].pc \in Gentle
  <2> DEFINE x == proc[q]
             y == proc'[q]
  <2>1. y.id \in serving /\ y.id \in machines /\ main = "serve" BY <1>2, <1>3 DEF Served
  <2>2. CASE Kept(x, y) BY <2>1, <2>2 DEF Kept, ServedInv
  <2>3. CASE Begins(y)
    <3>1. y.pc \notin NoSandbox BY <1>1, <2>1, <2>3 DEF Begins
    <3>2. y.pc # "read_ports" /\ y.pc \in EnterPCs \cup {"idle"} BY <2>1, <2>3 DEF Begins
    <3>3. CASE y.pc \in {"insert_row", "insert_restore", "not_started"}
      <4>1. CASE Alike(x, y) BY <2>1, <3>3, <4>1 DEF Alike, Same, Keeps, ServedInv
      <4>2. CASE Enter(q, y)
        <5>1. nextId <= y.id BY <3>3, <4>2 DEF Enter
        <5>2. y.id < nextId BY <1>0, <2>1 DEF Quiet
        <5>3. y.id \in Int /\ nextId \in Int BY <1>0, <2>1, IdsTyped DEF SnapInv, HostTyped, MemoryTyped
        <5> QED BY <5>1, <5>2, <5>3
      <4>3. y # Idle BY <3>3, IdleFacts
      <4> QED BY <1>0, <4>1, <4>2, <4>3 DEF OutsideProc
    <3>4. CASE y.pc \in {"get_row", "add_port", "pause"} BY <3>4 DEF Gentle, Snapshotting
    <3> QED BY <3>1, <3>2, <3>3, <3>4 DEF EnterPCs, NoSandbox, FanoutPCs
  <2> QED BY <2>2, <2>3 DEF OutsideLocals
<1>4. ASSUME NEW q \in Goroutines, proc'[q].pc \in Forwarded \cup Booted
      PROVE  Kept(proc[q], proc'[q]) /\ proc'[q] # Idle
  <2>1. proc'[q].pc \notin EnterPCs \cup {"idle"} BY <1>4 DEF Forwarded, Booted, UpPCs, EnterPCs
  <2> QED BY <2>1, IdleFacts DEF OutsideLocals, Begins
<1>5. ASSUME NEW q \in Goroutines, proc'[q].pc \in Forwarded, main' # "stop_all"
      PROVE  Primary(proc'[q].sb) \subseteq BagToSet(rules') /\ (proc'[q].pc = "wait_agent" => proc'[q].id \in machines')
  <2>1. Kept(proc[q], proc'[q]) /\ proc'[q] # Idle BY <1>4, <1>5
  <2>2. main # "stop_all" /\ machines' = machines /\ rules' = rules BY <1>0, <1>5, <2>1 DEF OutsideProc, OutsideServed
  <2> QED BY <1>5, <2>1, <2>2 DEF Kept, ServedInv
<1>6. ASSUME NEW q \in Goroutines, NEW w \in vms', proc'[q].pc \in Booted, w.id = proc'[q].id
      PROVE  main' = "serve" /\ w.run = crashes'
  <2>1. Kept(proc[q], proc'[q]) /\ proc'[q] # Idle BY <1>4, <1>6
  <2>2. PICK v \in vms : w.id = v.id /\ w.run = v.run BY DEF OutsideServed
  <2>3. main = "serve" /\ w.run = crashes BY <1>6, <2>1, <2>2 DEF Kept, ServedInv
  <2>4. UNCHANGED <<main, crashes>> BY <2>1, <2>3 DEF OutsideServed
  <2> QED BY <2>3, <2>4
<1> QED BY <1>2, <1>3, <1>5, <1>6 DEF ServedInv, Served, Primary, OnBridge, Addr, Forwarded

\* A sandbox that a client was told of is served, always.
LEMMA ServedInvariant ==
    Careful /\ "late_thaw" \notin Faults /\ "forward_partial" \notin Faults /\ 0 \notin IPs =>
        (SnapSpec => []ServedInv)
<1> SUFFICES ASSUME Careful, "late_thaw" \notin Faults, "forward_partial" \notin Faults, 0 \notin IPs
             PROVE  SnapSpec => []ServedInv
  OBVIOUS
<1>1. SnapInit => ServedInv
  <2> SUFFICES ASSUME SnapInit PROVE ServedInv OBVIOUS
  <2>1. serving = {} /\ vms = {} /\ \A p \in Goroutines : proc[p].pc = "idle" BY IdleFacts DEF SnapInit, Init
  <2> QED BY <2>1 DEF ServedInv, Forwarded
<1>2. SnapInv /\ SnapInv' /\ DiskInv /\ BridgeInv /\ RulesInv /\ ServedInv /\ [SnapNext]_allVars => ServedInv'
  <2> SUFFICES ASSUME SnapInv, SnapInv', DiskInv, BridgeInv, RulesInv, ServedInv, [SnapNext]_allVars PROVE ServedInv'
    OBVIOUS
  <2>1. ASSUME NEW p \in Goroutines, Handles(p) PROVE ServedInv' BY <2>1, HandlerServed DEF Works
  <2>2. CASE ~\E p \in Goroutines : Handles(p)
    <3>1. Outside BY <2>2, OtherOutside
    <3>2. OutsideLocals /\ OutsideTables /\ OutsideServed BY <2>2, OtherLocals, OtherTables, OtherServed
    <3> QED BY <3>1, <3>2, OutsideServing
  <2> QED BY <2>1, <2>2
<1> QED BY <1>1, <1>2, SnapshotsInvariant, DiskInvariant, BridgeInvariant, RulesInvariant, PTL DEF SnapSpec

\* A sandbox that a create, a restore or a fan-out answered with 201 stays whole - its
\* machine, its VM on the bridge with its own address and disk, its row, its primary
\* rule - until it is destroyed, its VM exits or the server stops (README.md:31):
\* nothing that another call does, fails at or rolls back takes a part of it away.
\* Clients leave a sandbox that another call is at work on alone, clones thaw before
\* they are bridged and no iptables command fails half-way.
THEOREM SnapshotsServingWhole ==
    ASSUME Careful, "late_thaw" \notin Faults, "forward_partial" \notin Faults, 0 \notin IPs
    PROVE  SnapSpec => []ServingWhole
<1>1. SnapInv /\ DiskInv /\ BridgeInv /\ ServedInv => ServingWhole
  BY ServedWhole DEF ServedInv, ServingWhole
<1> QED BY <1>1, SnapshotsInvariant, DiskInvariant, BridgeInvariant, ServedInvariant, PTL
=============================================================================
