----------------------------- MODULE Snapshots -----------------------------
(***************************************************************************)
(* The snapshot handlers of internal/server/snapshot.go beside the ones of *)
(* Lifecycle: handleSnapshot, handleRestore, handleFanout with its clones, *)
(* handleDeleteSnapshot, and the thaw agent of cmd/sandboxd/thaw.go that   *)
(* gives a clone its own address.                                          *)
(*                                                                         *)
(* What a guest has done is a number: its memory holds it (ver of the VM)  *)
(* and so does the disk file it writes (disks).  A snapshot whose memory   *)
(* and disk hold different numbers is torn, and so is a VM whose disk file *)
(* was replaced under it.                                                  *)
(***************************************************************************)
EXTENDS Lifecycle

CONSTANTS
    Counts,   \* the clone counts clients ask for
    MaxWrites \* bound on what a guest does

ASSUME SnapshotsAssumption == Counts \subseteq Nat \ {0} /\ MaxWrites \in Nat

VARIABLES
    files \* host: snapshot directories, what mem.bin and rootfs.ext4 hold

allVars == <<vars, files>>

FanoutPCs == {"stat_baked", "stage", "bring_up", "settle", "finish_clones"}
RestorePCs == {"insert_restore", "copy_rootfs", "create_tap", "start_vm", "forward", "finish_start",
               "stop_force", "store", "delete_tap", "remove_rootfs", "delete_row"}

Absent == -1
NoDir == [dir |-> FALSE, mem |-> Absent, disk |-> Absent]

\* No goroutine, row or directory has the id: a fresh uuid.
Unused(sid) ==
    /\ GetSnapshot(sid) = {} /\ files[sid] = NoDir
    /\ \A p \in Goroutines : proc[p].snap.id # sid

VMof(id) == {v \in vms : v.id = id}
Updated(v, w) == (vms \ {v}) \cup {w}

\* A handler at work with a snapshot of this disk path.
RestoreAtWork(path) ==
    \E p \in Requests :
        proc[p].snap # NoRow /\ proc[p].pc \in RestorePCs /\ proc[p].snap.rootfs = path
FanoutAtWork(path) ==
    \E p \in Requests : proc[p].pc \in FanoutPCs /\ proc[p].snap.rootfs = path

-----------------------------------------------------------------------------
(* handleSnapshot *)

\* Get, machines.Load and SnapshotPaths.
SnapshotArrives(p, id, sid) ==
    /\ "snapshot" \in ClientOps /\ main = "serve" /\ IsIdle(p) /\ Addressable(id)
    /\ id \in machines /\ Unused(sid)
    /\ files' = [files EXCEPT ![sid].dir = TRUE]
    /\ LET sb == RowOf(id, sandboxes) IN
       proc' = [proc EXCEPT ![p] = [Idle EXCEPT !.pc = "pause", !.id = id, !.sb = sb, !.ctx = "request",
                    !.snap = [id |-> sid, source |-> id, tap |-> sb.tap, ip |-> sb.ip,
                              rootfs |-> sb.rootfs]]]
    /\ UNCHANGED <<regVars, hostVars, machines, todo, main, envVars, serving>>

\* vm.Pause.  A clone's machine has no SDK handle and cannot be paused.  A call
\* whose client hangs up may take effect although it returns an error.
Pause(p) ==
    LET pausable == {v \in VMof(proc[p].id) : v.mmds = 0} IN
    /\ proc[p].pc = "pause"
    /\ \/ /\ ~Cancelled(p)
          /\ \E v \in pausable : vms' = Updated(v, [v EXCEPT !.paused = TRUE])
          /\ GoTo(p, "write_memory")
       \/ /\ Cancelled(p) \/ Fault("pause") \/ pausable = {}
          /\ Return(p)
          /\ UNCHANGED vms
       \/ /\ Cancelled(p) /\ Fault("late_pause")
          /\ \E v \in pausable : vms' = Updated(v, [v EXCEPT !.paused = TRUE])
          /\ Return(p)
    /\ UNCHANGED <<regVars, taps, rules, disks, machines, todo, main, envVars, serving, files>>

\* A slip: the error path returns before the resume is deferred.
WriteMemoryFreezes(p) ==
    LET ready == {v \in VMof(proc[p].id) : v.paused}
        sid == proc[p].snap.id IN
    /\ proc[p].pc = "write_memory"
    /\ \/ /\ ~Cancelled(p)
          /\ \E v \in ready : files' = [files EXCEPT ![sid].mem = v.ver]
          /\ GoTo(p, "freeze_rootfs")
       \/ /\ Cancelled(p) \/ Fault("snapshot") \/ ready = {}
          /\ files' = [files EXCEPT ![sid] = NoDir]
          /\ Return(p)
    /\ UNCHANGED <<regVars, hostVars, machines, todo, main, envVars, serving>>

\* A slip: the VM is resumed as soon as its memory is written.
WriteMemoryThenResume(p) ==
    LET ready == {v \in VMof(proc[p].id) : v.paused}
        sid == proc[p].snap.id IN
    /\ proc[p].pc = "write_memory" /\ ~Cancelled(p)
    /\ \E v \in ready : /\ files' = [files EXCEPT ![sid].mem = v.ver]
                        /\ vms' = Updated(v, [v EXCEPT !.paused = FALSE])
    /\ GoTo(p, "freeze_rootfs")
    /\ UNCHANGED <<regVars, taps, rules, disks, machines, todo, main, envVars, serving>>

\* vm.Snapshot: firecracker writes memory and device state of a paused VM.  On
\* failure CleanupSnapshot removes the directory and the deferred resume runs.
WriteMemory(p) ==
    LET ready == {v \in VMof(proc[p].id) : v.paused}
        sid == proc[p].snap.id IN
    /\ proc[p].pc = "write_memory"
    /\ \/ /\ ~Cancelled(p)
          /\ \E v \in ready : files' = [files EXCEPT ![sid].mem = v.ver]
          /\ GoTo(p, "freeze_rootfs")
       \/ /\ Cancelled(p) \/ Fault("snapshot") \/ ready = {}
          /\ files' = [files EXCEPT ![sid] = NoDir]
          /\ GoTo(p, "resume_failed")
    /\ UNCHANGED <<regVars, hostVars, machines, todo, main, envVars, serving>>

\* CopyFileSparse of the source's rootfs, while the VM is paused.
FreezeRootfs(p) ==
    LET path == proc[p].sb.rootfs
        sid == proc[p].snap.id IN
    /\ proc[p].pc = "freeze_rootfs"
    /\ \/ /\ path \in DOMAIN disks
          /\ files' = [files EXCEPT ![sid].disk = disks[path]]
          /\ GoTo(p, "resume")
       \/ /\ Fault("snapshot") \/ path \notin DOMAIN disks
          /\ files' = [files EXCEPT ![sid] = NoDir]
          /\ GoTo(p, "resume_failed")
    /\ UNCHANGED <<regVars, hostVars, machines, todo, main, envVars, serving>>

\* vm.Resume under a background context, on the way out or before the row.
Resume(p) ==
    /\ proc[p].pc \in {"resume", "resume_failed"}
    /\ vms' = {IF v.id = proc[p].id THEN [v EXCEPT !.paused = FALSE] ELSE v : v \in vms}
    /\ IF proc[p].pc = "resume" THEN GoTo(p, "record_snapshot") ELSE Return(p)
    /\ UNCHANGED <<regVars, taps, rules, disks, machines, todo, main, envVars, serving, files>>

\* A slip: the error path leaves the files.
RecordSnapshotKeepsFiles(p) ==
    /\ proc[p].pc = "record_snapshot"
    /\ IF Cancelled(p) THEN UNCHANGED regVars ELSE CreateSnapshot(proc[p].snap.id, proc[p].sb)
    /\ Return(p)
    /\ UNCHANGED <<hostVars, machines, todo, main, envVars, serving, files>>

RecordSnapshot(p) ==
    LET sid == proc[p].snap.id IN
    /\ proc[p].pc = "record_snapshot"
    /\ \/ ~Cancelled(p) /\ CreateSnapshot(sid, proc[p].sb) /\ UNCHANGED files
       \/ Cancelled(p) /\ files' = [files EXCEPT ![sid] = NoDir] /\ UNCHANGED regVars
    /\ Return(p)
    /\ UNCHANGED <<hostVars, machines, todo, main, envVars, serving>>

-----------------------------------------------------------------------------
(* handleDeleteSnapshot: the row, then the files *)

DeleteSnapshotRow(p, s) ==
    /\ "delete_snapshot" \in ClientOps /\ main = "serve" /\ IsIdle(p)
    /\ DeleteSnapshot(s.id)
    /\ proc' = [proc EXCEPT ![p] = [Idle EXCEPT !.pc = "clean_up_snapshot", !.snap = s, !.ctx = "request"]]
    /\ UNCHANGED <<hostVars, machines, todo, main, envVars, serving, files>>

CleanupSnapshot(p) ==
    /\ proc[p].pc = "clean_up_snapshot"
    /\ files' = [files EXCEPT ![proc[p].snap.id] = NoDir]
    /\ Return(p)
    /\ UNCHANGED <<regVars, hostVars, machines, todo, main, envVars, serving>>

-----------------------------------------------------------------------------
(* handleRestore, until it joins the steps of handleCreate *)

\* GetSnapshot.  A disciplined client does not restore and fan out snapshots of
\* one disk at the same time.
RestoreArrives(p, s, timeout) ==
    /\ "restore" \in ClientOps /\ main = "serve" /\ IsIdle(p) /\ nextId \in Ids
    /\ Overlap \/ ~FanoutAtWork(s.rootfs)
    /\ nextId' = nextId + 1
    /\ proc' = [proc EXCEPT ![p] = [Idle EXCEPT !.pc = "insert_restore", !.id = nextId, !.snap = s,
                    !.expires = Deadline(timeout), !.ctx = "request"]]
    /\ UNCHANGED <<regVars, hostVars, machines, todo, main, now, crashes, serving, files>>

\* A slip: the restore takes whatever tap and address are free.
InsertRestoreAnywhere(p) ==
    LET s == proc[p].snap
        id == proc[p].id IN
    /\ proc[p].pc = "insert_restore"
    /\ \/ /\ ~Cancelled(p)
          /\ Create(id, s.rootfs, proc[p].expires)
          /\ proc' = [proc EXCEPT ![p].pc = "copy_rootfs", ![p].sb = RowOf(id, sandboxes')]
       \/ /\ Cancelled(p) \/ CreateFails
          /\ Return(p)
          /\ UNCHANGED regVars
    /\ UNCHANGED <<hostVars, machines, todo, main, envVars, serving, files>>

\* The row comes first: it is refused while the source or another restore has
\* the tap or the address.
InsertRestore(p) ==
    LET s == proc[p].snap
        id == proc[p].id IN
    /\ proc[p].pc = "insert_restore"
    /\ \/ /\ ~Cancelled(p)
          /\ CreateRestore(id, s.rootfs, s.tap, s.ip, proc[p].expires)
          /\ proc' = [proc EXCEPT ![p].pc = "copy_rootfs", ![p].sb = RowOf(id, sandboxes')]
       \/ /\ Cancelled(p) \/ CreateRestoreFails(s.tap, s.ip)
          /\ Return(p)
          /\ UNCHANGED regVars
    /\ UNCHANGED <<hostVars, machines, todo, main, envVars, serving, files>>

\* A slip: the base image is laid down instead of the frozen rootfs.
CopyRootfsBase(p) ==
    /\ proc[p].pc = "copy_rootfs"
    /\ disks' = WithFile(proc[p].sb.rootfs, 0) /\ GoTo(p, "create_tap")
    /\ UNCHANGED <<regVars, taps, rules, vms, machines, todo, main, envVars, serving, files>>

\* CopyFileSparse of the frozen rootfs to the path the snapshot names, where the
\* file may have gone with a deleted snapshot.
CopyRootfs(p) ==
    LET frozen == files[proc[p].snap.id].disk IN
    /\ proc[p].pc = "copy_rootfs"
    /\ \/ frozen # Absent /\ disks' = WithFile(proc[p].sb.rootfs, frozen) /\ GoTo(p, "create_tap")
       \/ /\ Fault("rootfs") \/ frozen = Absent
          /\ Rollback(p)
          /\ UNCHANGED disks
    /\ UNCHANGED <<regVars, taps, rules, vms, machines, todo, main, envVars, serving, files>>

\* NewMachineFromSnapshot and Start: memory, disk and the recreated tap.
LoadSnapshot(p) ==
    LET sb == proc[p].sb
        mem == files[proc[p].snap.id].mem
        loadable == main = "serve" /\ mem # Absent /\ sb.rootfs \in DOMAIN disks /\ Bootable(sb) # {} IN
    /\ proc[p].pc = "start_vm" /\ proc[p].snap # NoRow
    /\ \/ /\ loadable
          /\ \E d \in Bootable(sb) : vms' = vms \cup {Launched(sb, d, proc[p].snap.ip, 0, mem)}
          /\ GoTo(p, "forward")
       \/ /\ Fault("start") \/ ~loadable
          /\ Rollback(p)
          /\ UNCHANGED vms
    /\ UNCHANGED <<regVars, taps, rules, disks, machines, todo, main, envVars, serving, files>>

-----------------------------------------------------------------------------
(* handleFanout *)

ClonesOf(p) == {w \in Workers : proc[w].by = p}

\* GetSnapshot; the clones' goroutines and uuids are reserved here.
FanoutArrives(p, s, n, timeout) ==
    LET ids == nextId .. nextId + n - 1 IN
    /\ "fanout" \in ClientOps /\ main = "serve" /\ IsIdle(p) /\ ids \subseteq Clones
    /\ Overlap \/ ~RestoreAtWork(s.rootfs)
    /\ nextId' = nextId + n
    /\ proc' = [q \in Goroutines |->
          CASE q = p -> [Idle EXCEPT !.pc = "stat_baked", !.snap = s, !.ctx = "request"]
            [] q \in {-id : id \in ids} ->
                 [Idle EXCEPT !.pc = "not_started", !.id = -q, !.snap = s, !.by = p,
                              !.expires = Deadline(timeout)]
            [] OTHER -> proc[q]]
    /\ UNCHANGED <<regVars, hostVars, machines, todo, main, now, crashes, serving, files>>

\* The handler goes on and its clones move from pc to pc.
WithClones(p, handler, from, clone) ==
    proc' = [q \in Goroutines |->
        CASE q = p -> handler
          [] q \in ClonesOf(p) /\ proc[q].pc = from -> clone[q]
          [] OTHER -> proc[q]]

BringUp(p, staged) ==
    WithClones(p, [proc[p] EXCEPT !.pc = "bring_up", !.staged = staged],
               "not_started", [w \in Workers |-> [proc[w] EXCEPT !.pc = "clone_row"]])

\* A slip: the file is staged, and later removed, whoever has it.
StatBakedIgnored(p) ==
    /\ proc[p].pc = "stat_baked"
    /\ GoTo(p, "stage")
    /\ UNCHANGED <<regVars, hostVars, machines, todo, main, envVars, serving, files>>

\* os.Stat of the path baked into the snapshot.
StatBaked(p) ==
    /\ proc[p].pc = "stat_baked"
    /\ IF proc[p].snap.rootfs \in DOMAIN disks THEN BringUp(p, FALSE) ELSE GoTo(p, "stage")
    /\ UNCHANGED <<regVars, hostVars, machines, todo, main, envVars, serving, files>>

\* A copy of the frozen rootfs where firecracker looks for it while it loads.
StageBaked(p) ==
    LET frozen == files[proc[p].snap.id].disk IN
    /\ proc[p].pc = "stage"
    /\ \/ frozen # Absent /\ disks' = WithFile(proc[p].snap.rootfs, frozen) /\ BringUp(p, TRUE)
       \/ /\ Fault("rootfs") \/ frozen = Absent
          /\ WithClones(p, Idle, "not_started", [w \in Workers |-> Idle])
          /\ UNCHANGED disks
    /\ UNCHANGED <<regVars, taps, rules, vms, machines, todo, main, envVars, serving, files>>

\* A slip: a clone that failed is never counted as done.
UnstageWaitsForAll(p) ==
    /\ proc[p].pc = "bring_up"
    /\ ClonesOf(p) # {} /\ \A w \in ClonesOf(p) : proc[w].pc = "loaded"
    /\ IF proc[p].staged THEN Unlink(proc[p].snap.rootfs) ELSE UNCHANGED <<disks, vms>>
    /\ proc' = [proc EXCEPT ![p].pc = "settle", ![p].staged = FALSE]
    /\ UNCHANGED <<regVars, taps, rules, machines, todo, main, envVars, serving, files>>

\* Every clone is resumed or has failed: the staged file goes.
Unstage(p) ==
    /\ proc[p].pc = "bring_up"
    /\ \A w \in ClonesOf(p) : proc[w].pc = "loaded"
    /\ IF proc[p].staged THEN Unlink(proc[p].snap.rootfs) ELSE UNCHANGED <<disks, vms>>
    /\ proc' = [proc EXCEPT ![p].pc = "settle", ![p].staged = FALSE]
    /\ UNCHANGED <<regVars, taps, rules, machines, todo, main, envVars, serving, files>>

\* A VM that has not taken the identity its metadata service holds.
Thawing(v) == v.mmds # 0 /\ v.ip \notin {0, v.mmds}

\* The handler sleeps 1.5 s, long enough for guests that thaw in time, and then
\* finishes the clones under the request's context.
Settle(p) ==
    /\ proc[p].pc = "settle"
    /\ Fault("late_thaw") \/ \A w \in ClonesOf(p), v \in vms : v.id = proc[w].id => ~Thawing(v)
    /\ WithClones(p, [proc[p] EXCEPT !.pc = "finish_clones"], "loaded",
                  [w \in Workers |-> [proc[w] EXCEPT !.pc = "bridge", !.ctx = "parent"]])
    /\ UNCHANGED <<regVars, hostVars, machines, todo, main, envVars, serving, files>>

FanoutDone(p) ==
    /\ proc[p].pc = "finish_clones" /\ ClonesOf(p) = {}
    /\ Return(p)
    /\ UNCHANGED <<regVars, hostVars, machines, todo, main, envVars, serving, files>>

-----------------------------------------------------------------------------
(* bringUpClone *)

\* The clone's row, under the server's context.
CloneRow(w) ==
    LET id == proc[w].id IN
    /\ proc[w].pc = "clone_row"
    /\ \/ /\ main = "serve"
          /\ Create(id, id, proc[w].expires)
          /\ proc' = [proc EXCEPT ![w].pc = "clone_rootfs", ![w].sb = RowOf(id, sandboxes')]
       \/ /\ main # "serve" \/ CreateFails
          /\ Return(w)
          /\ UNCHANGED regVars
    /\ UNCHANGED <<hostVars, machines, todo, main, envVars, serving, files>>

\* A slip: cp's error is not looked at.
CloneRootfsUnchecked(w) ==
    /\ proc[w].pc = "clone_rootfs"
    /\ disks' = WithFile(proc[w].sb.rootfs, files[proc[w].snap.id].disk)
    /\ GoTo(w, "create_tap_unbridged")
    /\ UNCHANGED <<regVars, taps, rules, vms, machines, todo, main, envVars, serving, files>>

CloneRootfs(w) ==
    LET frozen == files[proc[w].snap.id].disk IN
    /\ proc[w].pc = "clone_rootfs"
    /\ \/ frozen # Absent /\ disks' = WithFile(proc[w].sb.rootfs, frozen) /\ GoTo(w, "create_tap_unbridged")
       \/ /\ Fault("rootfs") \/ frozen = Absent
          /\ Rollback(w)
          /\ UNCHANGED disks
    /\ UNCHANGED <<regVars, taps, rules, vms, machines, todo, main, envVars, serving, files>>

\* A slip: CreateTap is called, which attaches the device.
CreateTapBridged(w) ==
    /\ proc[w].pc = "create_tap_unbridged"
    /\ taps' = taps \cup {[tap |-> proc[w].sb.tap, owner |-> proc[w].id, bridged |-> TRUE]}
    /\ GoTo(w, "start_clone")
    /\ UNCHANGED <<regVars, rules, disks, vms, machines, todo, main, envVars, serving, files>>

CreateTapUnbridged(w) ==
    LET t == proc[w].sb.tap
        present == \E d \in taps : d.tap = t
        added == taps \cup {[tap |-> t, owner |-> proc[w].id, bridged |-> FALSE]} IN
    /\ proc[w].pc = "create_tap_unbridged"
    /\ \/ ~present /\ taps' = added /\ GoTo(w, "start_clone")
       \/ /\ present \/ Fault("tap")
          /\ taps' \in IF present THEN {taps} ELSE {taps, added}
          /\ Rollback(w)
    /\ UNCHANGED <<regVars, rules, disks, vms, machines, todo, main, envVars, serving, files>>

\* vm.StartClone: load with the tap replaced, relocate the disk, put the identity
\* into the metadata service, resume; an error kills the process.  The guest
\* comes up with the source's address.
StartClone(w) ==
    LET sb == proc[w].sb
        s == proc[w].snap
        loadable == /\ main = "serve" /\ files[s.id].mem # Absent /\ s.rootfs \in DOMAIN disks
                    /\ sb.rootfs \in DOMAIN disks /\ Bootable(sb) # {} IN
    /\ proc[w].pc = "start_clone"
    /\ \/ /\ loadable
          /\ \E d \in Bootable(sb) : vms' = vms \cup {Launched(sb, d, s.ip, sb.ip, files[s.id].mem)}
          /\ GoTo(w, "loaded")
       \/ /\ Fault("start") \/ ~loadable
          /\ Rollback(w)
          /\ UNCHANGED vms
    /\ UNCHANGED <<regVars, taps, rules, disks, machines, todo, main, envVars, serving, files>>

-----------------------------------------------------------------------------
(* finishClone, until it joins the steps of handleCreate *)

AttachTapToBridge(w) ==
    LET t == proc[w].sb.tap
        present == \E d \in taps : d.tap = t IN
    /\ proc[w].pc = "bridge"
    /\ \/ /\ present
          /\ taps' = {IF d.tap = t THEN [d EXCEPT !.bridged = TRUE] ELSE d : d \in taps}
          /\ GoTo(w, "forward_clone")
       \/ (~present \/ Fault("tap")) /\ GoTo(w, "stop_clone") /\ UNCHANGED taps
    /\ UNCHANGED <<regVars, rules, disks, vms, machines, todo, main, envVars, serving, files>>

ForwardClone(w) ==
    /\ proc[w].pc = "forward_clone"
    /\ AddPortForwardTo(Forward(proc[w].sb.port, proc[w].sb.ip, PrimaryPort),
                        GoTo(w, "record_clone"), GoTo(w, "stop_clone"))
    /\ UNCHANGED <<regVars, taps, disks, vms, machines, todo, main, envVars, serving, files>>

\* A failed FinishStart leaves the forward to destroy, which finds it by the row.
RecordClone(w) ==
    LET id == proc[w].id IN
    /\ proc[w].pc = "record_clone"
    /\ \/ ~Cancelled(w) /\ FinishStart(id, id) /\ GoTo(w, "store")
       \/ (Cancelled(w) \/ Get(id) = {}) /\ GoTo(w, "stop_clone") /\ UNCHANGED regVars
    /\ UNCHANGED <<hostVars, machines, todo, main, envVars, serving, files>>

\* A slip: the rollback for failures before the VM runs.
StopCloneRollsBack(w) ==
    /\ proc[w].pc = "stop_clone"
    /\ vms' = vms \ VMof(proc[w].id)
    /\ Rollback(w)
    /\ UNCHANGED <<regVars, taps, rules, disks, machines, todo, main, envVars, serving, files>>

\* StopForce, and destroy under a background context.
StopClone(w) ==
    /\ proc[w].pc = "stop_clone"
    /\ vms' = vms \ VMof(proc[w].id)
    /\ proc' = [proc EXCEPT ![w] = [Idle EXCEPT !.pc = "get_row", !.id = proc[w].id, !.by = proc[w].by]]
    /\ UNCHANGED <<regVars, taps, rules, disks, machines, todo, main, envVars, serving, files>>

-----------------------------------------------------------------------------
(* Guests *)

\* runThawAgent: a clone reads the metadata service and applyIdentity rewrites
\* eth0.  A step that fails in between leaves it down or without address, where
\* the metadata service cannot be read again.
Thaw(v) ==
    /\ Thawing(v) /\ ~v.paused
    /\ \E ip \in {v.mmds} \cup (IF Fault("thaw") THEN {0} ELSE {}) :
          vms' = Updated(v, [v EXCEPT !.ip = ip])
    /\ UNCHANGED <<regVars, taps, rules, disks, memVars, envVars, serving, files>>

\* A running guest changes its memory and the disk it knows.
GuestWrites(v) ==
    LET knows == v.disk # 0 /\ disks[v.disk] = v.ver IN
    /\ ~v.paused /\ v.ver < MaxWrites
    /\ vms' = Updated(v, [v EXCEPT !.ver = @ + 1])
    /\ disks' = IF knows THEN [disks EXCEPT ![v.disk] = v.ver + 1] ELSE disks
    /\ UNCHANGED <<regVars, taps, rules, memVars, envVars, serving, files>>

-----------------------------------------------------------------------------
SnapInit ==
    /\ Init
    /\ files = [sid \in SnapIds |-> NoDir]

SnapArrival ==
    \E p \in Requests :
        \/ \E id \in Ids, sid \in SnapIds : SnapshotArrives(p, id, sid)
        \/ \E s \in snapshots :
              \/ DeleteSnapshotRow(p, s)
              \/ \E timeout \in Timeouts : RestoreArrives(p, s, timeout)
              \/ \E n \in Counts, timeout \in Timeouts : FanoutArrives(p, s, n, timeout)

SnapStep(p) ==
    \/ Pause(p) \/ WriteMemory(p) \/ FreezeRootfs(p) \/ Resume(p) \/ RecordSnapshot(p)
    \/ CleanupSnapshot(p) \/ InsertRestore(p) \/ CopyRootfs(p) \/ LoadSnapshot(p)
    \/ StatBaked(p) \/ StageBaked(p) \/ Unstage(p) \/ Settle(p) \/ FanoutDone(p)
    \/ CloneRow(p) \/ CloneRootfs(p) \/ CreateTapUnbridged(p) \/ StartClone(p)
    \/ AttachTapToBridge(p) \/ ForwardClone(p) \/ RecordClone(p) \/ StopClone(p)

GuestStep == \E v \in vms : Thaw(v) \/ GuestWrites(v)

SnapNext ==
    \/ Next /\ UNCHANGED files
    \/ SnapArrival
    \/ \E p \in Goroutines : SnapStep(p)
    \/ GuestStep

SnapSpec == SnapInit /\ [][SnapNext]_allVars

\* Go schedules every runnable goroutine, commands return, guests run.
SnapFairSpec ==
    /\ SnapSpec
    /\ \A p \in Goroutines :
          WF_allVars((Step(p) /\ UNCHANGED files) \/ SnapStep(p))
    /\ WF_allVars(\E v \in vms : Thaw(v))

-----------------------------------------------------------------------------
(* Properties *)

SnapPCs == {"pause", "write_memory", "freeze_rootfs", "resume", "resume_failed",
            "record_snapshot", "clean_up_snapshot", "not_started", "clone_row", "clone_rootfs",
            "create_tap_unbridged", "start_clone", "loaded", "bridge", "forward_clone",
            "record_clone", "stop_clone"} \cup FanoutPCs \cup RestorePCs

\* Files hold something, snapshot directories have at most two of them, and
\* goroutines are inside a handler.
SnapTypeOK ==
    /\ files \in [SnapIds -> [dir : BOOLEAN, mem : {Absent} \cup 0 .. MaxWrites,
                             disk : {Absent} \cup 0 .. MaxWrites]]
    /\ DOMAIN disks \subseteq Ids /\ \A path \in DOMAIN disks : disks[path] \in 0 .. MaxWrites
    /\ \A p \in Goroutines : proc[p].pc \in PCs \cup SnapPCs /\ proc[p].snap \in Snapshot \cup {NoRow}

\* Two sandboxes never have the same disk path.  No index of the registry says
\* so: a restore takes the path of its source, and only the tap and the address
\* it takes along keep it apart from the source and from other restores.
DiskExclusive == \A r, s \in sandboxes : r.rootfs = s.rootfs => r = s

\* A snapshot that GET /snapshots shows has its files, and its disk is the one
\* its memory knows ("Copy the rootfs while the VM is paused so the disk matches
\* the snapshot's view of it", snapshot.go:74-75), whatever is deleted,
\* restored or written meanwhile.
SnapshotsWhole ==
    \A s \in snapshots : files[s.id].mem # Absent /\ files[s.id].mem = files[s.id].disk

\* A guest finds on its disk what it knows to be there, also after a restore or
\* a fan-out, and nobody copies over the file while it runs.
GuestKeepsDisk == \A v \in vms : v.disk # 0 => v.disk \in DOMAIN disks /\ disks[v.disk] = v.ver

\* "Resume on every exit path so a failed snapshot doesn't leave the source
\* sandbox frozen" (snapshot.go:51-52): a VM of the running server is paused only
\* while a snapshot handler that will resume it is at work.
NotLeftFrozen ==
    \A v \in vms : v.paused /\ v.run = crashes =>
        \E p \in WorkingOn(v.id) :
            proc[p].pc \in {"write_memory", "freeze_rootfs", "resume", "resume_failed"}

\* On the bridge a guest uses no address but the one its row holds, so that the
\* source's address, which every clone comes up with, "never collides on the
\* shared bridge" (snapshot.go:241-242).
BridgedAddressOwned ==
    \A v \in vms : OnBridge(v) /\ v.ip # 0 => \E r \in Get(v.id) : r.ip = v.ip

\* While the server is not killed every VM, disk file and snapshot file belongs
\* to a row or to a handler that will remove or record it.  (A failed pause
\* leaves an empty snapshot directory.)
NothingLeftOver ==
    /\ \A v \in vms : Get(v.id) # {}
    /\ \A d \in DOMAIN disks :
          \/ \E r \in sandboxes : r.rootfs = d
          \/ \E p \in Requests : \/ proc[p].pc = "insert_row" /\ proc[p].id = d
                                 \/ proc[p].staged /\ proc[p].snap.rootfs = d
    /\ \A sid \in SnapIds :
          files[sid].mem # Absent \/ files[sid].disk # Absent =>
              GetSnapshot(sid) # {} \/ \E p \in Requests : proc[p].snap.id = sid

\* Every request is answered: a fan-out waits for its clones twice, and each of
\* them ends, however it fails.
RequestsAnswered == \A p \in Requests : ~IsIdle(p) ~> IsIdle(p)
=============================================================================
