----------------------------- MODULE Lifecycle -----------------------------
(***************************************************************************)
(* The life of a sandbox on one host: the handlers, the reaper, startup    *)
(* reconciliation and graceful shutdown of internal/server, each a         *)
(* goroutine that takes one step per call to the registry, the provisioner *)
(* or the VM layer, over the state those calls change on the host: tap     *)
(* devices, DNAT rules, rootfs files and firecracker processes.  Host and  *)
(* registry survive a crash of the server; the machines map and the        *)
(* goroutines do not.                                                      *)
(*                                                                         *)
(* A tap device and a VM are named after the sandbox that made them, which *)
(* the code cannot see: two devices of the same name are told apart.       *)
(***************************************************************************)
EXTENDS Registry, Bags

CONSTANTS
    Requests,    \* HTTP handler goroutines
    Reaper,      \* the reapExpired goroutine
    Main,        \* the Serve goroutine, which runs reconcile
    Clones,      \* the sandbox ids a fan-out may give its clones
    PrimaryPort, \* Network.GuestPort, forwarded for every sandbox
    ClientOps,   \* the requests clients send
    Timeouts,    \* timeout_sec values they send (0: no deadline)
    Overlap,     \* clients may destroy or expose a sandbox another call works on
    Faults,      \* the external commands that may fail
    MaxNow,      \* bound on the clock
    MaxCrashes   \* bound on crashes, reboots and stops

ASSUME LifecycleAssumption ==
    /\ Overlap \in BOOLEAN
    /\ ClientOps \subseteq {"create", "destroy", "expose", "timeout", "snapshot",
                            "restore", "fanout", "delete_snapshot"}
    /\ Faults \subseteq {"rootfs", "tap", "start", "forward", "agent", "exit",
                         "rootfs_partial", "forward_partial", "pause", "late_pause",
                         "snapshot", "thaw", "late_thaw"}
    /\ Clones \subseteq Ids
    /\ PrimaryPort \in Nat \ GuestPorts
    /\ MaxNow \in Nat /\ MaxCrashes \in Nat
    /\ IsFiniteSet(Ids) /\ Ids = 1 .. Cardinality(Ids) /\ Pids = Ids
    /\ Timeouts \subseteq Nat
    /\ \A timeout \in Timeouts \ {0}, t \in 0 .. MaxNow : t + timeout \in Deadlines

VARIABLES
    taps,     \* host: tap devices [tap, owner, bridged]
    rules,    \* host: bag of DNAT rules (iptables -A appends duplicates)
    disks,    \* host: rootfs files, what each path holds
    vms,      \* host: firecracker processes (see Launched)
    machines, \* server memory: keys of Server.machines
    proc,     \* server memory: local state of each goroutine
    todo,     \* server memory: rows the reaper's or reconcile's loop has left
    main,     \* phase of the server process
    now,      \* clock, in seconds
    nextId,   \* next fresh uuid
    crashes,  \* how often the server went down
    serving   \* history: sandboxes answered 201 that nobody began to destroy

hostVars == <<taps, rules, disks, vms>>
memVars == <<machines, proc, todo, main>>
envVars == <<now, nextId, crashes>>
vars == <<regVars, hostVars, memVars, envVars, serving>>

\* shutdownAll destroys sandbox id in goroutine id; a fan-out brings clone id up
\* in goroutine -id.
Workers == {-id : id \in Clones}
Goroutines == Requests \cup {Reaper, Main} \cup Ids \cup Workers

\* No goroutine has two parts.
ASSUME GoroutinesAssumption ==
    /\ Requests \cap ({Reaper, Main} \cup Ids \cup Workers) = {}
    /\ {Reaper, Main} \cap (Ids \cup Workers) = {} /\ Reaper # Main

NoRow == [id |-> 0]
Idle == [pc |-> "idle", id |-> 0, sb |-> NoRow, extra |-> {}, guest |-> 0,
         host |-> 0, expires |-> NULL, ctx |-> "background",
         snap |-> NoRow, by |-> 0, staged |-> FALSE]

\* Who is at work on a sandbox.
WorkingOn(id) == {p \in Goroutines : proc[p].id = id}
IsIdle(p) == proc[p].pc = "idle"

\* RegSpec's rows, by id.
RowOf(id, table) == CHOOSE r \in table : r.id = id

\* The two rules of AddPortForwardTo.
Forward(host, ip, guest) ==
    {[chain |-> c, host |-> host, ip |-> ip, guest |-> guest] :
        c \in {"PREROUTING", "OUTPUT"}}

\* cp writes over what is at the path; os.Remove takes it away.  A file holds
\* the image as it was (0) or what a guest has done to it.
WithFile(path, c) ==
    [x \in DOMAIN disks \cup {path} |-> IF x = path THEN c ELSE disks[x]]
WithoutFile(path) == [x \in DOMAIN disks \ {path} |-> disks[x]]

\* iptables -D removes one matching rule, and its failure is ignored.
Without(R) == rules (-) SetToBag(R)

GoTo(p, pc) == proc' = [proc EXCEPT ![p].pc = pc]
Return(p) == proc' = [proc EXCEPT ![p] = Idle]
\* rollbackPreVM: the tail of destroy with a background context.
Rollback(p) == proc' = [proc EXCEPT ![p].pc = "delete_tap", ![p].ctx = "background"]

\* A context-bound registry call fails once the client has hung up.  A clone is
\* finished under the context of the fan-out that started it.
Cancelled(p) ==
    "cancelled" = IF proc[p].ctx = "parent" THEN proc[proc[p].by].ctx ELSE proc[p].ctx
Fault(f) == f \in Faults

-----------------------------------------------------------------------------
(* handleCreate *)

\* A slip: the test for zero is missing.
DeadlineAlways(timeout) == now + timeout

\* expiresAt = now + timeout_sec, or none when timeout_sec is 0.
Deadline(timeout) == IF timeout > 0 THEN now + timeout ELSE NULL

\* Arrival and PrepareRootfs.  cp may leave a partial file behind, which the
\* error path does not remove.
PrepareRootfs(p, timeout) ==
    /\ "create" \in ClientOps /\ main = "serve" /\ IsIdle(p) /\ nextId \in Ids
    /\ nextId' = nextId + 1
    /\ \/ /\ disks' = WithFile(nextId, 0)
          /\ proc' = [proc EXCEPT ![p] = [Idle EXCEPT !.pc = "insert_row", !.id = nextId,
                            !.expires = Deadline(timeout), !.ctx = "request"]]
       \/ Fault("rootfs") /\ UNCHANGED <<disks, proc>>
       \/ Fault("rootfs_partial") /\ disks' = WithFile(nextId, 0) /\ UNCHANGED proc
    /\ UNCHANGED <<regVars, taps, rules, vms, machines, todo, main, now, crashes, serving>>

InsertRow(p) ==
    LET id == proc[p].id IN
    /\ proc[p].pc = "insert_row"
    /\ \/ /\ ~Cancelled(p)
          /\ Create(id, id, proc[p].expires)
          /\ proc' = [proc EXCEPT ![p].pc = "create_tap", ![p].sb = RowOf(id, sandboxes')]
          /\ UNCHANGED disks
       \/ /\ Cancelled(p) \/ CreateFails
          /\ disks' = WithoutFile(id)
          /\ Return(p)
          /\ UNCHANGED regVars
    /\ UNCHANGED <<taps, rules, vms, machines, todo, main, envVars, serving>>

\* ip tuntap add refuses a name that exists; a later step of CreateTap may fail
\* with the device already there.
CreateTap(p) ==
    LET t == proc[p].sb.tap
        present == \E d \in taps : d.tap = t
        added(b) == taps \cup {[tap |-> t, owner |-> proc[p].id, bridged |-> b]} IN
    /\ proc[p].pc = "create_tap"
    /\ \/ ~present /\ taps' = added(TRUE) /\ GoTo(p, "start_vm")
       \/ /\ present \/ Fault("tap")
          /\ taps' \in IF present THEN {taps} ELSE {taps, added(FALSE)}
          /\ Rollback(p)
    /\ UNCHANGED <<regVars, rules, disks, vms, machines, todo, main, envVars, serving>>

\* A firecracker process on device d: the address its guest uses, the address
\* its metadata service holds (0: none), the device and run it belongs to, the
\* disk file it has open (0 once that is unlinked), and the state of its guest.
Launched(sb, d, ip, mmds, ver) ==
    [id |-> sb.id, tap |-> sb.tap, ip |-> ip, mmds |-> mmds, dev |-> d.owner,
     run |-> crashes, disk |-> sb.rootfs, paused |-> FALSE, ver |-> ver]

\* The device a VM can open: it exists and no other VM has it open.
Bootable(sb) == {d \in taps : d.tap = sb.tap /\ \A v \in vms : v.dev # d.owner}

\* A slip: the process is started under a background context.
StartVMUnbound(p) ==
    LET sb == proc[p].sb IN
    /\ proc[p].pc = "start_vm" /\ proc[p].snap = NoRow
    /\ \E d \in Bootable(sb) : vms' = vms \cup {Launched(sb, d, sb.ip, 0, 0)}
    /\ GoTo(p, "forward")
    /\ UNCHANGED <<regVars, taps, rules, disks, machines, todo, main, envVars, serving>>

\* NewMachine, Start and PID.  Firecracker opens the disk and the tap.  The VM's
\* process is bound to the server's context.  StopForce has nothing left to stop
\* on the error paths.
StartVM(p) ==
    LET sb == proc[p].sb IN
    /\ proc[p].pc = "start_vm" /\ proc[p].snap = NoRow
    /\ \/ /\ main = "serve" /\ sb.rootfs \in DOMAIN disks
          /\ \E d \in Bootable(sb) : vms' = vms \cup {Launched(sb, d, sb.ip, 0, 0)}
          /\ GoTo(p, "forward")
       \/ /\ Fault("start") \/ main # "serve" \/ sb.rootfs \notin DOMAIN disks \/ Bootable(sb) = {}
          /\ Rollback(p)
          /\ UNCHANGED vms
    /\ UNCHANGED <<regVars, taps, rules, disks, machines, todo, main, envVars, serving>>

\* AddPortForwardTo: two iptables -A commands.  When the second fails the first
\* rule stays.
AddPortForwardTo(R, done, failed) ==
    \/ rules' = rules (+) SetToBag(R) /\ done
    \/ Fault("forward") /\ rules' = rules /\ failed
    \/ /\ Fault("forward_partial")
       /\ rules' = rules (+) SetToBag({r \in R : r.chain = "PREROUTING"})
       /\ failed

\* A slip: the error path forgets StopForce.
AddPortForwardKeepsVM(p) ==
    /\ proc[p].pc = "forward"
    /\ AddPortForwardTo(Forward(proc[p].sb.port, proc[p].sb.ip, PrimaryPort),
                        GoTo(p, "finish_start"), Rollback(p))
    /\ UNCHANGED <<regVars, taps, disks, vms, machines, todo, main, envVars, serving>>

AddPortForward(p) ==
    /\ proc[p].pc = "forward"
    /\ AddPortForwardTo(Forward(proc[p].sb.port, proc[p].sb.ip, PrimaryPort),
                        GoTo(p, "finish_start"), GoTo(p, "stop_force"))
    /\ UNCHANGED <<regVars, taps, disks, vms, machines, todo, main, envVars, serving>>

\* A slip: the error path forgets RemovePortForward.
RecordStartKeepsForward(p) ==
    LET sb == proc[p].sb IN
    /\ proc[p].pc = "finish_start"
    /\ \/ ~Cancelled(p) /\ FinishStart(sb.id, sb.id) /\ GoTo(p, "store")
       \/ (Cancelled(p) \/ Get(sb.id) = {}) /\ GoTo(p, "stop_force") /\ UNCHANGED regVars
    /\ UNCHANGED <<rules, taps, disks, vms, machines, todo, main, envVars, serving>>

\* FinishStart records the pid; its failure undoes the forward before the VM.
RecordStart(p) ==
    LET sb == proc[p].sb IN
    /\ proc[p].pc = "finish_start"
    /\ \/ ~Cancelled(p) /\ FinishStart(sb.id, sb.id) /\ GoTo(p, "store") /\ UNCHANGED rules
       \/ /\ Cancelled(p) \/ Get(sb.id) = {}
          /\ rules' = Without(Forward(sb.port, sb.ip, PrimaryPort))
          /\ GoTo(p, "stop_force")
          /\ UNCHANGED regVars
    /\ UNCHANGED <<taps, disks, vms, machines, todo, main, envVars, serving>>

\* StopForce signals the VM, which exits, and rollbackPreVM follows.
StopForce(p) ==
    /\ proc[p].pc = "stop_force"
    /\ vms' = {v \in vms : v.id # proc[p].id}
    /\ Rollback(p)
    /\ UNCHANGED <<regVars, taps, rules, disks, machines, todo, main, envVars, serving>>

StoreMachine(p) ==
    /\ proc[p].pc = "store"
    /\ machines' = machines \cup {proc[p].id}
    /\ GoTo(p, "wait_agent")
    /\ UNCHANGED <<regVars, hostVars, todo, main, envVars, serving>>

\* A VM is on the bridge while its device exists and is attached.
OnBridge(v) == [tap |-> v.tap, owner |-> v.dev, bridged |-> TRUE] \in taps

\* Some guest answers on the address: one that runs and is on the bridge.
AgentAnswers(ip) == \E v \in vms : v.ip = ip /\ ~v.paused /\ OnBridge(v)

\* A slip: 201 is sent without waiting.
WaitForNothing(p) ==
    /\ proc[p].pc = "wait_agent"
    /\ serving' = serving \cup {proc[p].id}
    /\ Return(p)
    /\ UNCHANGED <<regVars, hostVars, machines, todo, main, envVars>>

\* waitForAgent: 201 when the agent answers, destroy(Background) when it does
\* not within 60 s or the client is gone.
WaitForAgent(p) ==
    LET id == proc[p].id IN
    /\ proc[p].pc = "wait_agent"
    /\ \/ /\ ~Cancelled(p) /\ AgentAnswers(proc[p].sb.ip)
          /\ serving' = IF WorkingOn(id) = {p} /\ Get(id) # {}
                          THEN serving \cup {id} ELSE serving
          /\ Return(p)
       \/ /\ Cancelled(p) \/ Fault("agent") \/ ~AgentAnswers(proc[p].sb.ip)
          /\ proc' = [proc EXCEPT ![p] = [Idle EXCEPT !.pc = "get_row", !.id = id,
                                                      !.by = proc[p].by]]
          /\ UNCHANGED serving
    /\ UNCHANGED <<regVars, hostVars, machines, todo, main, envVars>>

-----------------------------------------------------------------------------
(* handleDestroy and destroy *)

\* What a client may name.  GET /sandboxes shows every row; a disciplined
\* client touches a sandbox only after its create returned and while no other
\* call is at work on it.
Addressable(id) ==
    /\ Get(id) # {}
    /\ Overlap \/ (WorkingOn(id) = {} /\ id \notin todo)

DestroyArrives(p, id) ==
    /\ "destroy" \in ClientOps /\ main = "serve" /\ IsIdle(p) /\ Addressable(id)
    /\ proc' = [proc EXCEPT ![p] = [Idle EXCEPT !.pc = "get_row", !.id = id, !.ctx = "request"]]
    /\ UNCHANGED <<regVars, hostVars, machines, todo, main, envVars, serving>>

GetRow(p) ==
    LET id == proc[p].id IN
    /\ proc[p].pc = "get_row"
    /\ \/ /\ ~Cancelled(p) /\ Get(id) # {}
          /\ proc' = [proc EXCEPT ![p].pc = "read_ports", ![p].sb = RowOf(id, sandboxes)]
          /\ serving' = serving \ {id}
       \/ /\ Cancelled(p) \/ Get(id) = {}
          /\ Return(p)
          /\ UNCHANGED serving
    /\ UNCHANGED <<regVars, hostVars, machines, todo, main, envVars>>

\* A slip: the mappings are read after the row, and they with it, are deleted.
ReadPortsTooLate(p) ==
    /\ proc[p].pc = "read_ports"
    /\ GoTo(p, "take_machine")
    /\ UNCHANGED <<regVars, hostVars, machines, todo, main, envVars, serving>>

\* The extra mappings; a failed read is only logged.
ReadPorts(p) ==
    /\ proc[p].pc = "read_ports"
    /\ proc' = [proc EXCEPT ![p].pc = "take_machine",
                            ![p].extra = IF Cancelled(p) THEN {} ELSE Ports(proc[p].id)]
    /\ UNCHANGED <<regVars, hostVars, machines, todo, main, envVars, serving>>

\* machines.LoadAndDelete: the caller that finds the machine shuts it down,
\* any other goes straight on to the host's resources.
TakeMachine(p) ==
    /\ proc[p].pc = "take_machine"
    /\ machines' = machines \ {proc[p].id}
    /\ GoTo(p, IF proc[p].id \in machines THEN "wait_vm" ELSE "remove_forwards")
    /\ UNCHANGED <<regVars, hostVars, todo, main, envVars, serving>>

\* ShutdownGuest and Wait, with StopForce after two minutes.
WaitVM(p) ==
    /\ proc[p].pc = "wait_vm"
    /\ vms' = {v \in vms : v.id # proc[p].id}
    /\ GoTo(p, "remove_forwards")
    /\ UNCHANGED <<regVars, taps, rules, disks, machines, todo, main, envVars, serving>>

RemoveForwards(p) ==
    LET sb == proc[p].sb IN
    /\ proc[p].pc = "remove_forwards"
    /\ rules' = Without(Forward(sb.port, sb.ip, PrimaryPort) \cup
                        UNION {Forward(m.host, sb.ip, m.guest) : m \in proc[p].extra})
    /\ GoTo(p, "delete_tap")
    /\ UNCHANGED <<regVars, taps, disks, vms, machines, todo, main, envVars, serving>>

\* ip link delete goes by name.
DeleteTap(p) ==
    /\ proc[p].pc = "delete_tap"
    /\ taps' = {d \in taps : d.tap # proc[p].sb.tap}
    /\ GoTo(p, "remove_rootfs")
    /\ UNCHANGED <<regVars, rules, disks, vms, machines, todo, main, envVars, serving>>

\* os.Remove: a VM that has the file open keeps it, without its name.
Unlink(path) ==
    /\ disks' = WithoutFile(path)
    /\ vms' = {IF v.disk = path THEN [v EXCEPT !.disk = 0] ELSE v : v \in vms}

RemoveRootfs(p) ==
    /\ proc[p].pc = "remove_rootfs"
    /\ Unlink(proc[p].sb.rootfs)
    /\ GoTo(p, "delete_row")
    /\ UNCHANGED <<regVars, taps, rules, machines, todo, main, envVars, serving>>

DeleteRow(p) ==
    LET id == proc[p].id IN
    /\ proc[p].pc = "delete_row"
    /\ IF Cancelled(p) \/ Get(id) = {} THEN UNCHANGED regVars ELSE Destroy(id)
    /\ Return(p)
    /\ UNCHANGED <<hostVars, machines, todo, main, envVars, serving>>

-----------------------------------------------------------------------------
(* handleExposePort and handleSetTimeout *)

\* A slip: no look at the mappings before AddPort.
ExposeArrivesUnseen(p, id, guest) ==
    /\ "expose" \in ClientOps /\ main = "serve" /\ IsIdle(p) /\ Addressable(id)
    /\ proc' = [proc EXCEPT ![p] = [Idle EXCEPT !.pc = "add_port", !.id = id,
                    !.sb = RowOf(id, sandboxes), !.guest = guest, !.ctx = "request"]]
    /\ UNCHANGED <<regVars, hostVars, machines, todo, main, envVars, serving>>

\* Get and Ports: a guest port that is mapped is answered at once.
ExposeArrives(p, id, guest) ==
    /\ "expose" \in ClientOps /\ main = "serve" /\ IsIdle(p) /\ Addressable(id)
    /\ \A m \in Ports(id) : m.guest # guest
    /\ proc' = [proc EXCEPT ![p] = [Idle EXCEPT !.pc = "add_port", !.id = id,
                    !.sb = RowOf(id, sandboxes), !.guest = guest, !.ctx = "request"]]
    /\ UNCHANGED <<regVars, hostVars, machines, todo, main, envVars, serving>>

\* AddPort hands back an existing mapping as it does a new one.
AllocatePort(p) ==
    LET id == proc[p].id
        guest == proc[p].guest
        mapping(table) == CHOOSE m \in table : m.id = id /\ m.guest = guest IN
    /\ proc[p].pc = "add_port"
    /\ \/ /\ ~Cancelled(p)
          /\ AddPort(id, guest)
          /\ proc' = [proc EXCEPT ![p].pc = "add_forward",
                                  ![p].host = mapping(sandbox_ports').host]
       \/ /\ ~Cancelled(p)
          /\ \E m \in Ports(id) : m.guest = guest
          /\ proc' = [proc EXCEPT ![p].pc = "add_forward",
                                  ![p].host = mapping(sandbox_ports).host]
          /\ UNCHANGED regVars
       \/ /\ Cancelled(p) \/ AddPortFails(id, guest)
          /\ Return(p)
          /\ UNCHANGED regVars
    /\ UNCHANGED <<hostVars, machines, todo, main, envVars, serving>>

ForwardExtra(p) ==
    /\ proc[p].pc = "add_forward"
    /\ AddPortForwardTo(Forward(proc[p].host, proc[p].sb.ip, proc[p].guest),
                        Return(p), GoTo(p, "delete_port"))
    /\ UNCHANGED <<regVars, taps, disks, vms, machines, todo, main, envVars, serving>>

UndoPort(p) ==
    /\ proc[p].pc = "delete_port"
    /\ IF Cancelled(p) THEN UNCHANGED regVars ELSE DeletePort(proc[p].id, proc[p].guest)
    /\ Return(p)
    /\ UNCHANGED <<hostVars, machines, todo, main, envVars, serving>>

SetTimeout(id, timeout) ==
    /\ "timeout" \in ClientOps /\ main = "serve"
    /\ SetExpiry(id, Deadline(timeout))
    /\ UNCHANGED <<hostVars, memVars, envVars, serving>>

-----------------------------------------------------------------------------
(* reapExpired *)

\* A tick lists the expired rows; they are destroyed one after another with a
\* background context.
ReaperTick ==
    /\ main = "serve" /\ IsIdle(Reaper) /\ todo = {}
    /\ todo' = {r.id : r \in Expired(now)}
    /\ todo' # {}
    /\ UNCHANGED <<regVars, hostVars, machines, proc, main, envVars, serving>>

\* A slip: destroy is given a context that has ended.
ReapNextEnded ==
    /\ main \in {"serve", "drain", "stop_all"} /\ IsIdle(Reaper)
    /\ \E id \in todo :
          /\ todo' = todo \ {id}
          /\ proc' = [proc EXCEPT ![Reaper] = [Idle EXCEPT !.pc = "get_row", !.id = id,
                                                           !.ctx = "cancelled"]]
    /\ UNCHANGED <<regVars, hostVars, machines, main, envVars, serving>>

ReapNext ==
    /\ main \in {"serve", "drain", "stop_all"} /\ IsIdle(Reaper)
    /\ \E id \in todo :
          /\ todo' = todo \ {id}
          /\ proc' = [proc EXCEPT ![Reaper] = [Idle EXCEPT !.pc = "get_row", !.id = id]]
    /\ UNCHANGED <<regVars, hostVars, machines, main, envVars, serving>>

-----------------------------------------------------------------------------
(* Serve: startup, reconcile, graceful stop *)

\* A slip: rows whose pid was never recorded are skipped.
RestartSkips ==
    /\ main = "down"
    /\ main' = "recover"
    /\ todo' = {r.id : r \in {s \in sandboxes : s.pid # NoPid}}
    /\ UNCHANGED <<regVars, hostVars, machines, proc, envVars, serving>>

\* reconcile reads every row before it cleans up the first.
Restart ==
    /\ main = "down"
    /\ main' = "recover"
    /\ todo' = {r.id : r \in sandboxes}
    /\ UNCHANGED <<regVars, hostVars, machines, proc, envVars, serving>>

\* isFirecrackerProc and killWithGrace: only a recorded pid can be killed.  The
\* rest of the iteration is the tail of destroy; machines is empty.  The rows
\* are read and deleted under the server's context, which may have ended.
ReconcileNext ==
    /\ main \in {"recover", "abort"} /\ IsIdle(Main)
    /\ \E id \in todo :
          LET sb == RowOf(id, sandboxes) IN
          /\ todo' = todo \ {id}
          /\ vms' = {v \in vms : v.id # sb.pid}
          /\ proc' = [proc EXCEPT ![Main] = [Idle EXCEPT !.pc = "read_ports", !.id = id, !.sb = sb,
                             !.ctx = IF main = "abort" THEN "cancelled" ELSE "background"]]
    /\ UNCHANGED <<regVars, taps, rules, disks, machines, main, envVars, serving>>

Listen ==
    /\ main \in {"recover", "abort"} /\ IsIdle(Main) /\ todo = {}
    /\ main' = IF main = "recover" THEN "serve" ELSE "drain"
    /\ UNCHANGED <<regVars, hostVars, machines, proc, todo, envVars, serving>>

\* The server's context is cancelled: VMs are bound to it and die, listeners
\* stop accepting, the reaper lists no more.  Reconcile, if it has not finished,
\* goes on through its list.
Stop ==
    /\ main \in {"serve", "recover"} /\ crashes < MaxCrashes
    /\ crashes' = crashes + 1
    /\ main' = IF main = "serve" THEN "drain" ELSE "abort"
    /\ proc' = IF IsIdle(Main) THEN proc ELSE [proc EXCEPT ![Main].ctx = "cancelled"]
    /\ vms' = {v \in vms : v.run # crashes} /\ serving' = {}
    /\ UNCHANGED <<regVars, taps, rules, disks, machines, todo, now, nextId>>

\* Shutdown returns when the handlers have, or after 30 s, which only the wait
\* for an agent, for a guest's shutdown or for the clones of a fan-out outlasts
\* (a command on the host is quicker); then shutdownAll starts one destroy per
\* machine.
ShutdownAll ==
    /\ main = "drain"
    /\ \A p \in Requests \cup Workers :
          proc[p].pc \in {"idle", "wait_agent", "wait_vm", "finish_clones"}
    /\ main' = "stop_all"
    /\ proc' = [p \in Goroutines |->
                  IF p \in machines THEN [Idle EXCEPT !.pc = "get_row", !.id = p] ELSE proc[p]]
    /\ UNCHANGED <<regVars, hostVars, machines, todo, envVars, serving>>

\* What ends with the process.
ProcessGone ==
    /\ main' = "down"
    /\ machines' = {} /\ todo' = {} /\ serving' = {}
    /\ proc' = [p \in Goroutines |-> Idle]

Exit ==
    /\ main = "stop_all" /\ \A id \in Ids : IsIdle(id)
    /\ ProcessGone
    /\ UNCHANGED <<regVars, hostVars, envVars>>

-----------------------------------------------------------------------------
(* Environment *)

\* The calls that are given the request's context.
UsesContext == {"insert_row", "finish_start", "wait_agent", "get_row", "read_ports", "delete_row",
                "add_port", "delete_port", "pause", "write_memory", "record_snapshot",
                "insert_restore", "finish_clones"}

\* A client hangs up: the request's context is cancelled.  It makes no difference
\* before a call that is given the context.
Disconnect(p) ==
    /\ proc[p].ctx = "request" /\ proc[p].pc \in UsesContext
    /\ proc' = [proc EXCEPT ![p].ctx = "cancelled"]
    /\ UNCHANGED <<regVars, hostVars, machines, todo, main, envVars, serving>>

\* A VM dies by itself; the goroutine waiting on it only logs.
VMExit(v) ==
    /\ Fault("exit")
    /\ vms' = vms \ {v}
    /\ serving' = serving \ {v.id}
    /\ UNCHANGED <<regVars, taps, rules, disks, memVars, envVars>>

\* The server is killed; firecracker processes live on as orphans.
Crash ==
    /\ main # "down" /\ crashes < MaxCrashes
    /\ crashes' = crashes + 1
    /\ ProcessGone
    /\ UNCHANGED <<regVars, hostVars, now, nextId>>

\* The host reboots: files and database survive, kernel state does not.
Reboot ==
    /\ main # "down" /\ crashes < MaxCrashes
    /\ crashes' = crashes + 1
    /\ ProcessGone
    /\ taps' = {} /\ rules' = EmptyBag /\ vms' = {}
    /\ UNCHANGED <<regVars, disks, now, nextId>>

Tick ==
    /\ now < MaxNow
    /\ now' = now + 1
    /\ UNCHANGED <<regVars, hostVars, memVars, nextId, crashes, serving>>

-----------------------------------------------------------------------------
Init ==
    /\ RegInit
    /\ taps = {} /\ rules = EmptyBag /\ disks = << >> /\ vms = {}
    /\ machines = {} /\ todo = {} /\ main = "serve"
    /\ proc = [p \in Goroutines |-> Idle]
    /\ now = 0 /\ nextId = 1 /\ crashes = 0 /\ serving = {}

Arrival ==
    \E p \in Requests :
        \/ \E timeout \in Timeouts : PrepareRootfs(p, timeout)
        \/ \E id \in Ids : DestroyArrives(p, id)
        \/ \E id \in Ids, guest \in GuestPorts : ExposeArrives(p, id, guest)

\* One step of a goroutine inside a handler.
Step(p) ==
    \/ InsertRow(p) \/ CreateTap(p) \/ StartVM(p) \/ AddPortForward(p)
    \/ RecordStart(p) \/ StopForce(p) \/ StoreMachine(p) \/ WaitForAgent(p)
    \/ GetRow(p) \/ ReadPorts(p) \/ TakeMachine(p) \/ WaitVM(p)
    \/ RemoveForwards(p) \/ DeleteTap(p) \/ RemoveRootfs(p) \/ DeleteRow(p)
    \/ AllocatePort(p) \/ ForwardExtra(p) \/ UndoPort(p)

Serve == Restart \/ ReconcileNext \/ Listen \/ ShutdownAll \/ Exit

Environment ==
    \/ \E p \in Requests : Disconnect(p)
    \/ \E v \in vms : VMExit(v)
    \/ Stop \/ Crash \/ Reboot \/ Tick

Next ==
    \/ Arrival
    \/ \E p \in Goroutines : Step(p)
    \/ \E id \in Ids, timeout \in Timeouts : SetTimeout(id, timeout)
    \/ ReaperTick \/ ReapNext
    \/ Serve
    \/ Environment

Spec == Init /\ [][Next]_vars

\* Go schedules every runnable goroutine and the external commands return.
FairSpec ==
    /\ Spec
    /\ \A p \in Goroutines : WF_vars(Step(p))
    /\ WF_vars(ReaperTick) /\ WF_vars(ReapNext) /\ WF_vars(Serve) /\ WF_vars(Tick)

-----------------------------------------------------------------------------
(* Properties *)

PCs == {"idle", "insert_row", "create_tap", "start_vm", "forward", "finish_start",
        "stop_force", "store", "wait_agent", "get_row", "read_ports", "take_machine",
        "wait_vm", "remove_forwards", "delete_tap", "remove_rootfs", "delete_row",
        "add_port", "add_forward", "delete_port"}

\* The local variables of a goroutine.
Frame ==
    [pc : PCs, id : Ids \cup {0}, sb : Sandbox \cup {NoRow}, extra : SUBSET PortRow,
     guest : GuestPorts \cup {0}, host : HostPorts \cup {0},
     expires : Deadlines \cup {NULL}, ctx : {"request", "cancelled", "background", "parent"},
     snap : Snapshot \cup {NoRow}, by : Requests \cup {0}, staged : BOOLEAN]

\* A firecracker process.
VM == [id : Ids, tap : Taps, ip : IPs \cup {0}, mmds : IPs \cup {0}, dev : Ids,
       run : 0 .. MaxCrashes, disk : Ids \cup {0}, paused : BOOLEAN, ver : Nat]

\* A DNAT rule.
Rule == [chain : {"PREROUTING", "OUTPUT"}, host : HostPorts, ip : IPs,
         guest : GuestPorts \cup {PrimaryPort}]

\* Host state, server memory and history have the shape the code gives them.
LifeTypeOK ==
    /\ RegTypeOK
    /\ taps \subseteq [tap : Taps, owner : Ids, bridged : BOOLEAN]
    /\ IsABag(rules)
    /\ BagToSet(rules) \subseteq Rule
    /\ DOMAIN disks \subseteq Ids /\ \A path \in DOMAIN disks : disks[path] \in Nat
    /\ machines \subseteq Ids /\ todo \subseteq Ids
    /\ serving \subseteq Ids
    /\ vms \subseteq VM
    /\ proc \in [Goroutines -> Frame]
    /\ main \in {"serve", "drain", "stop_all", "down", "recover", "abort"}
    /\ now \in 0 .. MaxNow /\ crashes \in 0 .. MaxCrashes /\ nextId \in Ids \cup {Cardinality(Ids) + 1}

\* A sandbox is whole: its row, its machine, its VM running at its address on its
\* own disk and its own tap device, and its two DNAT rules are all in place.
Whole(id) ==
    /\ id \in machines
    /\ \E r \in sandboxes :
          /\ r.id = id
          /\ r.rootfs \in DOMAIN disks
          /\ \E v \in vms : /\ v.id = id /\ v.dev = id /\ v.tap = r.tap /\ OnBridge(v)
                           /\ v.ip = r.ip /\ v.disk = r.rootfs
          /\ Forward(r.port, r.ip, PrimaryPort) \subseteq BagToSet(rules)

\* What another call does never damages a sandbox whose create was answered
\* 201 and that nobody has asked to destroy ("Each sandbox gets its own tap
\* device, guest IP, host port, and rootfs copy", README.md:31).
ServingWhole == \A id \in serving : Whole(id)

\* The resources a row accounts for.
RowRules(r) ==
    Forward(r.port, r.ip, PrimaryPort) \cup
    UNION {Forward(m.host, r.ip, m.guest) : m \in Ports(r.id)}

\* At every moment, hence at every moment the server may be killed, a tap or a
\* DNAT rule on the host is one some row accounts for: the row is written
\* before they are made and deleted after they are gone, so that reconcile,
\* which only knows rows, finds them all.
KernelStateRecorded ==
    /\ \A d \in taps : \E r \in sandboxes : r.tap = d.tap
    /\ \A f \in BagToSet(rules) : \E r \in sandboxes : f \in RowRules(r)

\* While the server is not killed, a firecracker process belongs to a row, and
\* so does a rootfs file unless its create has not inserted the row yet: no
\* error path leaves either behind.
NothingLeaked ==
    /\ \A v \in vms : Get(v.id) # {}
    /\ \A d \in DOMAIN disks :
          \/ \E r \in sandboxes : r.rootfs = d
          \/ \E p \in Requests : proc[p].pc = "insert_row" /\ proc[p].id = d

\* Reconcile reaches every row and everything a row accounts for: when the
\* server starts to listen, the registry is empty and no tap and no rule of the
\* previous run is left.
Recovered ==
    [][main = "recover" /\ main' = "serve" =>
        sandboxes = {} /\ sandbox_ports = {} /\ taps = {} /\ rules = EmptyBag]_vars

\* "orphaned firecracker processes are killed and stale taps, rootfs copies,
\* DNAT rules, and registry rows are cleaned up" (README.md:77).
OrphansKilled == [][main = "recover" /\ main' = "serve" => vms = {} /\ disks = << >>]_vars

\* A VM is bound to the context it was started under: after a graceful stop
\* none of the stopped run's firecracker processes is left, whatever handlers
\* were cut off.
StopKillsVMs == main \in {"drain", "stop_all"} => \A v \in vms : v.run < crashes - 1

\* "exposing an already-mapped guest port returns the existing mapping without
\* adding a second DNAT rule" (internal/server/ports.go:12-13): a destroy takes
\* one copy away, so a second one would go on forwarding to the address's next
\* holder.
NoDuplicateRule == \A f \in BagToSet(rules) : rules[f] = 1

\* A sandbox whose deadline has passed is eventually gone, or its deadline was
\* moved, whatever other handlers do to it meanwhile.
ExpiredReaped ==
    \A id \in Ids :
        (\E r \in Expired(now) : r.id = id) ~> ~(\E r \in Expired(now) : r.id = id)
=============================================================================
