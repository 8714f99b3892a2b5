---------------------------- MODULE KernelProofs ----------------------------
(***************************************************************************)
(* What the server leaves in the kernel, proved for disciplined clients:   *)
(* no call on a sandbox another call works on, no deadlines, and iptables  *)
(* commands that fail as a whole.                                          *)
(***************************************************************************)
EXTENDS LifecycleProofs

\* What the theorems below suppose.  A destroy that meets another destroy or the
\* reaper works from a row that may be gone, with resources that may be another
\* sandbox's; an iptables command that fails half way leaves a rule nobody removes.
Disciplined == ~Overlap /\ Timeouts \subseteq {0} /\ "forward_partial" \notin Faults

\* The steps of destroy.
Destroying == {"get_row", "read_ports", "take_machine", "wait_vm", "remove_forwards", "delete_tap",
               "remove_rootfs", "delete_row"}

\* One goroutine per sandbox, until a graceful stop destroys the ones it finds.
Alone ==
    \A p, q \in Goroutines : p # q /\ proc[p].id # 0 /\ proc[p].id = proc[q].id => main = "stop_all"

\* Handlers run while the server serves or drains; what a stop still finds under
\* way waits for an agent or destroys.  Nothing has a deadline.
Quiet ==
    /\ \A p \in Goroutines : main \in {"serve", "drain"} /\ proc[p].pc # "idle" => p \in Requests
    /\ main = "stop_all" => \A p \in Goroutines : proc[p].pc \in Destroying \cup {"idle", "wait_agent"}
    /\ main \notin {"recover", "abort"} => todo = {}
    /\ \A r \in sandboxes : r.expires = NULL
    /\ \A p \in Goroutines : proc[p].expires = NULL

\* Ids are handed out once.
Fresh ==
    /\ \A p \in Goroutines : proc[p].id < nextId
    /\ \A r \in sandboxes : r.id < nextId
    /\ \A id \in machines : id < nextId

\* A goroutine's copy of its row is still good as long as there is a row.
CopyGood(p) ==
    proc[p].pc \in WithRow => \A r \in sandboxes : r.id = proc[p].id =>
        r.tap = proc[p].sb.tap /\ r.ip = proc[p].sb.ip /\ r.port = proc[p].sb.port

\* A goroutine that is about to give its sandbox a tap or a rule has a row.
RowThere(p) ==
    proc[p].pc \in {"create_tap", "start_vm", "forward", "add_forward"} =>
        \E r \in sandboxes : r.id = proc[p].id

\* No rule leads to the sandbox before it is forwarded, nor once its forwards are
\* removed; a destroy whose client has hung up does not know all of them, nor
\* will it delete the row.
NoRules(id) ==
    \A f \in BagToSet(rules) : \A r \in sandboxes : r.id = id => f.ip # r.ip
RulesGone(p) ==
    \/ proc[p].pc \in {"create_tap", "start_vm", "forward", "stop_force"}
    \/ proc[p].pc \in {"delete_tap", "remove_rootfs", "delete_row"} /\ proc[p].ctx # "cancelled"
  => NoRules(proc[p].id)

\* A sandbox that is being created has no extra mapping.
NoPortsYet(p) ==
    proc[p].pc \in {"create_tap", "start_vm", "forward", "finish_start"} =>
        \A m \in sandbox_ports : m.id # proc[p].id

\* Its tap is gone before the row is.
TapGone(p) ==
    proc[p].pc \in {"remove_rootfs", "delete_row"} =>
        \A d \in taps : \A r \in sandboxes : r.id = proc[p].id => d.tap # r.tap

\* A destroy knows all mappings, or will not delete the row.
PortsKnown(p) ==
    proc[p].pc \in {"take_machine", "wait_vm", "remove_forwards"} /\ proc[p].ctx # "cancelled" =>
        Ports(proc[p].id) \subseteq proc[p].extra

\* An expose has found its guest port unmapped; the mapping it then makes has no
\* rule before it is forwarded, nor when it is taken back.
ExposeAlone(p) ==
    /\ proc[p].pc = "add_port" => \A m \in Ports(proc[p].id) : m.guest # proc[p].guest
    /\ proc[p].pc \in {"add_forward", "delete_port"} =>
          /\ \E m \in Ports(proc[p].id) : m.guest = proc[p].guest /\ m.host = proc[p].host
          /\ \A f \in BagToSet(rules) : f.host # proc[p].host

GoroutineOK(p) ==
    /\ CopyGood(p) /\ RowThere(p) /\ RulesGone(p) /\ NoPortsYet(p) /\ TapGone(p) /\ PortsKnown(p)
    /\ ExposeAlone(p)

KernelInv ==
    /\ Alone /\ Quiet /\ Fresh /\ NoDuplicateRule /\ KernelStateRecorded
    /\ \A p \in Goroutines : GoroutineOK(p)

\* A goroutine at one of these steps promises nothing.
LEMMA NothingPromised ==
    ASSUME NEW p, proc'[p].pc \in {"idle", "get_row", "insert_row"}
    PROVE  GoroutineOK(p)'
BY DEF GoroutineOK, CopyGood, RowThere, RulesGone, NoPortsYet, TapGone, PortsKnown, ExposeAlone, WithRow

\* What the others do may take from a goroutine's sandbox only its row, and only
\* when it does not count on it, and gives the sandbox nothing.
Undisturbed(q) ==
    LET id == proc[q].id IN
    /\ \A r \in sandboxes' : r.id = id => \E s \in sandboxes : SameHolding(r, s)
    /\ proc[q].pc \in {"create_tap", "start_vm", "forward", "add_forward"} =>
          \A r \in sandboxes : r.id = id => \E s \in sandboxes' : s.id = id
    /\ \A m \in sandbox_ports' : m.id = id => m \in sandbox_ports
    /\ proc[q].pc \in {"add_forward", "delete_port"} =>
          \A m \in sandbox_ports : m.id = id => m \in sandbox_ports'
    /\ \A f \in BagToSet(rules') : f \notin BagToSet(rules) =>
          /\ \A r \in sandboxes : r.id = id => f.ip # r.ip
          /\ proc[q].pc \in {"add_forward", "delete_port"} => f.host # proc[q].host
    /\ \A d \in taps' : d \notin taps => \A r \in sandboxes : r.id = id => d.tap # r.tap

\* A goroutine that does not move keeps its promises when it is undisturbed.
LEMMA OthersKeep ==
    ASSUME NEW q, GoroutineOK(q), proc'[q] = proc[q], Undisturbed(q)
    PROVE  GoroutineOK(q)'
<1> USE DEF GoroutineOK, SameHolding
<1>1. CopyGood(q)' BY DEF Undisturbed, CopyGood
<1>2. RowThere(q)' BY DEF Undisturbed, RowThere
<1>3. RulesGone(q)' BY DEF Undisturbed, RulesGone, NoRules
<1>4. NoPortsYet(q)' BY DEF Undisturbed, NoPortsYet
<1>5. TapGone(q)' BY DEF Undisturbed, TapGone
<1>6. PortsKnown(q)' BY DEF Undisturbed, PortsKnown, Ports
<1>7. ExposeAlone(q)' BY DEF Undisturbed, ExposeAlone, Ports
<1> QED BY <1>1, <1>2, <1>3, <1>4, <1>5, <1>6, <1>7

\* Steps that leave registry, rules and taps alone, or only take taps and rules
\* away, disturb nobody.
LEMMA ShrinkingKeeps ==
    ASSUME NEW q, UNCHANGED regVars, taps' \subseteq taps, BagToSet(rules') \subseteq BagToSet(rules)
    PROVE  Undisturbed(q)
BY DEF Undisturbed, regVars, SameHolding

\* Taps and rules that only go leave the rest recorded.
LEMMA ShrinkingRecorded ==
    ASSUME KernelStateRecorded, UNCHANGED regVars, taps' \subseteq taps,
           BagToSet(rules') \subseteq BagToSet(rules)
    PROVE  KernelStateRecorded'
<1>1. \A r : RowRules(r)' = RowRules(r) BY DEF RowRules, Ports, regVars
<1> QED BY <1>1 DEF KernelStateRecorded, regVars

\* The rows a step writes are its own, and a destroy only goes on with destroying.
LEMMA StepEffects ==
    ASSUME ProcOK, RegInv, NEW p \in Goroutines, Step(p)
    PROVE  /\ \A r \in sandboxes' :
                \/ \E s \in sandboxes : r.id = s.id /\ r.expires = s.expires
                \/ r.id = proc[p].id /\ r.expires = proc[p].expires
           /\ machines' \subseteq machines \cup {proc[p].id}
           /\ proc[p].pc \in Destroying \cup {"wait_agent"} => proc'[p].pc \in Destroying \cup {"idle"}
           /\ proc'[p].expires \in {proc[p].expires, NULL}
<1>0. proc[p] \in Frame /\ proc \in [Goroutines -> Frame] BY DEF ProcOK
<1> USE <1>0 DEF Frame, GoTo, Return, Rollback, Idle, Destroying, regVars
<1>1. CASE InsertRow(p) BY <1>1 DEF InsertRow, Create, InsertSandbox
<1>2. CASE CreateTap(p) BY <1>2 DEF CreateTap
<1>3. CASE StartVM(p) BY <1>3 DEF StartVM
<1>4. CASE AddPortForward(p) BY <1>4 DEF AddPortForward, AddPortForwardTo
<1>5. CASE RecordStart(p)
  <2>1. ASSUME FinishStart(proc[p].sb.id, proc[p].sb.id), NEW r \in sandboxes'
        PROVE  \E s \in sandboxes : r.id = s.id /\ r.expires = s.expires
    BY <2>1 DEF FinishStart, RegInv, RegTypeOK, Sandbox
  <2> QED BY <1>5, <2>1 DEF RecordStart
<1>6. CASE StopForce(p) BY <1>6 DEF StopForce
<1>7. CASE StoreMachine(p) BY <1>7 DEF StoreMachine
<1>8. CASE WaitForAgent(p)
  <2> DEFINE x == [Idle EXCEPT !.pc = "get_row", !.id = proc[p].id, !.by = proc[p].by]
  <2>1. x.pc = "get_row" /\ x.expires = NULL BY DEF Idle
  <2>2. /\ proc[p].pc = "wait_agent" /\ UNCHANGED <<sandboxes, machines>>
        /\ proc' = [proc EXCEPT ![p] = Idle] \/ proc' = [proc EXCEPT ![p] = x]
    BY <1>8 DEF WaitForAgent
  <2> HIDE DEF x
  <2> QED BY <2>1, <2>2
<1>9. CASE GetRow(p) BY <1>9 DEF GetRow
<1>10. CASE ReadPorts(p) BY <1>10 DEF ReadPorts
<1>11. CASE TakeMachine(p) BY <1>11 DEF TakeMachine
<1>12. CASE WaitVM(p) BY <1>12 DEF WaitVM
<1>13. CASE RemoveForwards(p) BY <1>13 DEF RemoveForwards
<1>14. CASE DeleteTap(p) BY <1>14 DEF DeleteTap
<1>15. CASE RemoveRootfs(p) BY <1>15 DEF RemoveRootfs
<1>16. CASE DeleteRow(p) BY <1>16 DEF DeleteRow, Destroy
<1>17. CASE AllocatePort(p) BY <1>17 DEF AllocatePort, AddPort
<1>18. CASE ForwardExtra(p) BY <1>18 DEF ForwardExtra, AddPortForwardTo
<1>19. CASE UndoPort(p) BY <1>19 DEF UndoPort, DeletePort
<1> QED BY <1>1, <1>2, <1>3, <1>4, <1>5, <1>6, <1>7, <1>8, <1>9, <1>10, <1>11, <1>12, <1>13, <1>14, <1>15, <1>16, <1>17, <1>18, <1>19
    DEF Step

\* What every step of a goroutine leaves in order.
LEMMA StepKeepsOrder ==
    ASSUME LifeInv, KernelInv, NEW p \in Goroutines, Step(p)
    PROVE  Alone' /\ Quiet' /\ Fresh'
<1> USE DEF LifeInv, LifeTypes, KernelInv
<1>0. /\ proc[p] \in Frame /\ proc \in [Goroutines -> Frame] /\ LocalOK(proc[p])
      /\ Moves(p) /\ ProcOK'
  BY StepMoves, NextKeepsTypes DEF ProcOK, Next
<1>1. proc'[p].id = proc[p].id \/ proc'[p].id = 0 BY <1>0 DEF Moves, ProcOK, LocalOK
<1>2. Alone' BY <1>0, <1>1 DEF Alone, Moves
<1>3. proc[p].id \in Ids BY <1>0 DEF LocalOK, Moves
<1>4. Fresh'
  <2>1. \A q \in Goroutines : proc'[q].id < nextId'
    <3>1. 0 < nextId BY CardinalityIds DEF EnvOK
    <3> QED BY <1>0, <1>1, <3>1 DEF Fresh, Moves
  <2>2. \A r \in sandboxes' : (\E s \in sandboxes : r.id = s.id) \/ r.id = proc[p].id BY StepEffects
  <2>3. \A id \in machines' : id \in machines \/ id = proc[p].id BY StepEffects
  <2> QED BY <1>0, <2>1, <2>2, <2>3 DEF Fresh, Moves
<1>5. Quiet'
  <2>1. main = "stop_all" => proc'[p].pc \in Destroying \cup {"idle", "wait_agent"}
    BY <1>0, StepEffects DEF Quiet, Moves
  <2>2. \A r \in sandboxes' : (\E s \in sandboxes : r.expires = s.expires) \/ r.expires = proc[p].expires
    BY StepEffects
  <2>3. proc'[p].expires \in {proc[p].expires, NULL} BY StepEffects
  <2> QED BY <1>0, <2>1, <2>2, <2>3 DEF Quiet, Moves
<1> QED BY <1>2, <1>4, <1>5

\* The local variables after a step that only goes on.
SameFrame(p) ==
    /\ proc'[p].id = proc[p].id /\ proc'[p].sb = proc[p].sb /\ proc'[p].extra = proc[p].extra
    /\ proc'[p].guest = proc[p].guest /\ proc'[p].host = proc[p].host

\* GoTo changes the step, nothing else.
LEMMA GoToFrame ==
    ASSUME ProcOK, NEW p \in Goroutines, NEW c, GoTo(p, c)
    PROVE  proc'[p].pc = c /\ SameFrame(p) /\ proc'[p].ctx = proc[p].ctx
BY DEF ProcOK, Frame, GoTo, SameFrame

\* rollbackPreVM goes on with a background context.
LEMMA RollbackFrame ==
    ASSUME ProcOK, NEW p \in Goroutines, Rollback(p)
    PROVE  proc'[p].pc = "delete_tap" /\ SameFrame(p) /\ proc'[p].ctx = "background"
BY DEF ProcOK, Frame, Rollback, SameFrame

\* No goroutine of Lifecycle works under the context of another.
LEMMA CancelledCtx ==
    ASSUME ProcOK, NEW p \in Goroutines PROVE Cancelled(p) <=> proc[p].ctx = "cancelled"
BY DEF ProcOK, LocalOK, Cancelled

\* Nobody else is at work on the sandbox of a goroutine at one of these steps.
LEMMA AloneAtWork ==
    ASSUME KernelInv, LifeInv, NEW p \in Goroutines, NEW q \in Goroutines, p # q,
           proc[p].pc \notin Destroying \cup {"idle", "wait_agent"}
    PROVE  proc[q].id # proc[p].id
<1>1. main # "stop_all" BY DEF KernelInv, Quiet
<1>2. proc[p].id # 0 BY CardinalityIds DEF LifeInv, LifeTypes, ProcOK, LocalOK
<1> QED BY <1>1, <1>2 DEF KernelInv, Alone

\* What a step owes besides order.
Kernel == NoDuplicateRule /\ KernelStateRecorded /\ \A q \in Goroutines : GoroutineOK(q)

\* A step that touches neither registry nor rules nor taps owes only what its own
\* goroutine promises next.
LEMMA LocalStep ==
    ASSUME KernelInv, NEW p \in Goroutines, Moves(p), UNCHANGED <<regVars, taps, rules>>, GoroutineOK(p)'
    PROVE  Kernel'
<1> USE DEF KernelInv
<1>1. \A q \in Goroutines \ {p} : GoroutineOK(q)' BY OthersKeep, ShrinkingKeeps DEF Moves
<1>2. KernelStateRecorded' BY ShrinkingRecorded
<1>3. NoDuplicateRule' BY DEF NoDuplicateRule
<1> QED BY <1>1, <1>2, <1>3 DEF Kernel

\* The steps that touch neither registry nor rules nor taps.
LEMMA LocalStepsKeepKernel ==
    ASSUME LifeInv, KernelInv, NEW p \in Goroutines, Step(p),
           \/ StartVM(p) \/ StopForce(p) \/ StoreMachine(p) \/ WaitForAgent(p) \/ GetRow(p)
           \/ ReadPorts(p) \/ TakeMachine(p) \/ WaitVM(p) \/ RemoveRootfs(p)
    PROVE  Kernel'
<1> USE DEF LifeInv, LifeTypes, KernelInv
<1>0. proc \in [Goroutines -> Frame] /\ proc[p] \in Frame /\ Moves(p) /\ GoroutineOK(p)
  BY StepMoves DEF ProcOK
<1>1. ASSUME UNCHANGED <<regVars, taps, rules>>, SameFrame(p), proc[p].pc \in WithRow,
             \/ proc[p].pc = "start_vm" /\ proc'[p].pc \in {"forward", "delete_tap"}
             \/ proc[p].pc = "stop_force" /\ proc'[p].pc = "delete_tap"
             \/ proc[p].pc = "store" /\ proc'[p].pc = "wait_agent"
             \/ proc[p].pc = "take_machine" /\ proc'[p].pc \in {"wait_vm", "remove_forwards"}
                   /\ proc'[p].ctx = proc[p].ctx
             \/ proc[p].pc = "wait_vm" /\ proc'[p].pc = "remove_forwards" /\ proc'[p].ctx = proc[p].ctx
             \/ proc[p].pc = "remove_rootfs" /\ proc'[p].pc = "delete_row" /\ proc'[p].ctx = proc[p].ctx
      PROVE  Kernel'
  <2> USE <1>0, <1>1 DEF SameFrame, regVars
  <2>1. CopyGood(p)' BY DEF GoroutineOK, CopyGood
  <2>2. RowThere(p)' /\ NoPortsYet(p)' /\ TapGone(p)' BY DEF GoroutineOK, RowThere, NoPortsYet, TapGone
  <2>3. RulesGone(p)' BY DEF GoroutineOK, RulesGone, NoRules
  <2>4. PortsKnown(p)' /\ ExposeAlone(p)' BY DEF GoroutineOK, PortsKnown, ExposeAlone, Ports
  <2> QED BY <2>1, <2>2, <2>3, <2>4, LocalStep DEF GoroutineOK
<1>2. CASE StartVM(p) BY <1>1, <1>2, GoToFrame, RollbackFrame DEF StartVM, WithRow, PCs
<1>3. CASE StopForce(p) BY <1>1, <1>3, RollbackFrame DEF StopForce, WithRow, PCs
<1>4. CASE StoreMachine(p) BY <1>1, <1>4, GoToFrame DEF StoreMachine, hostVars, WithRow, PCs
<1>5. CASE TakeMachine(p) BY <1>1, <1>5, GoToFrame DEF TakeMachine, hostVars, WithRow, PCs
<1>6. CASE WaitVM(p) BY <1>1, <1>6, GoToFrame DEF WaitVM, WithRow, PCs
<1>7. CASE RemoveRootfs(p) BY <1>1, <1>7, GoToFrame DEF RemoveRootfs, WithRow, PCs
<1>8. CASE WaitForAgent(p)
  <2> DEFINE x == [Idle EXCEPT !.pc = "get_row", !.id = proc[p].id, !.by = proc[p].by]
  <2>1. x.pc = "get_row" /\ Idle.pc = "idle" BY DEF Idle
  <2>2. /\ UNCHANGED <<regVars, taps, rules>>
        /\ proc' = [proc EXCEPT ![p] = Idle] \/ proc' = [proc EXCEPT ![p] = x]
    BY <1>8 DEF WaitForAgent, Return, hostVars
  <2> HIDE DEF x
  <2>3. proc'[p].pc \in {"idle", "get_row"} BY <1>0, <2>1, <2>2
  <2> QED BY <1>0, <2>2, <2>3, LocalStep, NothingPromised
<1>9. CASE GetRow(p)
  <2>1. CASE Return(p)
    <3>1. proc'[p].pc = "idle" BY <1>0, <2>1 DEF Return, Idle
    <3> QED BY <1>0, <1>9, <3>1, LocalStep, NothingPromised DEF GetRow, hostVars
  <2>2. CASE Get(proc[p].id) # {} /\
             proc' = [proc EXCEPT ![p].pc = "read_ports", ![p].sb = RowOf(proc[p].id, sandboxes)]
    <3>1. /\ proc'[p].pc = "read_ports" /\ proc'[p].sb = RowOf(proc[p].id, sandboxes)
          /\ proc'[p].id = proc[p].id
      BY <1>0, <2>2 DEF Frame
    <3>2. RowOf(proc[p].id, sandboxes) \in sandboxes /\ RowOf(proc[p].id, sandboxes).id = proc[p].id
      BY <2>2 DEF RowOf, Get
    <3>3. UNCHANGED <<regVars, taps, rules>> BY <1>9 DEF GetRow, hostVars
    <3>4. CopyGood(p)' BY <3>1, <3>2, <3>3, OneRow DEF CopyGood, regVars
    <3>5. GoroutineOK(p)'
      BY <3>1, <3>4 DEF GoroutineOK, RowThere, RulesGone, NoPortsYet, TapGone, PortsKnown, ExposeAlone
    <3> QED BY <1>0, <3>3, <3>5, LocalStep
  <2> QED BY <1>9, <2>1, <2>2 DEF GetRow
<1>10. CASE ReadPorts(p)
  <2>1. /\ proc[p].pc = "read_ports" /\ proc'[p].pc = "take_machine" /\ proc'[p].id = proc[p].id
        /\ proc'[p].sb = proc[p].sb /\ proc'[p].ctx = proc[p].ctx
        /\ proc'[p].extra = IF Cancelled(p) THEN {} ELSE Ports(proc[p].id)
    BY <1>0, <1>10 DEF ReadPorts, Frame
  <2>2. UNCHANGED <<regVars, taps, rules>> BY <1>10 DEF ReadPorts, hostVars
  <2>3. CopyGood(p)' BY <1>0, <2>1, <2>2 DEF GoroutineOK, CopyGood, regVars, WithRow, PCs
  <2>4. PortsKnown(p)' BY <2>1, <2>2, CancelledCtx DEF PortsKnown, Ports, regVars
  <2>5. GoroutineOK(p)'
    BY <2>1, <2>3, <2>4 DEF GoroutineOK, RowThere, RulesGone, NoPortsYet, TapGone, ExposeAlone
  <2> QED BY <1>0, <2>2, <2>5, LocalStep
<1> QED BY <1>2, <1>3, <1>4, <1>5, <1>6, <1>7, <1>8, <1>9, <1>10

\* Taps.
LEMMA TapStepsKeepKernel ==
    ASSUME LifeInv, KernelInv, NEW p \in Goroutines, Step(p), CreateTap(p) \/ DeleteTap(p)
    PROVE  Kernel'
<1> USE DEF LifeInv, LifeTypes, KernelInv
<1>0. proc \in [Goroutines -> Frame] /\ proc[p] \in Frame /\ Moves(p) /\ GoroutineOK(p)
  BY StepMoves DEF ProcOK
<1>1. CASE DeleteTap(p)
  <2>1. /\ proc[p].pc = "delete_tap" /\ proc'[p].pc = "remove_rootfs" /\ SameFrame(p)
        /\ proc'[p].ctx = proc[p].ctx /\ taps' = {d \in taps : d.tap # proc[p].sb.tap}
        /\ UNCHANGED <<regVars, rules>>
    BY <1>1, GoToFrame DEF DeleteTap
  <2>2. CopyGood(p)' BY <1>0, <2>1 DEF GoroutineOK, CopyGood, SameFrame, regVars, WithRow, PCs
  <2>3. TapGone(p)' BY <1>0, <2>1 DEF GoroutineOK, CopyGood, TapGone, SameFrame, regVars, WithRow, PCs
  <2>4. RulesGone(p)' BY <1>0, <2>1 DEF GoroutineOK, RulesGone, NoRules, SameFrame, regVars
  <2>5. GoroutineOK(p)'
    BY <2>1, <2>2, <2>3, <2>4 DEF GoroutineOK, RowThere, NoPortsYet, PortsKnown, ExposeAlone
  <2>6. \A q \in Goroutines \ {p} : GoroutineOK(q)'
    BY <1>0, <2>1, OthersKeep, ShrinkingKeeps DEF Moves
  <2>7. KernelStateRecorded' BY <2>1, ShrinkingRecorded
  <2>8. NoDuplicateRule' BY <2>1 DEF NoDuplicateRule
  <2> QED BY <2>5, <2>6, <2>7, <2>8 DEF Kernel
<1>2. CASE CreateTap(p)
  <2>1. /\ proc[p].pc = "create_tap" /\ UNCHANGED <<regVars, rules>>
        /\ \A d \in taps' : d \in taps \/ d.tap = proc[p].sb.tap
    BY <1>2 DEF CreateTap
  <2>2. /\ SameFrame(p)
        /\ proc'[p].pc = "start_vm" \/ proc'[p].pc = "delete_tap"
    BY <1>2, GoToFrame, RollbackFrame DEF CreateTap
  <2>3. PICK r \in sandboxes : r.id = proc[p].id /\ r.tap = proc[p].sb.tap
    BY <1>0, <2>1 DEF GoroutineOK, RowThere, CopyGood, WithRow, PCs
  <2>4. CopyGood(p)' /\ RowThere(p)' /\ NoPortsYet(p)'
    BY <1>0, <2>1, <2>2 DEF GoroutineOK, CopyGood, RowThere, NoPortsYet, SameFrame, regVars, WithRow, PCs
  <2>5. RulesGone(p)' BY <1>0, <2>1, <2>2 DEF GoroutineOK, RulesGone, NoRules, SameFrame, regVars
  <2>6. GoroutineOK(p)' BY <2>2, <2>4, <2>5 DEF GoroutineOK, TapGone, PortsKnown, ExposeAlone
  <2>7. ASSUME NEW q \in Goroutines \ {p} PROVE GoroutineOK(q)'
    <3>1. proc[q].id # proc[p].id BY <2>1, AloneAtWork DEF Destroying
    <3>2. \A d \in taps' : d \notin taps => \A s \in sandboxes : s.id = proc[q].id => d.tap # s.tap
      BY <2>1, <2>3, <3>1, OneRow
    <3>3. Undisturbed(q) BY <2>1, <3>2 DEF Undisturbed, regVars, SameHolding
    <3> QED BY <1>0, <3>3, OthersKeep DEF Moves
  <2>8. KernelStateRecorded'
    <3>1. \A s : RowRules(s)' = RowRules(s) BY <2>1 DEF RowRules, Ports, regVars
    <3> QED BY <2>1, <2>3, <3>1 DEF KernelStateRecorded, regVars
  <2>9. NoDuplicateRule' BY <2>1 DEF NoDuplicateRule
  <2> QED BY <2>6, <2>7, <2>8, <2>9 DEF Kernel
<1> QED BY <1>1, <1>2

\* The rules that carry a sandbox's address are the ones its row accounts for.
LEMMA RulesByAddress ==
    ASSUME RegInv, KernelStateRecorded, NEW f \in BagToSet(rules), NEW r \in sandboxes, f.ip = r.ip
    PROVE  f \in RowRules(r)
<1>1. PICK s \in sandboxes : f \in RowRules(s) BY DEF KernelStateRecorded
<1>2. f.ip = s.ip BY <1>1, RowRulesAddress
<1> QED BY <1>1, <1>2, OneRow

\* Rules are taken away.
LEMMA UnforwardStepsKeepKernel ==
    ASSUME LifeInv, KernelInv, NEW p \in Goroutines, Step(p),
           RemoveForwards(p) \/ (RecordStart(p) /\ UNCHANGED regVars)
    PROVE  Kernel'
<1> USE DEF LifeInv, LifeTypes, KernelInv
<1>0. proc \in [Goroutines -> Frame] /\ proc[p] \in Frame /\ Moves(p) /\ GoroutineOK(p)
  BY StepMoves DEF ProcOK
<1>1. ASSUME NEW R, rules' = Without(R), UNCHANGED <<regVars, taps>>, GoroutineOK(p)' PROVE Kernel'
  <2>1. NoDuplicateRule' /\ BagToSet(rules') = BagToSet(rules) \ R BY <1>1, RemoveRules DEF Without, RulesOK
  <2>2. \A q \in Goroutines \ {p} : GoroutineOK(q)'
    BY <1>0, <1>1, <2>1, OthersKeep, ShrinkingKeeps DEF Moves
  <2>3. KernelStateRecorded' BY <1>1, <2>1, ShrinkingRecorded
  <2> QED BY <1>1, <2>1, <2>2, <2>3 DEF Kernel
<1>2. CASE RemoveForwards(p)
  <2> DEFINE sb == proc[p].sb
             R == Forward(sb.port, sb.ip, PrimaryPort) \cup
                  UNION {Forward(m.host, sb.ip, m.guest) : m \in proc[p].extra}
  <2>1. /\ proc[p].pc = "remove_forwards" /\ proc'[p].pc = "delete_tap" /\ SameFrame(p)
        /\ proc'[p].ctx = proc[p].ctx /\ rules' = Without(R) /\ UNCHANGED <<regVars, taps>>
    BY <1>2, GoToFrame DEF RemoveForwards
  <2>2. BagToSet(rules') = BagToSet(rules) \ R BY <2>1, RemoveRules DEF Without, RulesOK
  <2>3. CopyGood(p)' BY <1>0, <2>1 DEF GoroutineOK, CopyGood, SameFrame, regVars, WithRow, PCs
  <2>4. ASSUME proc[p].ctx # "cancelled", NEW f \in BagToSet(rules), NEW r \in sandboxes,
               r.id = proc[p].id, f.ip = r.ip
        PROVE  f \in R
    <3>1. f \in RowRules(r) BY <2>4, RulesByAddress
    <3>2. r.ip = sb.ip /\ r.port = sb.port BY <1>0, <2>1, <2>4 DEF GoroutineOK, CopyGood, WithRow, PCs
    <3>3. \A m \in sandbox_ports : m.id = r.id => m \in proc[p].extra
      BY <1>0, <2>1, <2>4 DEF GoroutineOK, PortsKnown, Ports
    <3> QED BY <3>1, <3>2, <3>3, RowRulesMembers
  <2> HIDE DEF R
  <2>5. RulesGone(p)' BY <2>1, <2>2, <2>4 DEF RulesGone, NoRules, SameFrame, regVars
  <2>6. GoroutineOK(p)'
    BY <2>1, <2>3, <2>5 DEF GoroutineOK, RowThere, NoPortsYet, TapGone, PortsKnown, ExposeAlone
  <2> QED BY <1>1, <2>1, <2>6
<1>3. CASE RecordStart(p) /\ UNCHANGED regVars
  <2> DEFINE sb == proc[p].sb
             R == Forward(sb.port, sb.ip, PrimaryPort)
  <2>1. CASE GoTo(p, "store") /\ rules' = rules
    <3>1. /\ proc[p].pc = "finish_start" /\ proc'[p].pc = "store" /\ SameFrame(p)
          /\ UNCHANGED <<regVars, taps, rules>>
      BY <1>3, <2>1, GoToFrame DEF RecordStart
    <3>2. CopyGood(p)' BY <1>0, <3>1 DEF GoroutineOK, CopyGood, SameFrame, regVars, WithRow, PCs
    <3>3. GoroutineOK(p)'
      BY <3>1, <3>2 DEF GoroutineOK, RowThere, RulesGone, NoPortsYet, TapGone, PortsKnown, ExposeAlone
    <3> QED BY <1>0, <3>1, <3>3, LocalStep
  <2>2. CASE GoTo(p, "stop_force") /\ rules' = Without(R)
    <3>1. /\ proc[p].pc = "finish_start" /\ proc'[p].pc = "stop_force" /\ SameFrame(p)
          /\ UNCHANGED <<regVars, taps>> /\ rules' = Without(R)
      BY <1>3, <2>2, GoToFrame DEF RecordStart
    <3>2. BagToSet(rules') = BagToSet(rules) \ R BY <3>1, RemoveRules DEF Without, RulesOK
    <3>3. CopyGood(p)' BY <1>0, <3>1 DEF GoroutineOK, CopyGood, SameFrame, regVars, WithRow, PCs
    <3>4. ASSUME NEW f \in BagToSet(rules), NEW r \in sandboxes, r.id = proc[p].id, f.ip = r.ip
          PROVE  f \in R
      <4>1. f \in RowRules(r) BY <3>4, RulesByAddress
      <4>2. r.ip = sb.ip /\ r.port = sb.port BY <1>0, <3>1, <3>4 DEF GoroutineOK, CopyGood, WithRow, PCs
      <4>3. \A m \in sandbox_ports : m.id # r.id BY <1>0, <3>1, <3>4 DEF GoroutineOK, NoPortsYet
      <4> QED BY <4>1, <4>2, <4>3, RowRulesMembers
    <3> HIDE DEF R
    <3>5. RulesGone(p)' BY <3>1, <3>2, <3>4 DEF RulesGone, NoRules, SameFrame, regVars
    <3>6. GoroutineOK(p)'
      BY <3>1, <3>3, <3>5 DEF GoroutineOK, RowThere, NoPortsYet, TapGone, PortsKnown, ExposeAlone
    <3> QED BY <1>1, <3>1, <3>6
  <2> QED BY <1>3, <2>1, <2>2 DEF RecordStart
<1> QED BY <1>2, <1>3

\* Rules are added.
LEMMA ForwardStepsKeepKernel ==
    ASSUME Disciplined, LifeInv, KernelInv, NEW p \in Goroutines, Step(p),
           AddPortForward(p) \/ ForwardExtra(p)
    PROVE  Kernel'
<1> USE DEF LifeInv, LifeTypes, KernelInv
<1>0. proc \in [Goroutines -> Frame] /\ proc[p] \in Frame /\ Moves(p) /\ GoroutineOK(p)
  BY StepMoves DEF ProcOK
\* Rules a row accounts for and nobody has yet may be added.
<1>1. ASSUME NEW R, rules' = rules (+) SetToBag(R), R \cap BagToSet(rules) = {},
             UNCHANGED <<regVars, taps>>, GoroutineOK(p)',
             proc[p].pc \notin Destroying \cup {"idle", "wait_agent"},
             NEW r \in sandboxes, r.id = proc[p].id, R \subseteq RowRules(r)
      PROVE  Kernel'
  <2>1. NoDuplicateRule' /\ BagToSet(rules') = BagToSet(rules) \cup R BY <1>1, AddRules DEF RulesOK
  <2>2. \A s : RowRules(s)' = RowRules(s) BY <1>1 DEF RowRules, Ports, regVars
  <2>3. KernelStateRecorded' BY <1>1, <2>1, <2>2 DEF KernelStateRecorded, regVars
  <2>4. ASSUME NEW q \in Goroutines \ {p} PROVE GoroutineOK(q)'
    <3>1. proc[q].id # proc[p].id BY <1>1, AloneAtWork
    <3>2. ASSUME NEW f \in R PROVE
            /\ \A s \in sandboxes : s.id = proc[q].id => f.ip # s.ip
            /\ proc[q].pc \in {"add_forward", "delete_port"} => f.host # proc[q].host
      <4>1. /\ f.ip = r.ip
            /\ f.host = r.port \/ \E m \in sandbox_ports : m.id = r.id /\ m.host = f.host
        BY <1>1, RowRulesAddress
      <4>2. \A s \in sandboxes : s.id = proc[q].id => f.ip # s.ip BY <1>1, <3>1, <4>1, OneRow
      <4>3. ASSUME proc[q].pc \in {"add_forward", "delete_port"} PROVE f.host # proc[q].host
        <5>1. PICK n \in sandbox_ports : n.id = proc[q].id /\ n.host = proc[q].host
          BY <4>3 DEF GoroutineOK, ExposeAlone, Ports
        <5> QED BY <1>1, <3>1, <4>1, <5>1 DEF RegInv, Exclusive, ExtraExclusive
      <4> QED BY <4>2, <4>3
    <3>3. Undisturbed(q) BY <1>1, <2>1, <3>2 DEF Undisturbed, regVars, SameHolding
    <3> QED BY <1>0, <3>3, OthersKeep DEF Moves
  <2> QED BY <1>1, <2>1, <2>3, <2>4 DEF Kernel
<1>2. CASE AddPortForward(p)
  <2> DEFINE sb == proc[p].sb
             R == Forward(sb.port, sb.ip, PrimaryPort)
  <2>1. proc[p].pc = "forward" /\ UNCHANGED <<regVars, taps>> BY <1>2 DEF AddPortForward
  <2>2. \/ rules' = rules (+) SetToBag(R) /\ GoTo(p, "finish_start")
        \/ rules' = rules /\ GoTo(p, "stop_force")
    BY <1>2 DEF AddPortForward, AddPortForwardTo, Disciplined, Fault
  <2>3. PICK r \in sandboxes : r.id = proc[p].id /\ r.ip = sb.ip /\ r.port = sb.port
    BY <1>0, <2>1 DEF GoroutineOK, RowThere, CopyGood, WithRow, PCs
  <2>4. R \subseteq RowRules(r) BY <2>3, RowRulesMembers
  <2>5. R \cap BagToSet(rules) = {}
    BY <1>0, <2>1, <2>3, ForwardMembers DEF GoroutineOK, RulesGone, NoRules
  <2> HIDE DEF R
  <2>6. SameFrame(p) /\ proc'[p].pc \in {"finish_start", "stop_force"} BY <2>2, GoToFrame
  <2>7. CopyGood(p)' /\ NoPortsYet(p)'
    BY <1>0, <2>1, <2>6 DEF GoroutineOK, CopyGood, NoPortsYet, SameFrame, regVars, WithRow, PCs
  <2>8. rules' = rules => RulesGone(p)'
    BY <1>0, <2>1, <2>6 DEF GoroutineOK, RulesGone, NoRules, SameFrame, regVars
  <2>9. proc'[p].pc = "finish_start" => RulesGone(p)' BY DEF RulesGone
  <2>10. GoroutineOK(p)'
    BY <2>2, <2>6, <2>7, <2>8, <2>9, GoToFrame DEF GoroutineOK, RowThere, TapGone, PortsKnown, ExposeAlone
  <2> QED BY <1>0, <1>1, <2>1, <2>2, <2>3, <2>4, <2>5, <2>10, LocalStep DEF Destroying
<1>3. CASE ForwardExtra(p)
  <2> DEFINE sb == proc[p].sb
             R == Forward(proc[p].host, sb.ip, proc[p].guest)
  <2>1. proc[p].pc = "add_forward" /\ UNCHANGED <<regVars, taps>> BY <1>3 DEF ForwardExtra
  <2>2. \/ rules' = rules (+) SetToBag(R) /\ Return(p)
        \/ rules' = rules /\ GoTo(p, "delete_port")
    BY <1>3 DEF ForwardExtra, AddPortForwardTo, Disciplined, Fault
  <2>3. PICK r \in sandboxes : r.id = proc[p].id /\ r.ip = sb.ip
    BY <1>0, <2>1 DEF GoroutineOK, RowThere, CopyGood, WithRow, PCs
  <2>4. PICK m \in sandbox_ports : m.id = r.id /\ m.guest = proc[p].guest /\ m.host = proc[p].host
    BY <1>0, <2>1, <2>3 DEF GoroutineOK, ExposeAlone, Ports
  <2>5. R \subseteq RowRules(r) BY <2>3, <2>4, RowRulesMembers
  <2>6. R \cap BagToSet(rules) = {} BY <1>0, <2>1, ForwardMembers DEF GoroutineOK, ExposeAlone
  <2> HIDE DEF R
  <2>7. CASE Return(p) /\ rules' = rules (+) SetToBag(R)
    <3>1. proc'[p].pc = "idle" BY <1>0, <2>7 DEF Return, Idle
    <3> QED BY <1>1, <2>1, <2>3, <2>5, <2>6, <2>7, <3>1, NothingPromised DEF Destroying
  <2>8. CASE GoTo(p, "delete_port") /\ rules' = rules
    <3>1. proc'[p].pc = "delete_port" /\ SameFrame(p) BY <2>8, GoToFrame
    <3>2. CopyGood(p)' BY <1>0, <2>1, <3>1 DEF GoroutineOK, CopyGood, SameFrame, regVars, WithRow, PCs
    <3>3. ExposeAlone(p)'
      BY <1>0, <2>1, <2>8, <3>1 DEF GoroutineOK, ExposeAlone, SameFrame, regVars, Ports
    <3>4. GoroutineOK(p)'
      BY <3>1, <3>2, <3>3 DEF GoroutineOK, RowThere, RulesGone, NoPortsYet, TapGone, PortsKnown
    <3> QED BY <1>0, <2>1, <2>8, <3>4, LocalStep
  <2> QED BY <2>2, <2>7, <2>8
<1> QED BY <1>2, <1>3

\* A row of another sandbox comes or goes.
LEMMA RowsOfOthers ==
    ASSUME NEW q, NEW id, proc[q].id # id, UNCHANGED <<taps, rules>>,
           \A r \in sandboxes : r.id # id => r \in sandboxes',
           \A r \in sandboxes' : r.id # id => r \in sandboxes,
           \A m \in sandbox_ports : m.id # id => m \in sandbox_ports',
           \A m \in sandbox_ports' : m.id # id => m \in sandbox_ports
    PROVE  Undisturbed(q)
BY DEF Undisturbed, SameHolding

\* Create inserts one row, whose id, tap, address and port are nobody's.
LEMMA CreateFacts ==
    ASSUME NEW id, NEW rootfs, NEW e, Create(id, rootfs, e)
    PROVE  /\ sandbox_ports' = sandbox_ports
           /\ \E row : /\ row.id = id /\ sandboxes' = sandboxes \cup {row}
                       /\ \A r \in sandboxes : r.id # id /\ r.ip # row.ip
<1> DEFINE row(t, a, p) == [id |-> id, pid |-> NoPid, tap |-> t, ip |-> a,
                            port |-> p, rootfs |-> rootfs, expires |-> e]
<1>1. PICK t \in Taps, a \in IPs, p \in HostPorts : InsertSandbox(row(t, a, p)) BY DEF Create
<1>2. row(t, a, p).id = id OBVIOUS
<1> HIDE DEF row
<1>3. /\ sandboxes' = sandboxes \cup {row(t, a, p)}
      /\ \A r \in sandboxes : r.id # id /\ r.ip # row(t, a, p).ip
  BY <1>1, <1>2 DEF InsertSandbox
<1> QED BY <1>2, <1>3 DEF Create

\* The steps that write or delete a row: a new one has an address and ports no rule
\* carries, and a row goes after its tap and its rules.
LEMMA RowStepsKeepKernel ==
    ASSUME LifeInv, KernelInv, NEW p \in Goroutines, Step(p),
           \/ InsertRow(p)
           \/ RecordStart(p) /\ FinishStart(proc[p].sb.id, proc[p].sb.id)
           \/ DeleteRow(p)
    PROVE  Kernel'
<1> USE DEF LifeInv, LifeTypes, KernelInv
<1> DEFINE id == proc[p].id
<1>0. /\ proc \in [Goroutines -> Frame] /\ proc[p] \in Frame /\ Moves(p) /\ GoroutineOK(p)
      /\ LocalOK(proc[p]) /\ RegInv'
  BY StepMoves, StepUsesRegistry, RegNextInv DEF ProcOK
<1>1. CASE Return(p) /\ UNCHANGED <<regVars, taps, rules>>
  <2>1. proc'[p].pc = "idle" BY <1>0, <1>1 DEF Return, Idle
  <2> QED BY <1>0, <1>1, <2>1, LocalStep, NothingPromised
<1>2. CASE InsertRow(p) /\ Create(id, id, proc[p].expires)
           /\ proc' = [proc EXCEPT ![p].pc = "create_tap", ![p].sb = RowOf(id, sandboxes')]
  <2>1. /\ proc[p].pc = "insert_row" /\ UNCHANGED <<taps, rules>>
        /\ proc'[p].pc = "create_tap" /\ proc'[p].id = id /\ proc'[p].sb = RowOf(id, sandboxes')
    BY <1>0, <1>2 DEF InsertRow, Frame
  <2>2. PICK row : /\ row.id = id /\ sandboxes' = sandboxes \cup {row} /\ sandbox_ports' = sandbox_ports
                   /\ \A r \in sandboxes : r.id # id /\ r.ip # row.ip
    BY <1>2, CreateFacts
  <2>3. RowOf(id, sandboxes') = row BY <2>2 DEF RowOf
  <2>4. \A f \in BagToSet(rules) : \E r \in sandboxes : f.ip = r.ip
    BY RowRulesAddress DEF KernelStateRecorded
  <2>5. CopyGood(p)' /\ RowThere(p)' BY <2>1, <2>2, <2>3 DEF CopyGood, RowThere
  <2>6. RulesGone(p)' BY <2>1, <2>2, <2>4 DEF RulesGone, NoRules
  <2>7. NoPortsYet(p)' BY <2>1, <2>2 DEF NoPortsYet, RegInv, PortsOwned
  <2>8. GoroutineOK(p)' BY <2>1, <2>5, <2>6, <2>7 DEF GoroutineOK, TapGone, PortsKnown, ExposeAlone
  <2>9. ASSUME NEW q \in Goroutines \ {p} PROVE GoroutineOK(q)'
    <3>1. proc[q].id # id BY <2>1, AloneAtWork DEF Destroying
    <3>2. Undisturbed(q) BY <2>1, <2>2, <3>1, RowsOfOthers
    <3> QED BY <1>0, <3>2, OthersKeep DEF Moves
  <2>10. KernelStateRecorded'
    <3>1. \A s : RowRules(s)' = RowRules(s) BY <2>2 DEF RowRules, Ports
    <3> QED BY <2>1, <2>2, <3>1 DEF KernelStateRecorded
  <2>11. NoDuplicateRule' BY <2>1 DEF NoDuplicateRule
  <2> QED BY <2>8, <2>9, <2>10, <2>11 DEF Kernel
<1>3. CASE RecordStart(p) /\ FinishStart(proc[p].sb.id, proc[p].sb.id)
  <2> DEFINE new(r) == IF r.id = proc[p].sb.id THEN [r EXCEPT !.pid = proc[p].sb.id] ELSE r
  <2>1. /\ sandboxes' = {new(r) : r \in sandboxes} /\ sandbox_ports' = sandbox_ports
        /\ proc[p].pc = "finish_start" /\ UNCHANGED taps
    BY <1>3 DEF RecordStart, FinishStart
  <2>2. \A r \in sandboxes : SameHolding(new(r), r)
    BY DEF SameHolding, RegInv, RegTypeOK, Sandbox
  <2> HIDE DEF new
  <2>a. /\ \A r \in sandboxes' : \E s \in sandboxes : SameHolding(r, s)
        /\ \A s \in sandboxes : \E r \in sandboxes' : SameHolding(r, s)
    BY <2>1, <2>2
  <2>b. CASE GoTo(p, "store") /\ rules' = rules
    <3>1. proc'[p].pc = "store" /\ SameFrame(p) BY <2>b, GoToFrame
    <3>2. CopyGood(p)'
      BY <1>0, <2>1, <2>a, <3>1 DEF GoroutineOK, CopyGood, SameFrame, SameHolding, WithRow, PCs
    <3>3. GoroutineOK(p)'
      BY <3>1, <3>2 DEF GoroutineOK, RowThere, RulesGone, NoPortsYet, TapGone, PortsKnown, ExposeAlone
    <3>4. ASSUME NEW q \in Goroutines \ {p} PROVE GoroutineOK(q)'
      <4>1. Undisturbed(q) BY <2>1, <2>a, <2>b DEF Undisturbed, SameHolding
      <4> QED BY <1>0, <4>1, OthersKeep DEF Moves
    <3>5. KernelStateRecorded'
      <4>1. ASSUME NEW r \in sandboxes', NEW s \in sandboxes, SameHolding(r, s)
            PROVE  RowRules(r)' = RowRules(s)
        BY <2>1, <4>1 DEF RowRules, Ports, SameHolding
      <4>2. \A d \in taps' : \E r \in sandboxes' : r.tap = d.tap
        BY <2>1, <2>a DEF KernelStateRecorded, SameHolding
      <4>3. \A f \in BagToSet(rules') : \E r \in sandboxes' : f \in RowRules(r)'
        BY <2>a, <2>b, <4>1 DEF KernelStateRecorded
      <4> QED BY <4>2, <4>3 DEF KernelStateRecorded
    <3>6. NoDuplicateRule' BY <2>b DEF NoDuplicateRule
    <3> QED BY <3>3, <3>4, <3>5, <3>6 DEF Kernel
  <2>c. CASE UNCHANGED regVars BY <1>3, <2>c, UnforwardStepsKeepKernel
  <2> QED BY <1>3, <2>b, <2>c DEF RecordStart
<1>4. CASE DeleteRow(p) /\ ~Cancelled(p) /\ Destroy(id)
  <2>1. /\ proc[p].pc = "delete_row" /\ proc[p].ctx # "cancelled" /\ UNCHANGED <<taps, rules>>
        /\ sandboxes' = {r \in sandboxes : r.id # id}
        /\ sandbox_ports' = {m \in sandbox_ports : m.id # id}
        /\ proc'[p].pc = "idle"
    BY <1>0, <1>4, CancelledCtx DEF DeleteRow, Destroy, Get, Ports, hostVars, Return, Idle
  <2>2. NoRules(id) /\ \A d \in taps : \A r \in sandboxes : r.id = id => d.tap # r.tap
    BY <1>0, <2>1 DEF GoroutineOK, RulesGone, TapGone
  <2>3. KernelStateRecorded'
    <3>1. ASSUME NEW f \in BagToSet(rules) PROVE \E r \in sandboxes' : f \in RowRules(r)'
      <4>1. PICK r \in sandboxes : f \in RowRules(r) BY DEF KernelStateRecorded
      <4>2. r.id # id BY <2>2, <4>1, RowRulesAddress DEF NoRules
      <4>3. RowRules(r)' = RowRules(r) BY <2>1, <4>2 DEF RowRules, Ports
      <4> QED BY <2>1, <4>1, <4>2, <4>3
    <3> QED BY <2>1, <2>2, <3>1 DEF KernelStateRecorded
  <2>4. GoroutineOK(p)' BY <2>1, NothingPromised
  <2>5. ASSUME NEW q \in Goroutines \ {p} PROVE GoroutineOK(q)'
    <3>1. CASE proc[q].id # id
      <4>1. Undisturbed(q) BY <2>1, <3>1, RowsOfOthers
      <4> QED BY <1>0, <4>1, OthersKeep DEF Moves
    <3>2. CASE proc[q].id = id
      <4>1. id # 0 BY <1>0, <2>1, CardinalityIds DEF LocalOK
      <4>2. main = "stop_all" BY <3>2, <4>1 DEF Alone
      <4>3. proc[q].pc \in Destroying \cup {"idle", "wait_agent"} BY <4>2 DEF Quiet
      <4>4. Undisturbed(q) BY <2>1, <4>3 DEF Undisturbed, Destroying, SameHolding
      <4> QED BY <1>0, <4>4, OthersKeep DEF Moves
    <3> QED BY <3>1, <3>2
  <2>6. NoDuplicateRule' BY <2>1 DEF NoDuplicateRule
  <2> QED BY <2>3, <2>4, <2>5, <2>6 DEF Kernel
<1>5. CASE InsertRow(p) BY <1>1, <1>2, <1>5 DEF InsertRow
<1>6. CASE DeleteRow(p) BY <1>1, <1>4, <1>6 DEF DeleteRow, hostVars
<1> QED BY <1>3, <1>5, <1>6

\* The steps of an expose that write or delete a mapping: a new one has a port no
\* rule carries, and one is taken back when its rule was not added.
LEMMA PortStepsKeepKernel ==
    ASSUME LifeInv, KernelInv, NEW p \in Goroutines, Step(p), AllocatePort(p) \/ UndoPort(p)
    PROVE  Kernel'
<1> USE DEF LifeInv, LifeTypes, KernelInv
<1> DEFINE id == proc[p].id
           guest == proc[p].guest
<1>0. /\ proc \in [Goroutines -> Frame] /\ proc[p] \in Frame /\ Moves(p) /\ GoroutineOK(p)
  BY StepMoves DEF ProcOK
<1>1. CASE Return(p) /\ UNCHANGED <<regVars, taps, rules>>
  <2>1. proc'[p].pc = "idle" BY <1>0, <1>1 DEF Return, Idle
  <2> QED BY <1>0, <1>1, <2>1, LocalStep, NothingPromised
<1>2. CASE AllocatePort(p)
  <2> DEFINE mapping(table) == CHOOSE m \in table : m.id = id /\ m.guest = guest
  <2>1. proc[p].pc = "add_port" /\ UNCHANGED <<taps, rules>> BY <1>2 DEF AllocatePort, hostVars
  <2>2. \A m \in Ports(id) : m.guest # guest BY <1>0, <2>1 DEF GoroutineOK, ExposeAlone
  <2>3. CASE AddPort(id, guest) /\
             proc' = [proc EXCEPT ![p].pc = "add_forward", ![p].host = mapping(sandbox_ports').host]
    <3>1. /\ proc'[p].pc = "add_forward" /\ proc'[p].id = id /\ proc'[p].guest = guest
          /\ proc'[p].sb = proc[p].sb /\ proc'[p].host = mapping(sandbox_ports').host
      BY <1>0, <2>3 DEF Frame
    <3>2. PICK row : /\ row.id = id /\ row.guest = guest /\ sandbox_ports' = sandbox_ports \cup {row}
                     /\ row.host \notin UsedPorts /\ sandboxes' = sandboxes
                     /\ \A m \in sandbox_ports : ~(m.id = id /\ m.guest = guest)
      BY <2>3, AddPortFacts
    <3>3. mapping(sandbox_ports') = row BY <3>2
    <3> HIDE DEF mapping
    <3>4. \A f \in BagToSet(rules) : f.host \in UsedPorts
      BY RowRulesAddress DEF KernelStateRecorded, UsedPorts
    <3>5. ExposeAlone(p)' BY <2>1, <3>1, <3>2, <3>3, <3>4 DEF ExposeAlone, Ports
    <3>6. CopyGood(p)' BY <1>0, <2>1, <3>1, <3>2 DEF GoroutineOK, CopyGood, WithRow, PCs
    <3>7. RowThere(p)' BY <2>3, <3>1, <3>2 DEF RowThere, AddPort, Get
    <3>8. GoroutineOK(p)'
      BY <3>1, <3>5, <3>6, <3>7 DEF GoroutineOK, RulesGone, NoPortsYet, TapGone, PortsKnown
    <3>9. ASSUME NEW q \in Goroutines \ {p} PROVE GoroutineOK(q)'
      <4>1. proc[q].id # id BY <2>1, AloneAtWork DEF Destroying
      <4>2. Undisturbed(q) BY <2>1, <3>2, <4>1, RowsOfOthers
      <4> QED BY <1>0, <4>2, OthersKeep DEF Moves
    <3>10. KernelStateRecorded'
      <4>1. \A r : RowRules(r) \subseteq RowRules(r)' BY <3>2 DEF RowRules, Ports
      <4> QED BY <2>1, <3>2, <4>1 DEF KernelStateRecorded
    <3>11. NoDuplicateRule' BY <2>1 DEF NoDuplicateRule
    <3> QED BY <3>8, <3>9, <3>10, <3>11 DEF Kernel
  <2> QED BY <1>1, <1>2, <2>1, <2>2, <2>3 DEF AllocatePort
<1>3. CASE UndoPort(p) /\ DeletePort(id, guest)
  <2>1. /\ proc[p].pc = "delete_port" /\ UNCHANGED <<sandboxes, taps, rules>>
        /\ sandbox_ports' = {m \in sandbox_ports : ~(m.id = id /\ m.guest = guest)}
        /\ proc'[p].pc = "idle"
    BY <1>0, <1>3 DEF UndoPort, DeletePort, hostVars, Return, Idle
  <2>2. PICK n \in sandbox_ports : n.id = id /\ n.guest = guest /\ n.host = proc[p].host
    BY <1>0, <2>1 DEF GoroutineOK, ExposeAlone, Ports
  <2>3. \A f \in BagToSet(rules) : f.host # n.host BY <1>0, <2>1, <2>2 DEF GoroutineOK, ExposeAlone
  <2>4. \A m \in sandbox_ports : m.id = id /\ m.guest = guest => m = n
    BY <2>2 DEF RegInv, Exclusive, ExtraExclusive
  <2>5. KernelStateRecorded'
    <3>1. ASSUME NEW f \in BagToSet(rules), NEW r, f \in RowRules(r) PROVE f \in RowRules(r)'
      <4>1. CASE f \in Forward(r.port, r.ip, PrimaryPort) BY <4>1 DEF RowRules
      <4>2. ASSUME NEW m \in sandbox_ports, m.id = r.id, f \in Forward(m.host, r.ip, m.guest)
            PROVE  f \in RowRules(r)'
        <5>1. m # n BY <2>3, <4>2, ForwardMembers
        <5>2. m \in sandbox_ports' BY <2>1, <2>4, <5>1
        <5> QED BY <4>2, <5>2 DEF RowRules, Ports
      <4> QED BY <3>1, <4>1, <4>2, RowRulesMembers
    <3> QED BY <2>1, <3>1 DEF KernelStateRecorded
  <2>6. GoroutineOK(p)' BY <2>1, NothingPromised
  <2>7. ASSUME NEW q \in Goroutines \ {p} PROVE GoroutineOK(q)'
    <3>1. proc[q].id # id BY <2>1, AloneAtWork DEF Destroying
    <3>2. Undisturbed(q) BY <2>1, <3>1, RowsOfOthers
    <3> QED BY <1>0, <3>2, OthersKeep DEF Moves
  <2>8. NoDuplicateRule' BY <2>1 DEF NoDuplicateRule
  <2> QED BY <2>5, <2>6, <2>7, <2>8 DEF Kernel
<1>4. CASE UndoPort(p) BY <1>1, <1>3, <1>4 DEF UndoPort, hostVars
<1> QED BY <1>2, <1>4

\* Every step of a goroutine.
LEMMA StepKeepsKernel ==
    ASSUME Disciplined, LifeInv, KernelInv, NEW p \in Goroutines, Step(p)
    PROVE  KernelInv'
<1>1. Alone' /\ Quiet' /\ Fresh' BY StepKeepsOrder
<1>2. ASSUME RecordStart(p) PROVE Kernel'
  <2>1. \/ RecordStart(p) /\ FinishStart(proc[p].sb.id, proc[p].sb.id)
        \/ RecordStart(p) /\ UNCHANGED regVars
    BY <1>2 DEF RecordStart
  <2>2. ASSUME RecordStart(p) /\ FinishStart(proc[p].sb.id, proc[p].sb.id) PROVE Kernel'
    BY <2>2, RowStepsKeepKernel
  <2>3. ASSUME RecordStart(p) /\ UNCHANGED regVars PROVE Kernel'
    BY <2>3, UnforwardStepsKeepKernel
  <2> QED BY <2>1, <2>2, <2>3
<1>3. ASSUME \/ StartVM(p) \/ StopForce(p) \/ StoreMachine(p) \/ WaitForAgent(p) \/ GetRow(p)
             \/ ReadPorts(p) \/ TakeMachine(p) \/ WaitVM(p) \/ RemoveRootfs(p)
      PROVE  Kernel'
  BY <1>3, LocalStepsKeepKernel
<1>4. ASSUME CreateTap(p) \/ DeleteTap(p) PROVE Kernel' BY <1>4, TapStepsKeepKernel
<1>5. ASSUME RemoveForwards(p) PROVE Kernel' BY <1>5, UnforwardStepsKeepKernel
<1>6. ASSUME AddPortForward(p) \/ ForwardExtra(p) PROVE Kernel' BY <1>6, ForwardStepsKeepKernel
<1>7. ASSUME InsertRow(p) \/ DeleteRow(p) PROVE Kernel' BY <1>7, RowStepsKeepKernel
<1>8. ASSUME AllocatePort(p) \/ UndoPort(p) PROVE Kernel' BY <1>8, PortStepsKeepKernel
<1>9. Kernel' BY <1>2, <1>3, <1>4, <1>5, <1>6, <1>7, <1>8 DEF Step
<1> QED BY <1>1, <1>9 DEF KernelInv, Kernel

\* A step outside the handlers takes nothing from a goroutine it does not touch.
LEMMA ElsewhereKeepsKernel ==
    ASSUME KernelInv, UNCHANGED regVars, taps' \subseteq taps, BagToSet(rules') \subseteq BagToSet(rules),
           NoDuplicateRule', \A q \in Goroutines : proc'[q] = proc[q] \/ GoroutineOK(q)'
    PROVE  Kernel'
<1>1. ASSUME NEW q \in Goroutines PROVE GoroutineOK(q)'
  <2>1. CASE proc'[q] = proc[q] BY <2>1, OthersKeep, ShrinkingKeeps DEF KernelInv
  <2> QED BY <2>1
<1>2. KernelStateRecorded' BY ShrinkingRecorded DEF KernelInv
<1> QED BY <1>1, <1>2 DEF Kernel

\* A goroutine whose context ends promises less.
LEMMA HangUpKeeps ==
    ASSUME NEW p, GoroutineOK(p), proc'[p].pc = proc[p].pc, SameFrame(p), proc'[p].ctx = "cancelled",
           UNCHANGED <<regVars, taps, rules>>
    PROVE  GoroutineOK(p)'
<1> USE DEF GoroutineOK, SameFrame, regVars
<1>1. CopyGood(p)' /\ RowThere(p)' BY DEF CopyGood, RowThere
<1>2. RulesGone(p)' /\ PortsKnown(p)' BY DEF RulesGone, NoRules, PortsKnown
<1>3. NoPortsYet(p)' /\ TapGone(p)' /\ ExposeAlone(p)' BY DEF NoPortsYet, TapGone, ExposeAlone, Ports
<1> QED BY <1>1, <1>2, <1>3

\* A goroutine that starts on a sandbox nobody works on keeps the order.
LEMMA StartKeepsOrder ==
    ASSUME LifeInv, KernelInv, NEW p \in Goroutines, NEW id \in Ids, id < nextId',
           nextId' \in Nat, nextId <= nextId',
           main \in {"serve", "drain"} => p \in Requests, main # "stop_all",
           main' = main, todo' \subseteq todo, UNCHANGED <<sandboxes, machines>>,
           proc'[p].id = id, proc'[p].expires = NULL,
           \A q \in Goroutines \ {p} : proc'[q] = proc[q] /\ proc[q].id # id
    PROVE  Alone' /\ Quiet' /\ Fresh'
<1> USE DEF LifeInv, LifeTypes, KernelInv
<1>1. Alone' BY DEF Alone
<1>2. Quiet' BY DEF Quiet
<1>3. Fresh'
  <2>1. \A q \in Goroutines : proc[q].id \in Int
    BY CardinalityIds DEF ProcOK, Frame
  <2>2. \A r \in sandboxes : r.id \in Int BY CardinalityIds DEF RegInv, RegTypeOK, Sandbox
  <2>3. \A m \in machines : m \in Int BY CardinalityIds DEF MemoryOK
  <2>4. nextId \in Int BY CardinalityIds DEF EnvOK
  <2>5. \A q \in Goroutines : proc'[q].id < nextId'
    BY <2>1, <2>4 DEF Fresh
  <2> QED BY <2>2, <2>3, <2>4, <2>5 DEF Fresh
<1> QED BY <1>1, <1>2, <1>3

\* A request arrives.
LEMMA ArrivalKeepsKernel ==
    ASSUME Disciplined, LifeInv, KernelInv, Arrival
    PROVE  KernelInv'
<1> USE DEF LifeInv, LifeTypes
<1>0. /\ proc \in [Goroutines -> Frame] /\ Requests \subseteq Goroutines /\ nextId \in Nat
      /\ Ids \subseteq Nat /\ 0 \notin Ids
  BY CardinalityIds DEF ProcOK, Goroutines, EnvOK
<1>1. ASSUME NEW p \in Requests, NEW timeout \in Timeouts, PrepareRootfs(p, timeout) PROVE KernelInv'
  <2> DEFINE x == [Idle EXCEPT !.pc = "insert_row", !.id = nextId, !.expires = Deadline(timeout),
                               !.ctx = "request"]
  <2>1. /\ main = "serve" /\ nextId \in Ids /\ nextId' = nextId + 1
        /\ UNCHANGED <<regVars, taps, rules, todo, main, machines>>
        /\ proc' = [proc EXCEPT ![p] = x] \/ proc' = proc
    BY <1>1 DEF PrepareRootfs
  <2>2. x.pc = "insert_row" /\ x.id = nextId /\ x.expires = NULL
    BY DEF Idle, Deadline, Disciplined
  <2> HIDE DEF x
  <2>3. NoDuplicateRule' BY <2>1 DEF NoDuplicateRule, KernelInv
  <2>4. \A q \in Goroutines : proc[q].id # nextId BY <1>0 DEF KernelInv, Fresh
  <2>5. CASE proc' = proc
    <3>1. Kernel' BY <2>1, <2>3, <2>5, ElsewhereKeepsKernel
    <3>2. Alone' /\ Quiet' BY <2>1, <2>5 DEF KernelInv, Alone, Quiet, regVars
    <3>3. \A q \in Goroutines : proc[q].id \in Int BY <1>0, CardinalityIds DEF Frame
    <3>4. \A r \in sandboxes : r.id \in Int BY <1>0, CardinalityIds DEF RegInv, RegTypeOK, Sandbox
    <3>5. \A m \in machines : m \in Int BY <1>0 DEF MemoryOK
    <3>6. Fresh' BY <1>0, <2>1, <2>5, <3>3, <3>4, <3>5 DEF KernelInv, Fresh, regVars
    <3> QED BY <3>1, <3>2, <3>6 DEF KernelInv, Kernel
  <2>6. CASE proc' = [proc EXCEPT ![p] = x]
    <3>1. proc'[p] = x /\ \A q \in Goroutines \ {p} : proc'[q] = proc[q] BY <1>0, <2>6
    <3>2. GoroutineOK(p)' BY <2>2, <3>1, NothingPromised
    <3>3. Kernel' BY <2>1, <2>3, <3>1, <3>2, ElsewhereKeepsKernel
    <3>4. nextId' \in Nat /\ nextId <= nextId' /\ nextId < nextId' BY <1>0, <2>1
    <3>5. Alone' /\ Quiet' /\ Fresh'
      BY <1>0, <2>1, <2>2, <2>4, <3>1, <3>4, StartKeepsOrder DEF regVars
    <3> QED BY <3>3, <3>5 DEF KernelInv, Kernel
  <2> QED BY <2>1, <2>5, <2>6
<1>2. ASSUME NEW p \in Requests, NEW id \in Ids, NEW x, x.id = id, x.expires = NULL, Addressable(id),
             main = "serve", IsIdle(p), proc' = [proc EXCEPT ![p] = x],
             UNCHANGED <<regVars, hostVars, machines, todo, main, envVars, serving>>,
             GoroutineOK(p)'
      PROVE  KernelInv'
  <2>1. proc'[p] = x /\ \A q \in Goroutines \ {p} : proc'[q] = proc[q] BY <1>0, <1>2
  <2>2. NoDuplicateRule' BY <1>2 DEF NoDuplicateRule, KernelInv, hostVars
  <2>3. Kernel' BY <1>2, <2>1, <2>2, ElsewhereKeepsKernel DEF hostVars
  <2>4. \A q \in Goroutines : proc[q].id # id
    BY <1>2 DEF Addressable, WorkingOn, Disciplined
  <2>5. id < nextId BY <1>2 DEF Addressable, Get, KernelInv, Fresh
  <2>6. nextId' = nextId /\ todo' \subseteq todo /\ UNCHANGED <<sandboxes, machines>> /\ main' = main
    BY <1>2 DEF regVars, envVars
  <2>7. Alone' /\ Quiet' /\ Fresh'
    BY <1>0, <1>2, <2>1, <2>4, <2>5, <2>6, StartKeepsOrder
  <2> QED BY <2>3, <2>7 DEF KernelInv, Kernel
<1>3. ASSUME NEW p \in Requests, NEW id \in Ids, DestroyArrives(p, id) PROVE KernelInv'
  <2> DEFINE x == [Idle EXCEPT !.pc = "get_row", !.id = id, !.ctx = "request"]
  <2>1. /\ main = "serve" /\ IsIdle(p) /\ Addressable(id) /\ proc' = [proc EXCEPT ![p] = x]
        /\ UNCHANGED <<regVars, hostVars, machines, todo, main, envVars, serving>>
    BY <1>3 DEF DestroyArrives
  <2>2. x.pc = "get_row" /\ x.id = id /\ x.expires = NULL BY DEF Idle
  <2> HIDE DEF x
  <2>3. GoroutineOK(p)' BY <1>0, <2>1, <2>2, NothingPromised
  <2> QED BY <1>2, <2>1, <2>2, <2>3
<1>4. ASSUME NEW p \in Requests, NEW id \in Ids, NEW guest \in GuestPorts, ExposeArrives(p, id, guest)
      PROVE  KernelInv'
  <2> DEFINE x == [Idle EXCEPT !.pc = "add_port", !.id = id, !.sb = RowOf(id, sandboxes),
                               !.guest = guest, !.ctx = "request"]
  <2>1. /\ main = "serve" /\ IsIdle(p) /\ Addressable(id) /\ proc' = [proc EXCEPT ![p] = x]
        /\ \A m \in Ports(id) : m.guest # guest
        /\ UNCHANGED <<regVars, hostVars, machines, todo, main, envVars, serving>>
    BY <1>4 DEF ExposeArrives
  <2>2. /\ x.pc = "add_port" /\ x.id = id /\ x.expires = NULL /\ x.guest = guest
        /\ x.sb = RowOf(id, sandboxes)
    BY DEF Idle
  <2> HIDE DEF x
  <2>3. RowOf(id, sandboxes) \in sandboxes /\ RowOf(id, sandboxes).id = id
    BY <2>1 DEF RowOf, Addressable, Get
  <2>4. proc'[p] = x BY <1>0, <2>1
  <2>5. CopyGood(p)' BY <2>1, <2>2, <2>3, <2>4, OneRow DEF CopyGood, regVars
  <2>6. ExposeAlone(p)' BY <2>1, <2>2, <2>4 DEF ExposeAlone, Ports, regVars
  <2>7. GoroutineOK(p)'
    BY <2>2, <2>4, <2>5, <2>6 DEF GoroutineOK, RowThere, RulesGone, NoPortsYet, TapGone, PortsKnown
  <2> QED BY <1>2, <2>1, <2>2, <2>7
<1> QED BY <1>1, <1>3, <1>4 DEF Arrival

\* timeout_sec 0 clears deadlines that are not there.
LEMMA SetTimeoutKeepsKernel ==
    ASSUME Disciplined, LifeInv, KernelInv, NEW id \in Ids, NEW timeout \in Timeouts,
           SetTimeout(id, timeout)
    PROVE  KernelInv'
<1> USE DEF LifeInv, LifeTypes, KernelInv
<1> DEFINE new(r) == IF r.id = id THEN [r EXCEPT !.expires = Deadline(timeout)] ELSE r
<1>1. /\ sandboxes' = {new(r) : r \in sandboxes} /\ sandbox_ports' = sandbox_ports
      /\ UNCHANGED <<taps, rules, proc, todo, main, machines, nextId>>
  BY DEF SetTimeout, SetExpiry, hostVars, memVars, envVars
<1>2. \A r \in sandboxes : SameHolding(new(r), r) /\ new(r).expires = NULL /\ new(r).id = r.id
  BY DEF SameHolding, RegInv, RegTypeOK, Sandbox, Disciplined, Deadline, Quiet
<1> HIDE DEF new
<1>3. /\ \A r \in sandboxes' : \E s \in sandboxes : SameHolding(r, s)
      /\ \A s \in sandboxes : \E r \in sandboxes' : SameHolding(r, s)
  BY <1>1, <1>2
<1>4. ASSUME NEW q \in Goroutines PROVE GoroutineOK(q)'
  <2>1. Undisturbed(q) BY <1>1, <1>3 DEF Undisturbed, SameHolding
  <2> QED BY <1>1, <2>1, OthersKeep
<1>5. KernelStateRecorded'
  <2>1. ASSUME NEW r \in sandboxes', NEW s \in sandboxes, SameHolding(r, s)
        PROVE  RowRules(r)' = RowRules(s)
    BY <1>1, <2>1 DEF RowRules, Ports, SameHolding
  <2>2. \A d \in taps' : \E r \in sandboxes' : r.tap = d.tap
    BY <1>1, <1>3 DEF KernelStateRecorded, SameHolding
  <2>3. \A f \in BagToSet(rules') : \E r \in sandboxes' : f \in RowRules(r)'
    BY <1>1, <1>3, <2>1 DEF KernelStateRecorded
  <2> QED BY <2>2, <2>3 DEF KernelStateRecorded
<1>6. NoDuplicateRule' BY <1>1 DEF NoDuplicateRule
<1>7. Alone' /\ Quiet' /\ Fresh' BY <1>1, <1>2 DEF Alone, Quiet, Fresh
<1> QED BY <1>4, <1>5, <1>6, <1>7

\* Startup, shutdown, crashes and the environment.
LEMMA ServerKeepsKernel ==
    ASSUME Disciplined, LifeInv, KernelInv,
           \/ ReaperTick \/ ReapNext \/ Serve \/ Environment \/ UNCHANGED vars
    PROVE  KernelInv'
<1> USE DEF LifeInv, LifeTypes, regVars, hostVars, memVars, envVars
<1>0. /\ proc \in [Goroutines -> Frame] /\ Requests \subseteq Goroutines /\ Main \in Goroutines
      /\ Ids \subseteq Goroutines /\ Main \notin Requests \cup Ids
      /\ Ids \subseteq Nat /\ 0 \notin Ids /\ nextId \in Nat /\ 0 < nextId
  BY CardinalityIds, GoroutinesAssumption DEF ProcOK, Goroutines, EnvOK
<1>1. ASSUME UNCHANGED <<regVars, taps, rules, proc, nextId, machines>>,
             Alone' /\ Quiet'
      PROVE  KernelInv'
  <2>1. NoDuplicateRule' /\ Fresh' BY <1>1 DEF KernelInv, NoDuplicateRule, Fresh
  <2>2. Kernel' BY <1>1, <2>1, ElsewhereKeepsKernel
  <2> QED BY <1>1, <2>1, <2>2 DEF KernelInv, Kernel
<1>2. ASSUME ReaperTick PROVE KernelInv'
  <2>1. Expired(now) = {} BY DEF KernelInv, Quiet, Expired
  <2> QED BY <1>2, <2>1 DEF ReaperTick
<1>3. ASSUME ReapNext PROVE KernelInv' BY <1>3 DEF ReapNext, KernelInv, Quiet
<1>4. ASSUME Restart PROVE KernelInv'
  <2>1. Alone' /\ Quiet' BY <1>4 DEF Restart, KernelInv, Alone, Quiet
  <2> QED BY <1>1, <1>4, <2>1 DEF Restart
<1>5. ASSUME ReconcileNext PROVE KernelInv'
  <2>1. PICK id \in todo : 
          /\ todo' = todo \ {id}
          /\ proc' = [proc EXCEPT ![Main] =
                        [Idle EXCEPT !.pc = "read_ports", !.id = id, !.sb = RowOf(id, sandboxes),
                             !.ctx = IF main = "abort" THEN "cancelled" ELSE "background"]]
    BY <1>5 DEF ReconcileNext
  <2> DEFINE x == [Idle EXCEPT !.pc = "read_ports", !.id = id, !.sb = RowOf(id, sandboxes),
                               !.ctx = IF main = "abort" THEN "cancelled" ELSE "background"]
  <2>2. x.pc = "read_ports" /\ x.id = id /\ x.sb = RowOf(id, sandboxes) /\ x.expires = NULL BY DEF Idle
  <2>3. proc'[Main] = x /\ \A q \in Goroutines \ {Main} : proc'[q] = proc[q] BY <1>0, <2>1
  <2> HIDE DEF x
  <2>4. main \in {"recover", "abort"} /\ UNCHANGED <<regVars, taps, rules, nextId, machines, main>>
    BY <1>5 DEF ReconcileNext
  <2>5. RowOf(id, sandboxes) \in sandboxes /\ RowOf(id, sandboxes).id = id
    BY <2>4 DEF RowOf, ReconcileOK
  <2>6. CopyGood(Main)' BY <2>2, <2>3, <2>4, <2>5, OneRow DEF CopyGood
  <2>7. GoroutineOK(Main)'
    BY <2>2, <2>3, <2>6 DEF GoroutineOK, RowThere, RulesGone, NoPortsYet, TapGone, PortsKnown, ExposeAlone
  <2>8. NoDuplicateRule' BY <2>4 DEF KernelInv, NoDuplicateRule
  <2>9. Kernel' BY <2>3, <2>4, <2>7, <2>8, ElsewhereKeepsKernel
  <2>10. id \in Ids /\ id < nextId BY <2>1, <2>5 DEF MemoryOK, KernelInv, Fresh
  <2>11. \A q \in Goroutines \ {Main} : proc[q].id # id
    BY <1>0, <2>4, <2>10 DEF ReconcileOK, ProcOK, LocalOK
  <2>12. Alone' /\ Quiet' /\ Fresh'
    <3>1. /\ main # "stop_all" /\ main \notin {"serve", "drain"} /\ main' = main /\ todo' \subseteq todo
          /\ nextId' \in Nat /\ nextId <= nextId' /\ id < nextId' /\ UNCHANGED <<sandboxes, machines>>
      BY <1>0, <2>1, <2>4, <2>10
    <3>2. proc'[Main].id = id /\ proc'[Main].expires = NULL BY <2>2, <2>3
    <3> QED BY <1>0, <2>3, <2>10, <2>11, <3>1, <3>2, StartKeepsOrder
  <2> QED BY <2>9, <2>12 DEF KernelInv, Kernel
<1>6. ASSUME Listen PROVE KernelInv'
  <2>1. /\ main \in {"recover", "abort"} /\ proc[Main].pc = "idle" /\ todo = {} /\ proc' = proc
        /\ main' \in {"serve", "drain"} /\ UNCHANGED <<regVars, taps, rules, todo, nextId, machines>>
    BY <1>6 DEF Listen, IsIdle
  <2>2. \A q \in Goroutines : proc[q].pc = "idle" BY <2>1 DEF ReconcileOK
  <2>3. Alone'
    <3>1. \A q \in Goroutines : proc[q].id = 0 BY <1>0, <2>2 DEF ProcOK, LocalOK
    <3> QED BY <2>1, <3>1 DEF Alone
  <2>4. Quiet' BY <2>1, <2>2 DEF KernelInv, Quiet
  <2> QED BY <1>1, <2>1, <2>3, <2>4
<1>7. ASSUME ShutdownAll PROVE KernelInv'
  <2> DEFINE x(p) == [Idle EXCEPT !.pc = "get_row", !.id = p]
  <2>1. \A p : x(p).pc = "get_row" /\ x(p).id = p /\ x(p).expires = NULL BY DEF Idle
  <2>2. /\ main = "drain" /\ main' = "stop_all" /\ UNCHANGED <<regVars, taps, rules, todo, nextId, machines>>
        /\ proc' = [p \in Goroutines |-> IF p \in machines THEN x(p) ELSE proc[p]]
        /\ \A p \in Requests : proc[p].pc \in {"idle", "wait_agent", "wait_vm", "finish_clones"}
    BY <1>7 DEF ShutdownAll
  <2> HIDE DEF x
  <2>3. \A p \in Goroutines : proc'[p] = proc[p] \/ (p \in machines /\ proc'[p] = x(p)) BY <2>2
  <2>4. \A p \in Goroutines : proc'[p] = proc[p] \/ GoroutineOK(p)' BY <2>1, <2>3, NothingPromised
  <2>5. NoDuplicateRule' BY <2>2 DEF KernelInv, NoDuplicateRule
  <2>6. Kernel' BY <2>2, <2>4, <2>5, ElsewhereKeepsKernel
  <2>7. Alone' BY <2>2 DEF Alone
  <2>8. Fresh' BY <2>1, <2>2, <2>3 DEF KernelInv, Fresh
  <2>9. \A p \in Goroutines : proc[p].pc \in Destroying \cup {"idle", "wait_agent"}
    BY <1>0, <2>2 DEF KernelInv, Quiet, Destroying, Frame, PCs
  <2>10. Quiet'
    BY <2>1, <2>2, <2>3, <2>9 DEF KernelInv, Quiet, Destroying
  <2> QED BY <2>6, <2>7, <2>8, <2>10 DEF KernelInv, Kernel
<1>8. ASSUME Exit \/ Crash \/ Reboot PROVE KernelInv'
  <2>1. /\ main' = "down" /\ machines' = {} /\ todo' = {} /\ UNCHANGED <<regVars, nextId>>
        /\ proc' = [p \in Goroutines |-> Idle]
        /\ UNCHANGED <<taps, rules>> \/ (taps' = {} /\ rules' = EmptyBag)
    BY <1>8 DEF Exit, Crash, Reboot, ProcessGone
  <2>2. Idle.pc = "idle" /\ Idle.id = 0 /\ Idle.expires = NULL BY DEF Idle
  <2>3. \A p \in Goroutines : proc'[p].pc = "idle" /\ proc'[p].id = 0 /\ proc'[p].expires = NULL
    BY <2>1, <2>2
  <2>4. \A p \in Goroutines : GoroutineOK(p)' BY <2>3, NothingPromised
  <2>5. BagToSet(rules') \subseteq BagToSet(rules) /\ taps' \subseteq taps
    BY <2>1 DEF EmptyBag, SetToBag, BagToSet
  <2>6. NoDuplicateRule' BY <2>1 DEF KernelInv, NoDuplicateRule, EmptyBag, SetToBag, BagToSet
  <2>7. Kernel' BY <2>1, <2>4, <2>5, <2>6, ElsewhereKeepsKernel
  <2>8. Alone' /\ Quiet' BY <2>1, <2>3 DEF KernelInv, Alone, Quiet
  <2>9. Fresh' BY <1>0, <2>1, <2>3 DEF KernelInv, Fresh
  <2> QED BY <2>7, <2>8, <2>9 DEF KernelInv, Kernel
<1>9. ASSUME NEW p \in Goroutines, proc' = [proc EXCEPT ![p].ctx = "cancelled"],
             UNCHANGED <<regVars, taps, rules, todo, nextId, machines>>,
             \/ main' = main
             \/ main = "serve" /\ main' = "drain"
             \/ main = "recover" /\ main' = "abort"
      PROVE  KernelInv'
  <2>1. /\ proc'[p].pc = proc[p].pc /\ SameFrame(p) /\ proc'[p].ctx = "cancelled"
        /\ proc'[p].expires = proc[p].expires /\ \A q \in Goroutines \ {p} : proc'[q] = proc[q]
    BY <1>0, <1>9 DEF Frame, SameFrame
  <2>2. GoroutineOK(p)' BY <1>9, <2>1, HangUpKeeps DEF KernelInv
  <2>3. NoDuplicateRule' BY <1>9 DEF KernelInv, NoDuplicateRule
  <2>4. Kernel' BY <1>9, <2>1, <2>2, <2>3, ElsewhereKeepsKernel
  <2>5. \A q \in Goroutines : proc'[q].pc = proc[q].pc /\ proc'[q].id = proc[q].id
                              /\ proc'[q].expires = proc[q].expires
    BY <2>1 DEF SameFrame
  <2>6. Alone' BY <1>9, <2>5 DEF KernelInv, Alone
  <2>7. Quiet' BY <1>9, <2>5 DEF KernelInv, Quiet
  <2>8. Fresh' BY <1>9, <2>5 DEF KernelInv, Fresh
  <2> QED BY <2>4, <2>6, <2>7, <2>8 DEF KernelInv, Kernel
<1>10. ASSUME Stop PROVE KernelInv'
  <2>1. /\ UNCHANGED <<regVars, taps, rules, todo, nextId, machines>>
        /\ (main = "serve" /\ main' = "drain") \/ (main = "recover" /\ main' = "abort")
        /\ proc' = proc \/ proc' = [proc EXCEPT ![Main].ctx = "cancelled"]
    BY <1>10 DEF Stop
  <2>2. CASE proc' = proc
    <3>1. Alone' /\ Quiet' BY <2>1, <2>2 DEF KernelInv, Alone, Quiet
    <3> QED BY <1>1, <2>1, <2>2, <3>1
  <2>3. CASE proc' = [proc EXCEPT ![Main].ctx = "cancelled"]
    <3> HIDE DEF regVars
    <3> QED BY <1>0, <1>9, <2>1, <2>3
  <2> QED BY <2>1, <2>2, <2>3
<1>11. ASSUME NEW p \in Requests, Disconnect(p) PROVE KernelInv'
  <2>1. /\ UNCHANGED <<regVars, taps, rules, todo, nextId, machines>> /\ main' = main
        /\ proc' = [proc EXCEPT ![p].ctx = "cancelled"] /\ p \in Goroutines
    BY <1>0, <1>11 DEF Disconnect
  <2> HIDE DEF regVars
  <2> QED BY <1>9, <2>1
<1>12. ASSUME Tick \/ UNCHANGED vars \/ \E v \in vms : VMExit(v) PROVE KernelInv'
  <2>1. UNCHANGED <<regVars, taps, rules, proc, nextId, machines, todo, main>>
    BY <1>12 DEF Tick, vars, VMExit
  <2>2. Alone' /\ Quiet' BY <2>1 DEF KernelInv, Alone, Quiet
  <2> QED BY <1>1, <2>1, <2>2
<1> QED BY <1>2, <1>3, <1>4, <1>5, <1>6, <1>7, <1>8, <1>10, <1>11, <1>12 DEF Serve, Environment

\* The invariant behind the theorems below.
LEMMA KernelInvariant ==
    ASSUME Disciplined PROVE Spec => []KernelInv
<1>1. Init => KernelInv
  <2> SUFFICES ASSUME Init PROVE KernelInv OBVIOUS
  <2>1. Idle.pc = "idle" /\ Idle.id = 0 /\ Idle.expires = NULL BY DEF Idle
  <2>2. \A p \in Goroutines : proc[p].pc = "idle" /\ proc[p].id = 0 /\ proc[p].expires = NULL
    BY <2>1 DEF Init
  <2>3. sandboxes = {} /\ taps = {} /\ machines = {} /\ todo = {} /\ nextId = 1 /\ BagToSet(rules) = {}
    BY DEF Init, RegInit, EmptyBag, SetToBag, BagToSet
  <2>4. Alone /\ Quiet /\ Fresh BY <2>2, <2>3 DEF Alone, Quiet, Fresh, Init
  <2>5. NoDuplicateRule /\ KernelStateRecorded BY <2>3 DEF NoDuplicateRule, KernelStateRecorded
  <2>6. \A p \in Goroutines : GoroutineOK(p)
    BY <2>2 DEF GoroutineOK, CopyGood, RowThere, RulesGone, NoPortsYet, TapGone, PortsKnown, ExposeAlone,
                WithRow
  <2> QED BY <2>4, <2>5, <2>6 DEF KernelInv
<1>2. LifeInv /\ KernelInv /\ [Next]_vars => KernelInv'
  <2> SUFFICES ASSUME LifeInv, KernelInv, [Next]_vars PROVE KernelInv' OBVIOUS
  <2>1. ASSUME NEW p \in Goroutines, Step(p) PROVE KernelInv' BY <2>1, StepKeepsKernel
  <2>2. ASSUME NEW id \in Ids, NEW timeout \in Timeouts, SetTimeout(id, timeout) PROVE KernelInv'
    BY <2>2, SetTimeoutKeepsKernel
  <2> QED BY <2>1, <2>2, ArrivalKeepsKernel, ServerKeepsKernel DEF Next
<1> QED BY <1>1, <1>2, LifecycleInvariant, PTL DEF Spec

\* Every tap and every DNAT rule on the host is one a row accounts for, at every
\* moment the server may be killed: the handlers write the row before they make
\* them and delete it after they are gone, on every error path, whatever the
\* other handlers and a shutdown do meanwhile.
THEOREM LifecycleKernelRecorded == ASSUME Disciplined PROVE Spec => []KernelStateRecorded
<1>1. KernelInv => KernelStateRecorded BY DEF KernelInv
<1> QED BY <1>1, KernelInvariant, PTL

\* No DNAT rule is ever in the table twice, so that the one -D of a destroy takes
\* the forward away.
THEOREM LifecycleNoDuplicateRule == ASSUME Disciplined PROVE Spec => []NoDuplicateRule
<1>1. KernelInv => NoDuplicateRule BY DEF KernelInv
<1> QED BY <1>1, KernelInvariant, PTL

\* When a restarted server starts to listen, reconcile has emptied the registry
\* and taken every tap and rule of the previous run off the host, wherever the
\* server was killed.
THEOREM LifecycleRecovered == ASSUME Disciplined PROVE Spec => Recovered
<1> DEFINE Clean == main = "recover" /\ main' = "serve" =>
                       sandboxes = {} /\ sandbox_ports = {} /\ taps = {} /\ rules = EmptyBag
<1>1. LifeInv /\ KernelInv /\ [Next]_vars => [Clean]_vars
  <2> SUFFICES ASSUME LifeInv, KernelInv, Next, main = "recover", main' = "serve"
               PROVE  sandboxes = {} /\ sandbox_ports = {} /\ taps = {} /\ rules = EmptyBag
    OBVIOUS
  <2> USE DEF LifeInv, LifeTypes, KernelInv
  <2>1. \A p \in Goroutines : Step(p) => main' = main BY StepMoves DEF Moves
  <2>2. Listen
    BY <2>1 DEF Next, Arrival, PrepareRootfs, DestroyArrives, ExposeArrives, SetTimeout, ReaperTick,
       ReapNext, Serve, Environment, Restart, ReconcileNext, ShutdownAll, Exit, Disconnect, VMExit,
       Stop, Crash, Reboot, ProcessGone, Tick, memVars
  <2>3. Main \in Goroutines /\ proc[Main].pc = "idle" /\ todo = {}
    BY <2>2 DEF Listen, IsIdle, Goroutines
  <2>4. proc[Main].id = 0 BY <2>3 DEF ProcOK, LocalOK
  <2>5. sandboxes = {}
    <3>1. \A r \in sandboxes : r.id # 0 BY CardinalityIds DEF RegInv, RegTypeOK, Sandbox
    <3> QED BY <2>3, <2>4, <3>1 DEF ReconcileOK
  <2>6. sandbox_ports = {} BY <2>5 DEF RegInv, PortsOwned
  <2>7. taps = {} /\ BagToSet(rules) = {} BY <2>5 DEF KernelStateRecorded
  <2>8. rules = EmptyBag BY <2>7 DEF RulesOK, IsABag, BagToSet, EmptyBag, SetToBag
  <2> QED BY <2>5, <2>6, <2>7, <2>8
<1> QED BY <1>1, LifecycleInvariant, KernelInvariant, PTL DEF Spec, Recovered
=============================================================================
