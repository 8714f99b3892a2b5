------------------------------- MODULE Agent -------------------------------
(***************************************************************************)
(* One request to the in-guest agent, cmd/sandboxd/main.go, seen from the  *)
(* process it runs to the client that reads its answer: POST /exec (kind   *)
(* "exec"), POST /exec/stream (kind "stream") and GET /shell (kind         *)
(* "shell"), through the proxies of internal/server/proxy.go, to           *)
(* internal/client/client.go and cmd/sandbox/shell.go.                     *)
(*                                                                         *)
(* The command is bash and at most one child it leaves behind, which holds *)
(* the pipes open after bash has ended.  Output is a number of chunks per *)
(* stream; a shell has one stream, its pty.                                *)
(***************************************************************************)
EXTENDS Integers, Sequences

CONSTANTS
    Kinds,    \* the kinds of request
    MaxOut,   \* bound on the chunks a command writes to a stream
    MaxKept   \* agentapi.MaxOutputBytes, in chunks

ASSUME AgentAssumption ==
    /\ Kinds \subseteq {"exec", "stream", "shell"}
    /\ MaxOut \in Nat /\ MaxKept \in Nat

VARIABLES
    kind,     \* which handler serves the request
    main,     \* bash
    child,    \* a process bash left behind, in bash's group or detached from it
    produced, \* chunks written to each stream
    taken,    \* chunks the agent has read from each stream
    reader,   \* the goroutine that reads each stream
    pc,       \* the handler
    ctx,      \* the request's context, with the command's time limit
    watcher,  \* the goroutine of os/exec that kills the command with the context
    input,    \* the goroutine that reads the client's frames (shell)
    sent,     \* what was written to the connection and is not lost
    link,     \* the connection, through the host's proxy
    seen,     \* how much of it the client has read
    client    \* the client's call

procVars == <<main, child, produced>>
agentVars == <<taken, reader, pc, ctx, watcher, input>>
connVars == <<sent, link, seen, client>>
vars == <<kind, procVars, agentVars, connVars>>

Streams == {"out", "err"}

Alive(c) == c \in {"group", "detached"}

\* Somebody can still write to the pipes or the pty.  Bash leads the session of
\* its pty, which is hung up for everybody when it ends.
Open == main = "running" \/ (kind # "shell" /\ Alive(child))

\* A write to the connection is lost once it is cut.
Sends(ev) == sent' = IF link = "up" THEN Append(sent, ev) ELSE sent

\* A slip: only bash itself is signalled.
KillLeader ==
    /\ main' = IF main = "running" THEN "killed" ELSE main
    /\ child' = child

\* kill(-pid, SIGKILL): bash and what is left of its process group.
KillGroup ==
    /\ main' = IF main = "running" THEN "killed" ELSE main
    /\ child' = IF child = "group" THEN "gone" ELSE child

\* A slip: the limit counts only while bash still runs.
TimedOutWhileRunning == ctx = "deadline" /\ main = "running"

\* The exit's timed_out: the context is asked when the answer is made.
TimedOut == ctx = "deadline"

ReadersDone == \A st \in Streams : reader[st] = "done"

-----------------------------------------------------------------------------
(* The command *)

\* bash starts a child: a command of a script stays in its group unless it asks
\* not to, a job of an interactive shell has a group of its own.
Spawn ==
    /\ main = "running" /\ child = "none"
    /\ child' \in IF kind = "shell" THEN {"detached"} ELSE {"group", "detached"}
    /\ UNCHANGED <<kind, main, produced, agentVars, connVars>>

WriteOutput(st) ==
    /\ Open /\ pc # "done" /\ produced[st] < MaxOut
    /\ kind = "shell" => st = "out"
    /\ produced' = [produced EXCEPT ![st] = @ + 1]
    /\ UNCHANGED <<kind, main, child, agentVars, connVars>>

BashExits ==
    /\ main = "running" /\ main' = "exited"
    /\ UNCHANGED <<kind, child, produced, agentVars, connVars>>

ChildExits ==
    /\ Alive(child) /\ child' = "gone"
    /\ UNCHANGED <<kind, main, produced, agentVars, connVars>>

-----------------------------------------------------------------------------
(* The context and its watcher *)

\* The limit of execTimeout passes.  A shell has none.
Deadline ==
    /\ kind # "shell" /\ ctx = "live" /\ ctx' = "deadline"
    /\ UNCHANGED <<kind, procVars, taken, reader, pc, watcher, input, connVars>>

\* net/http cancels a request's context when its connection is gone.
Cancel ==
    /\ kind # "shell" /\ link = "cut" /\ ctx = "live" /\ ctx' = "cancelled"
    /\ UNCHANGED <<kind, procVars, taken, reader, pc, watcher, input, connVars>>

\* A slip: the command has a timer, not a context.
WatcherTimerOnly ==
    /\ watcher = "armed" /\ ctx = "deadline"
    /\ watcher' = "fired" /\ KillGroup
    /\ UNCHANGED <<kind, produced, taken, reader, pc, ctx, input, connVars>>

\* os/exec calls cmd.Cancel of buildCmd.
Watch ==
    /\ watcher = "armed" /\ ctx # "live"
    /\ watcher' = "fired" /\ KillGroup
    /\ UNCHANGED <<kind, produced, taken, reader, pc, ctx, input, connVars>>

-----------------------------------------------------------------------------
(* Output *)

\* A slip: the buffer takes one chunk more than it should.
KeptOneMore(n) == IF n > MaxKept + 1 THEN MaxKept + 1 ELSE n

\* cappedBuffer: what is kept of n chunks; the rest is counted.
Kept(n) == IF n > MaxKept THEN MaxKept ELSE n

\* A read of a pipe or the pty.  handleExec's readers copy into a buffer.
Read(st) ==
    /\ reader[st] = "read" /\ taken[st] < produced[st]
    /\ taken' = [taken EXCEPT ![st] = @ + 1]
    /\ reader' = [reader EXCEPT ![st] = IF kind = "exec" THEN "read" ELSE "emit"]
    /\ UNCHANGED <<kind, procVars, pc, ctx, watcher, input, connVars>>

\* One event, under the mutex, or one frame.  emit ignores a failed write, the
\* shell's output goroutine ends with it.
Emit(st) ==
    /\ reader[st] = "emit"
    /\ Sends([type |-> st, data |-> taken[st]])
    /\ reader' = [reader EXCEPT ![st] = IF kind = "shell" /\ link = "cut" THEN "done" ELSE "read"]
    /\ UNCHANGED <<kind, procVars, taken, pc, ctx, watcher, input, link, seen, client>>

\* EOF, or EIO of a pty: nobody has it open, or the handler has closed it.
ReadEnds(st) ==
    /\ reader[st] = "read"
    /\ (taken[st] = produced[st] /\ ~Open) \/ pc = "done"
    /\ reader' = [reader EXCEPT ![st] = "done"]
    /\ UNCHANGED <<kind, procVars, taken, pc, ctx, watcher, input, connVars>>

-----------------------------------------------------------------------------
(* handleExec: cmd.Run waits for bash, then for the copying goroutines, with  *)
(* the watcher dismissed.                                                    *)

ExecWait ==
    /\ kind = "exec" /\ pc = "start" /\ main # "running"
    /\ pc' = "copy"
    /\ watcher' = IF watcher = "armed" THEN "stopped" ELSE watcher
    /\ UNCHANGED <<kind, procVars, taken, reader, ctx, input, connVars>>

ExecAnswer ==
    /\ kind = "exec" /\ pc = "copy" /\ ReadersDone
    /\ Sends([type |-> "exit", timedOut |-> TimedOut, data |->
                [st \in Streams |-> [kept |-> Kept(taken[st]), dropped |-> taken[st] - Kept(taken[st])]]])
    /\ pc' = "done"
    /\ UNCHANGED <<kind, procVars, taken, reader, ctx, watcher, input, link, seen, client>>

-----------------------------------------------------------------------------
(* handleExecStream: the pipes are drained before cmd.Wait closes them.      *)

\* A slip: cmd.Wait comes first, and closes the pipes under the readers.
StreamWaitFirst ==
    /\ kind = "stream" /\ pc = "start" /\ main # "running"
    /\ pc' = "exit"
    /\ watcher' = IF watcher = "armed" THEN "stopped" ELSE watcher
    /\ reader' = [st \in Streams |-> "done"]
    /\ UNCHANGED <<kind, procVars, taken, ctx, input, connVars>>

\* A slip: nobody waits for the readers.
StreamWaitAlone ==
    /\ kind = "stream" /\ pc = "start" /\ main # "running"
    /\ pc' = "exit"
    /\ watcher' = IF watcher = "armed" THEN "stopped" ELSE watcher
    /\ UNCHANGED <<kind, procVars, taken, reader, ctx, input, connVars>>

StreamWait ==
    /\ kind = "stream" /\ pc = "start" /\ ReadersDone /\ main # "running"
    /\ pc' = "exit"
    /\ watcher' = IF watcher = "armed" THEN "stopped" ELSE watcher
    /\ UNCHANGED <<kind, procVars, taken, reader, ctx, input, connVars>>

StreamExit ==
    /\ kind = "stream" /\ pc = "exit"
    /\ Sends([type |-> "exit", timedOut |-> TimedOut])
    /\ pc' = "done"
    /\ UNCHANGED <<kind, procVars, taken, reader, ctx, watcher, input, link, seen, client>>

-----------------------------------------------------------------------------
(* handleShell *)

\* The input goroutine ends when a read of the connection fails.
InputEnds ==
    /\ kind = "shell" /\ input = "read" /\ link = "cut"
    /\ input' = "done"
    /\ UNCHANGED <<kind, procVars, taken, reader, pc, ctx, watcher, connVars>>

\* select: the client is gone, or bash is and its output is drained first.
ShellSelect ==
    /\ kind = "shell" /\ pc = "start"
    /\ \/ input = "done" /\ pc' = "tear_down"
       \/ main # "running" /\ pc' = "drain"
    /\ UNCHANGED <<kind, procVars, taken, reader, ctx, watcher, input, connVars>>

ShellClose ==
    /\ kind = "shell" /\ pc = "drain" /\ ReadersDone
    /\ Sends([type |-> "exit"])
    /\ pc' = "tear_down"
    /\ UNCHANGED <<kind, procVars, taken, reader, ctx, watcher, input, link, seen, client>>

\* The deferred calls: kill the group, close pty and connection.
TearDown ==
    /\ kind = "shell" /\ pc = "tear_down"
    /\ KillGroup
    /\ pc' = "done"
    /\ UNCHANGED <<kind, produced, taken, reader, ctx, watcher, input, connVars>>

-----------------------------------------------------------------------------
(* The connection and the client *)

\* The host's proxy or the network fails, or the client leaves: what was under
\* way is lost from some point on.  handleAgentProxy ignores the error of
\* io.Copy, so that the client only sees the body end.
Cut(who) ==
    /\ link = "up"
    /\ link' = "cut"
    /\ \E n \in seen .. Len(sent) : sent' = SubSeq(sent, 1, n)
    /\ client' = IF who = "client" /\ client = "read" THEN "left" ELSE client
    /\ UNCHANGED <<kind, procVars, agentVars, seen>>

Receive ==
    /\ client = "read" /\ seen < Len(sent)
    /\ seen' = seen + 1
    /\ UNCHANGED <<kind, procVars, agentVars, sent, link, client>>

SawExit == \E i \in 1 .. seen : sent[i].type = "exit"

\* The body ends.  ExecStream and runStreaming report an error if the exit event
\* is missing, do if the document is.
EndOfBody ==
    /\ kind # "shell" /\ client = "read" /\ seen = Len(sent) /\ (pc = "done" \/ link = "cut")
    /\ client' = IF SawExit THEN "ok" ELSE "error"
    /\ UNCHANGED <<kind, procVars, agentVars, sent, link, seen>>

\* runShell exits with the code of the close frame, and takes a connection that
\* ends without one for a clean end.
EndOfShell ==
    /\ kind = "shell" /\ client = "read" /\ seen = Len(sent) /\ (pc = "done" \/ link = "cut")
    /\ client' = IF SawExit THEN "ok" ELSE "ended"
    /\ UNCHANGED <<kind, procVars, agentVars, sent, link, seen>>

-----------------------------------------------------------------------------
Init ==
    /\ kind \in Kinds
    /\ main = "running" /\ child = "none"
    /\ produced = [st \in Streams |-> 0] /\ taken = produced
    /\ reader = [st \in Streams |-> IF kind = "shell" /\ st = "err" THEN "done" ELSE "read"]
    /\ pc = "start" /\ ctx = "live" /\ input = "read"
    /\ watcher = IF kind = "shell" THEN "stopped" ELSE "armed"
    /\ sent = << >> /\ link = "up" /\ seen = 0 /\ client = "read"

Command == Spawn \/ (\E st \in Streams : WriteOutput(st)) \/ BashExits \/ ChildExits
Reader(st) == Read(st) \/ Emit(st) \/ ReadEnds(st)
Handler == ExecWait \/ ExecAnswer \/ StreamWait \/ StreamExit \/ ShellSelect \/ ShellClose \/ TearDown
Client == Receive \/ EndOfBody \/ EndOfShell

Next ==
    \/ Command
    \/ Deadline \/ Cancel \/ Watch
    \/ \E st \in Streams : Reader(st)
    \/ Handler
    \/ InputEnds
    \/ \E who \in {"client", "network"} : Cut(who)
    \/ Client

\* Goroutines and the client run when they can, and a dead connection is
\* noticed.  The command need not end, nor write, nor need the limit pass.
Spec ==
    /\ Init /\ [][Next]_vars
    /\ \A st \in Streams : WF_vars(Reader(st))
    /\ WF_vars(Handler) /\ WF_vars(Watch) /\ WF_vars(Cancel) /\ WF_vars(InputEnds)
    /\ WF_vars(Client)

-----------------------------------------------------------------------------
(* Properties *)

\* Every goroutine is in one of its states, and a buffered answer carries no
\* more than cappedBuffer may keep.
AgentTypeOK ==
    /\ kind \in Kinds /\ main \in {"running", "exited", "killed"}
    /\ child \in {"none", "group", "detached", "gone"}
    /\ produced \in [Streams -> 0 .. MaxOut] /\ taken \in [Streams -> 0 .. MaxOut]
    /\ reader \in [Streams -> {"read", "emit", "done"}]
    /\ pc \in {"start", "copy", "exit", "drain", "tear_down", "done"}
    /\ ctx \in {"live", "deadline", "cancelled"} /\ watcher \in {"armed", "fired", "stopped"}
    /\ input \in {"read", "done"} /\ link \in {"up", "cut"} /\ seen \in 0 .. Len(sent)
    /\ client \in {"read", "ok", "error", "ended", "left"}
    /\ \A i \in 1 .. Len(sent) :
          sent[i].type = "exit" /\ kind = "exec" => \A st \in Streams : sent[i].data[st].kept <= MaxKept

\* "the stream ends with exactly one exit event" (agentapi.go:42-43), and the
\* close frame of a shell comes after the last of its output.
ExitIsLast == \A i \in 1 .. Len(sent) - 1 : sent[i].type # "exit"

\* The event that carries the n-th chunk of a stream.
IsChunk(ev, st, n) == ev.type = st /\ ev.data = n

\* A call that succeeds has all of the output, in order and once: nothing the
\* command or its children wrote is lost between two readers, cmd.Wait, a kill,
\* the proxy and a connection that may break anywhere.
OutputComplete ==
    client = "ok" =>
        \A st \in Streams :
            IF kind = "exec"
            THEN sent[1].data[st].kept + sent[1].data[st].dropped = produced[st]
            ELSE /\ \A n \in 1 .. produced[st] : \E i \in 1 .. seen : IsChunk(sent[i], st, n)
                 /\ \A i \in 1 .. seen : sent[i].type = st =>
                       /\ sent[i].data \in 1 .. produced[st]
                       /\ \A j \in 1 .. i - 1 : sent[j].type = st => sent[j].data < sent[i].data

\* A caller that is told a command ended is told so if the command was killed:
\* what the time limit cut short is never taken for a command that ended by
\* itself, also when it is killed while its pipes are being drained.
KillReported ==
    client = "ok" /\ kind # "shell" /\ main = "killed" =>
        \E i \in 1 .. seen : sent[i].type = "exit" /\ sent[i].timedOut

\* "killed when either side goes away" (main.go:214) and cmd.Cancel: bash does
\* not run on for ever once the connection is gone.
HangupKills == (link = "cut" /\ main = "running") ~> main # "running"

\* A streaming exec ends after its time limit, although bash may have ended
\* long before and left children that hold the pipes, unless one of them left
\* the process group.  A shell session ends with bash, whatever jobs it leaves
\* and whether or not the client still reads.
CallsEnd ==
    /\ (kind = "stream" /\ ctx = "deadline") ~> (pc = "done" \/ child = "detached")
    /\ (kind = "shell" /\ main # "running") ~> pc = "done"
=============================================================================
