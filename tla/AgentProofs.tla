---------------------------- MODULE AgentProofs ----------------------------
(* Proofs about Agent, for any number of chunks and any buffer size.       *)
EXTENDS Agent, TLAPS

\* What is written to a connection.
Event ==
    [type : Streams, data : Nat] \cup [type : {"exit"}]
      \cup [type : {"exit"}, timedOut : BOOLEAN]
      \cup [type : {"exit"}, timedOut : BOOLEAN,
            data : [Streams -> [kept : Nat, dropped : Int]]]

HasExit == \E i \in 1 .. Len(sent) : sent[i].type = "exit"

\* The chunks of a stream that its reader has handed on.
Emitted(st) == IF reader[st] = "emit" THEN taken[st] - 1 ELSE taken[st]

\* The steps a handler of each kind goes through.
Phases ==
    /\ kind \in {"exec", "stream", "shell"}
    /\ kind = "exec" => pc \in {"start", "copy", "done"}
    /\ kind = "stream" => pc \in {"start", "exit", "done"}
    /\ kind = "shell" => pc \in {"start", "drain", "tear_down", "done"}

\* A reader stops at the end of its stream, which nobody can write to again,
\* except that a shell's may stop when the connection or the pty goes.
Drained ==
    /\ \A st \in Streams : taken[st] <= produced[st]
    /\ \A st \in Streams : reader[st] = "emit" => kind # "exec" /\ taken[st] > 0
    /\ kind # "shell" => \A st \in Streams : reader[st] = "done" => taken[st] = produced[st] /\ ~Open
    /\ kind = "shell" => produced["err"] = 0 /\ taken["err"] = 0 /\ reader["err"] = "done"
    /\ kind = "shell" /\ reader["out"] = "done" /\ pc # "done" /\ link = "up" =>
          taken["out"] = produced["out"] /\ ~Open
    /\ kind = "stream" /\ pc # "start" => ReadersDone
    /\ kind = "exec" /\ pc = "done" => ReadersDone
    /\ kind = "shell" /\ pc = "drain" => main # "running"

\* The chunks on the connection: each once, in order, none missing as long as
\* the connection has not been cut.
InOrder ==
    \A i \in 1 .. Len(sent) : \A st \in Streams : sent[i].type = st =>
        /\ kind # "exec"
        /\ sent[i].data \in 1 .. Emitted(st)
        /\ \A j \in 1 .. i - 1 : sent[j].type = st => sent[j].data < sent[i].data
NoneMissing ==
    \A st \in Streams : \A n \in 1 .. Emitted(st) : \E i \in 1 .. Len(sent) : IsChunk(sent[i], st, n)
UpToDate == kind # "exec" /\ link = "up" => NoneMissing

\* Once the exit is on the connection everything is before it and nothing moves.
ExitInv ==
    HasExit =>
        /\ ReadersDone /\ pc \in {"tear_down", "done"} /\ ~Open
        /\ \A st \in Streams : taken[st] = produced[st]
        /\ kind # "exec" => NoneMissing
        /\ kind = "exec" => \A i \in 1 .. Len(sent) : \A st \in Streams :
              /\ sent[i].data[st].kept + sent[i].data[st].dropped = produced[st]
              /\ sent[i].data[st].kept <= MaxKept

\* Only the context kills a command, and a request's context is cancelled only
\* when there is nobody left to answer.
KillInv ==
    /\ ctx = "cancelled" => link = "cut"
    /\ kind # "shell" /\ main = "killed" => ctx # "live"
    /\ kind # "shell" => \A i \in 1 .. Len(sent) :
          sent[i].type = "exit" /\ main = "killed" => sent[i].timedOut

\* The type invariant in three parts, which are used apart.
CountsOK == produced \in [Streams -> 0 .. MaxOut] /\ taken \in [Streams -> 0 .. MaxOut]
ReaderOK == reader \in [Streams -> {"read", "emit", "done"}]
StateOK ==
    /\ kind \in Kinds /\ main \in {"running", "exited", "killed"}
    /\ child \in {"none", "group", "detached", "gone"}
    /\ pc \in {"start", "copy", "exit", "drain", "tear_down", "done"}
    /\ ctx \in {"live", "deadline", "cancelled"} /\ watcher \in {"armed", "fired", "stopped"}
    /\ input \in {"read", "done"} /\ link \in {"up", "cut"}
    /\ client \in {"read", "ok", "error", "ended", "left"}

\* What the client has read stays on the connection.
SentOK == sent \in Seq(Event) /\ seen \in 0 .. Len(sent) /\ (client = "ok" => SawExit)

\* The inductive invariant.
AgentInv ==
    /\ CountsOK /\ ReaderOK /\ StateOK /\ SentOK
    /\ Phases /\ Drained /\ InOrder /\ UpToDate /\ ExitInv /\ ExitIsLast /\ KillInv

\* It holds when the request arrives.
LEMMA InitAgentInv == Init => AgentInv
<1> SUFFICES ASSUME Init PROVE AgentInv OBVIOUS
<1> USE AgentAssumption DEF Init, Streams
<1>1. CountsOK /\ ReaderOK /\ StateOK /\ SentOK BY DEF CountsOK, ReaderOK, StateOK, SentOK
<1>2. Phases /\ Drained BY DEF Phases, Drained
<1>3. InOrder /\ ExitInv /\ ExitIsLast /\ KillInv BY DEF InOrder, ExitInv, HasExit, ExitIsLast, KillInv
<1>4. UpToDate BY DEF UpToDate, NoneMissing, Emitted
<1> QED BY <1>1, <1>2, <1>3, <1>4 DEF AgentInv

\* A write appends one event, or is lost.
LEMMA SendsAppends ==
    ASSUME sent \in Seq(Event), NEW ev \in Event, Sends(ev)
    PROVE  /\ sent' \in Seq(Event)
           /\ link # "up" => sent' = sent
           /\ link = "up" => /\ Len(sent') = Len(sent) + 1
                             /\ \A i \in 1 .. Len(sent) : sent'[i] = sent[i]
                             /\ sent'[Len(sent) + 1] = ev
<1> HIDE DEF Event
<1> QED BY DEF Sends

\* Steps that leave the connection and the readers alone keep what is said of it.
LEMMA SameOutput ==
    ASSUME AgentInv, UNCHANGED <<kind, sent, link, taken, reader, seen, client>>
    PROVE  InOrder' /\ UpToDate' /\ (NoneMissing' <=> NoneMissing) /\ ExitIsLast' /\ SentOK'
<1> USE DEF AgentInv
<1>1. \A st \in Streams : Emitted(st)' = Emitted(st) BY DEF Emitted
<1>2. InOrder' /\ (NoneMissing' <=> NoneMissing) BY <1>1 DEF InOrder, NoneMissing
<1> QED BY <1>2 DEF UpToDate, ExitIsLast, SentOK, SawExit

\* The exit may be written when the readers are done and, if anybody is there to
\* read it, all streams are at their end.
LEMMA SendExitKeepsInv ==
    ASSUME AgentInv, NEW ev \in Event, ev.type = "exit", Sends(ev),
           UNCHANGED <<kind, procVars, taken, reader, ctx, link, seen, client>>,
           pc \notin {"tear_down", "done"}, pc' \in {"tear_down", "done"}, ReadersDone,
           link = "up" => ~Open /\ \A st \in Streams : taken[st] = produced[st],
           kind # "shell" /\ main = "killed" /\ link = "up" => ev.timedOut,
           kind = "exec" => \A st \in Streams :
              ev.data[st].kept + ev.data[st].dropped = taken[st] /\ ev.data[st].kept <= MaxKept
    PROVE  (SentOK /\ InOrder /\ UpToDate /\ ExitInv /\ ExitIsLast /\ KillInv)'
<1> USE DEF AgentInv, procVars
<1>1. sent \in Seq(Event) BY DEF SentOK
<1>2. ~HasExit BY DEF ExitInv
<1>3. \A st \in Streams : Emitted(st)' = Emitted(st) BY DEF Emitted
<1>4. CASE link # "up"
  <2>1. sent' = sent BY <1>1, <1>4, SendsAppends
  <2>2. (SentOK /\ InOrder /\ UpToDate /\ ExitIsLast)' BY <2>1, SameOutput
  <2>3. ExitInv' BY <1>2, <2>1 DEF ExitInv, HasExit
  <2>4. KillInv' BY <2>1 DEF KillInv
  <2> QED BY <2>2, <2>3, <2>4
<1>5. CASE link = "up"
  <2>1. /\ sent' \in Seq(Event) /\ Len(sent') = Len(sent) + 1 /\ Len(sent) \in Nat
        /\ \A i \in 1 .. Len(sent) : sent'[i] = sent[i]
        /\ sent'[Len(sent) + 1] = ev
    BY <1>1, <1>5, SendsAppends
  <2>2. SentOK' BY <2>1 DEF SentOK, SawExit
  <2>3. InOrder' BY <1>3, <2>1 DEF InOrder, Streams
  <2>4. NoneMissing => NoneMissing' BY <1>3, <2>1 DEF NoneMissing
  <2>5. UpToDate' BY <2>4 DEF UpToDate
  <2>6. ExitIsLast' BY <1>2, <2>1 DEF ExitIsLast, HasExit
  <2>7. KillInv' BY <1>2, <1>5, <2>1 DEF KillInv, HasExit
  <2>8. kind = "exec" => Len(sent) = 0
    BY <1>1, <1>2 DEF InOrder, HasExit, Event
  <2>9. ExitInv'
    <3>1. ReadersDone' /\ pc' \in {"tear_down", "done"} /\ ~Open' BY <1>5 DEF ReadersDone, Open
    <3>2. \A st \in Streams : taken'[st] = produced'[st] BY <1>5
    <3>3. kind # "exec" => NoneMissing' BY <1>5, <2>4 DEF UpToDate
    <3>4. kind = "exec" => \A i \in 1 .. Len(sent') : \A st \in Streams :
              /\ sent'[i].data[st].kept + sent'[i].data[st].dropped = produced'[st]
              /\ sent'[i].data[st].kept <= MaxKept
      BY <1>5, <2>1, <2>8
    <3> QED BY <3>1, <3>2, <3>3, <3>4 DEF ExitInv
  <2> QED BY <2>2, <2>3, <2>5, <2>6, <2>7, <2>9
<1> QED BY <1>4, <1>5

\* Every step of the command, the agent, the connection and the client keeps it.
LEMMA NextAgentInv == AgentInv /\ [Next]_vars => AgentInv'
<1> SUFFICES ASSUME AgentInv, [Next]_vars PROVE AgentInv' OBVIOUS
<1> USE AgentAssumption DEF AgentInv, procVars, agentVars, connVars
<1>1. CASE Spawn
  <2> USE <1>1 DEF Spawn
  <2>0. CountsOK' /\ ReaderOK' BY DEF CountsOK, ReaderOK
  <2>1. StateOK' BY DEF StateOK
  <2>2. Phases' BY DEF Phases
  <2>3. Drained' BY DEF Drained, StateOK, Phases, Open, Alive, ReadersDone, Streams
  <2>4. (SentOK /\ InOrder /\ UpToDate /\ ExitIsLast)' /\ (NoneMissing' <=> NoneMissing) BY SameOutput
  <2>5. ExitInv' BY <2>4 DEF ExitInv, HasExit, ReadersDone, Open, Alive, StateOK, Phases, Streams
  <2>6. KillInv' BY DEF KillInv, StateOK, ExitInv, HasExit, Open
  <2> QED BY <2>0, <2>1, <2>2, <2>3, <2>4, <2>5, <2>6
<1>2. ASSUME NEW st \in Streams, WriteOutput(st) PROVE AgentInv'
  <2> USE <1>2 DEF WriteOutput
  <2>0. CountsOK' /\ ReaderOK' BY DEF CountsOK, ReaderOK
  <2>1. StateOK' BY DEF StateOK
  <2>2. Phases' BY DEF Phases
  <2>a. \A x \in Streams : produced'[x] = (IF x = st THEN produced[x] + 1 ELSE produced[x])
    BY DEF CountsOK
  <2>b. \A x \in Streams : reader[x] = "done" => x # st \/ kind = "shell" BY DEF Drained
  <2>3. Drained' BY <2>a, <2>b DEF Drained, CountsOK, Phases, Open, ReadersDone, Streams
  <2>4. (SentOK /\ InOrder /\ UpToDate /\ ExitIsLast)' /\ (NoneMissing' <=> NoneMissing) BY SameOutput
  <2>5. ExitInv' BY <2>4 DEF ExitInv, HasExit, ReadersDone, Open, Alive, StateOK, Phases, Streams
  <2>6. KillInv' BY DEF KillInv, StateOK, ExitInv, HasExit, Open
  <2> QED BY <2>0, <2>1, <2>2, <2>3, <2>4, <2>5, <2>6
<1>3. CASE BashExits
  <2> USE <1>3 DEF BashExits
  <2>0. CountsOK' /\ ReaderOK' BY DEF CountsOK, ReaderOK
  <2>1. StateOK' BY DEF StateOK
  <2>2. Phases' BY DEF Phases
  <2>3. Drained' BY DEF Drained, StateOK, Phases, Open, Alive, ReadersDone, Streams
  <2>4. (SentOK /\ InOrder /\ UpToDate /\ ExitIsLast)' /\ (NoneMissing' <=> NoneMissing) BY SameOutput
  <2>5. ExitInv' BY <2>4 DEF ExitInv, HasExit, ReadersDone, Open, Alive, StateOK, Phases, Streams
  <2>6. KillInv' BY DEF KillInv, StateOK, ExitInv, HasExit, Open
  <2> QED BY <2>0, <2>1, <2>2, <2>3, <2>4, <2>5, <2>6
<1>4. CASE ChildExits
  <2> USE <1>4 DEF ChildExits
  <2>0. CountsOK' /\ ReaderOK' BY DEF CountsOK, ReaderOK
  <2>1. StateOK' BY DEF StateOK
  <2>2. Phases' BY DEF Phases
  <2>3. Drained' BY DEF Drained, StateOK, Phases, Open, Alive, ReadersDone, Streams
  <2>4. (SentOK /\ InOrder /\ UpToDate /\ ExitIsLast)' /\ (NoneMissing' <=> NoneMissing) BY SameOutput
  <2>5. ExitInv' BY <2>4 DEF ExitInv, HasExit, ReadersDone, Open, Alive, StateOK, Phases, Streams
  <2>6. KillInv' BY DEF KillInv, StateOK, ExitInv, HasExit, Open
  <2> QED BY <2>0, <2>1, <2>2, <2>3, <2>4, <2>5, <2>6
<1>5. CASE Deadline
  <2> USE <1>5 DEF Deadline
  <2>0. CountsOK' /\ ReaderOK' BY DEF CountsOK, ReaderOK
  <2>1. StateOK' BY DEF StateOK
  <2>2. Phases' BY DEF Phases
  <2>3. Drained' BY DEF Drained, StateOK, Phases, Open, Alive, ReadersDone, Streams
  <2>4. (SentOK /\ InOrder /\ UpToDate /\ ExitIsLast)' /\ (NoneMissing' <=> NoneMissing) BY SameOutput
  <2>5. ExitInv' BY <2>4 DEF ExitInv, HasExit, ReadersDone, Open, Alive, StateOK, Phases, Streams
  <2>6. KillInv' BY DEF KillInv, StateOK, ExitInv, HasExit, Open
  <2> QED BY <2>0, <2>1, <2>2, <2>3, <2>4, <2>5, <2>6
<1>6. CASE Cancel
  <2> USE <1>6 DEF Cancel
  <2>0. CountsOK' /\ ReaderOK' BY DEF CountsOK, ReaderOK
  <2>1. StateOK' BY DEF StateOK
  <2>2. Phases' BY DEF Phases
  <2>3. Drained' BY DEF Drained, StateOK, Phases, Open, Alive, ReadersDone, Streams
  <2>4. (SentOK /\ InOrder /\ UpToDate /\ ExitIsLast)' /\ (NoneMissing' <=> NoneMissing) BY SameOutput
  <2>5. ExitInv' BY <2>4 DEF ExitInv, HasExit, ReadersDone, Open, Alive, StateOK, Phases, Streams
  <2>6. KillInv' BY DEF KillInv, StateOK, ExitInv, HasExit, Open
  <2> QED BY <2>0, <2>1, <2>2, <2>3, <2>4, <2>5, <2>6
<1>7. CASE Watch
  <2> USE <1>7 DEF Watch, KillGroup
  <2>0. CountsOK' /\ ReaderOK' BY DEF CountsOK, ReaderOK
  <2>1. StateOK' BY DEF StateOK
  <2>2. Phases' BY DEF Phases
  <2>3. Drained' BY DEF Drained, StateOK, Phases, Open, Alive, ReadersDone, Streams
  <2>4. (SentOK /\ InOrder /\ UpToDate /\ ExitIsLast)' /\ (NoneMissing' <=> NoneMissing) BY SameOutput
  <2>5. ExitInv' BY <2>4 DEF ExitInv, HasExit, ReadersDone, Open, Alive, StateOK, Phases, Streams
  <2>6. KillInv' BY DEF KillInv, StateOK, ExitInv, HasExit, Open
  <2> QED BY <2>0, <2>1, <2>2, <2>3, <2>4, <2>5, <2>6
<1>8. ASSUME NEW st \in Streams, Read(st) PROVE AgentInv'
  <2> USE <1>8 DEF Read
  <2>0. CountsOK' /\ ReaderOK'
    <3>1. taken[st] + 1 \in 0 .. MaxOut BY DEF CountsOK
    <3> QED BY <3>1 DEF CountsOK, ReaderOK
  <2>1. StateOK' BY DEF StateOK
  <2>2. Phases' BY DEF Phases
  <2>a. \A x \in Streams :
          /\ taken'[x] = (IF x = st THEN taken[x] + 1 ELSE taken[x])
          /\ reader'[x] = (IF x # st THEN reader[x] ELSE IF kind = "exec" THEN "read" ELSE "emit")
    BY DEF CountsOK, ReaderOK
  <2>3. Drained' BY <2>a DEF Drained, CountsOK, Phases, Open, ReadersDone, Streams
  <2>4. SentOK' /\ ExitIsLast' BY DEF SentOK, SawExit, ExitIsLast
  <2>b. kind # "exec" => \A x \in Streams : Emitted(x)' = Emitted(x)
    BY <2>a DEF Emitted, CountsOK, ReaderOK
  <2>5. InOrder' /\ UpToDate' BY <2>b DEF InOrder, UpToDate, NoneMissing
  <2>6. ExitInv' BY DEF ExitInv, HasExit, ReadersDone
  <2>7. KillInv' BY DEF KillInv
  <2> QED BY <2>0, <2>1, <2>2, <2>3, <2>4, <2>5, <2>6, <2>7
<1>9. ASSUME NEW st \in Streams, Emit(st) PROVE AgentInv'
  <2> DEFINE ev == [type |-> st, data |-> taken[st]]
  <2> USE <1>9 DEF Emit
  <2>0. CountsOK' /\ ReaderOK' BY DEF CountsOK, ReaderOK
  <2>1. StateOK' BY DEF StateOK
  <2>2. Phases' BY DEF Phases
  <2>3. Drained' BY DEF Drained, StateOK, Phases, Open, ReadersDone, Streams
  <2>4. ev \in Event BY DEF Event, CountsOK
  <2>5. kind # "exec" /\ taken[st] \in Nat /\ taken[st] > 0 BY DEF Drained, CountsOK
  <2>6. ~HasExit BY DEF ExitInv, ReadersDone
  <2>7. \A x \in Streams : Emitted(x)' = IF x = st THEN taken[x] ELSE Emitted(x)
    BY DEF Emitted, CountsOK, ReaderOK
  <2>8. \A x \in Streams : Emitted(x) \in Int /\ Emitted(st) = taken[st] - 1
    BY DEF Emitted, CountsOK, ReaderOK
  <2>9. CASE link # "up"
    <3>1. sent' = sent BY <2>4, <2>9, SendsAppends DEF SentOK
    <3>2. InOrder' BY <2>7, <2>8, <3>1 DEF InOrder, CountsOK
    <3>3. (SentOK /\ ExitIsLast /\ UpToDate)' BY <2>9, <3>1 DEF SentOK, SawExit, ExitIsLast, UpToDate
    <3>4. ExitInv' BY <2>6, <3>1 DEF ExitInv, HasExit
    <3>5. KillInv' BY <3>1 DEF KillInv
    <3> QED BY <2>0, <2>1, <2>2, <2>3, <3>2, <3>3, <3>4, <3>5
  <2>10. CASE link = "up"
    <3>1. /\ sent' \in Seq(Event) /\ Len(sent') = Len(sent) + 1 /\ Len(sent) \in Nat
          /\ \A i \in 1 .. Len(sent) : sent'[i] = sent[i]
          /\ sent'[Len(sent) + 1] = ev
      BY <2>4, <2>10, SendsAppends DEF SentOK
    <3>2. SentOK' BY <3>1 DEF SentOK, SawExit
    <3>3. InOrder'
      <4> SUFFICES ASSUME NEW i \in 1 .. Len(sent'), NEW x \in Streams, sent'[i].type = x
                   PROVE  /\ kind' # "exec"
                          /\ sent'[i].data \in 1 .. Emitted(x)'
                          /\ \A j \in 1 .. i - 1 : sent'[j].type = x => sent'[j].data < sent'[i].data
        BY DEF InOrder
      <4>1. CASE i \in 1 .. Len(sent)
        <5>1. /\ sent'[i] = sent[i] /\ \A j \in 1 .. i - 1 : sent'[j] = sent[j]
              /\ sent[i].data \in 1 .. Emitted(x)
          BY <3>1, <4>1 DEF InOrder
        <5>2. Emitted(x)' \in Int /\ Emitted(x) <= Emitted(x)' BY <2>5, <2>7, <2>8
        <5>3. sent'[i].data \in 1 .. Emitted(x)' BY <2>8, <5>1, <5>2
        <5>4. \A j \in 1 .. i - 1 : sent'[j].type = x => sent'[j].data < sent'[i].data
          BY <4>1, <5>1 DEF InOrder
        <5> QED BY <2>5, <5>3, <5>4
      <4>2. CASE i = Len(sent) + 1
        <5>1. x = st /\ sent'[i].data = taken[st] BY <3>1, <4>2
        <5>2. \A j \in 1 .. Len(sent) : sent[j].type = st => sent[j].data \in 1 .. taken[st] - 1
          BY <2>8 DEF InOrder
        <5> QED BY <2>5, <2>7, <3>1, <4>2, <5>1, <5>2
      <4> QED BY <3>1, <4>1, <4>2
    <3>4. UpToDate'
      <4> SUFFICES ASSUME NEW x \in Streams, NEW n \in 1 .. Emitted(x)'
                   PROVE  \E i \in 1 .. Len(sent') : IsChunk(sent'[i], x, n)
        BY DEF UpToDate, NoneMissing
      <4>1. CASE n \in 1 .. Emitted(x)
        BY <2>5, <2>10, <3>1, <4>1 DEF UpToDate, NoneMissing
      <4>2. CASE x = st /\ n = taken[st] BY <3>1, <4>2 DEF IsChunk
      <4> QED BY <2>5, <2>7, <2>8, <4>1, <4>2
    <3>5. \A i \in 1 .. Len(sent') : sent'[i].type # "exit" BY <2>6, <3>1 DEF HasExit, Streams
    <3>6. (ExitInv /\ ExitIsLast /\ KillInv)' BY <3>1, <3>5 DEF ExitInv, HasExit, ExitIsLast, KillInv
    <3> QED BY <2>0, <2>1, <2>2, <2>3, <3>2, <3>3, <3>4, <3>6
  <2> QED BY <2>9, <2>10
<1>10. ASSUME NEW st \in Streams, ReadEnds(st) PROVE AgentInv'
  <2> USE <1>10 DEF ReadEnds
  <2>0. CountsOK' /\ ReaderOK' BY DEF CountsOK, ReaderOK
  <2>1. StateOK' BY DEF StateOK
  <2>2. Phases' BY DEF Phases
  <2>3. Drained' BY DEF Drained, StateOK, Phases, Open, ReadersDone, Streams
  <2>4. SentOK' /\ ExitIsLast' BY DEF SentOK, SawExit, ExitIsLast
  <2>5. \A x \in Streams : Emitted(x)' = Emitted(x) BY DEF Emitted, CountsOK, ReaderOK
  <2>6. InOrder' /\ UpToDate' BY <2>5 DEF InOrder, UpToDate, NoneMissing
  <2>7. ExitInv' BY DEF ExitInv, HasExit, ReadersDone
  <2>8. KillInv' BY DEF KillInv
  <2> QED BY <2>0, <2>1, <2>2, <2>3, <2>4, <2>6, <2>7, <2>8
<1>11. CASE ExecWait
  <2> USE <1>11 DEF ExecWait
  <2>0. CountsOK' /\ ReaderOK' BY DEF CountsOK, ReaderOK
  <2>1. StateOK' BY DEF StateOK
  <2>2. Phases' BY DEF Phases
  <2>3. Drained' BY DEF Drained, StateOK, Phases, Open, Alive, ReadersDone, Streams
  <2>4. (SentOK /\ InOrder /\ UpToDate /\ ExitIsLast)' /\ (NoneMissing' <=> NoneMissing) BY SameOutput
  <2>5. ExitInv' BY <2>4 DEF ExitInv, HasExit, ReadersDone, Open, Alive, StateOK, Phases, Streams
  <2>6. KillInv' BY DEF KillInv, StateOK, ExitInv, HasExit, Open
  <2> QED BY <2>0, <2>1, <2>2, <2>3, <2>4, <2>5, <2>6
<1>12. CASE ExecAnswer
  <2> USE <1>12 DEF ExecAnswer
  <2> DEFINE ev == [type |-> "exit", timedOut |-> TimedOut, data |->
               [st \in Streams |-> [kept |-> Kept(taken[st]), dropped |-> taken[st] - Kept(taken[st])]]]
  <2>a. \A st \in Streams : /\ Kept(taken[st]) \in Nat /\ Kept(taken[st]) <= MaxKept
                            /\ taken[st] - Kept(taken[st]) \in Int
    BY DEF Kept, CountsOK
  <2>b. ev.timedOut = TimedOut /\ \A st \in Streams :
            ev.data[st].kept + ev.data[st].dropped = taken[st] /\ ev.data[st].kept <= MaxKept
    BY <2>a DEF CountsOK
  <2>c. Sends(ev) OBVIOUS
  <2>0. CountsOK' /\ ReaderOK' BY DEF CountsOK, ReaderOK
  <2>1. StateOK' BY DEF StateOK
  <2>2. Phases' BY DEF Phases
  <2>3. Drained' BY DEF Drained, StateOK, Phases, Open, ReadersDone, Streams
  <2>4. ReadersDone BY DEF Drained
  <2>5. link = "up" => ~Open /\ \A st \in Streams : taken[st] = produced[st]
    BY <2>4 DEF Drained, ReadersDone, StateOK, Phases, Streams
  <2>6. kind # "shell" /\ main = "killed" /\ link = "up" => TimedOut BY DEF KillInv, StateOK, TimedOut
  <2>7. ev \in Event /\ ev.type = "exit" BY <2>a DEF Event, TimedOut
  <2> HIDE DEF ev
  <2>9. (SentOK /\ InOrder /\ UpToDate /\ ExitInv /\ ExitIsLast /\ KillInv)'
    BY <2>4, <2>5, <2>6, <2>7, <2>b, <2>c, SendExitKeepsInv
  <2> QED BY <2>0, <2>1, <2>2, <2>3, <2>9
<1>13. CASE StreamWait
  <2> USE <1>13 DEF StreamWait
  <2>0. CountsOK' /\ ReaderOK' BY DEF CountsOK, ReaderOK
  <2>1. StateOK' BY DEF StateOK
  <2>2. Phases' BY DEF Phases
  <2>3. Drained' BY DEF Drained, StateOK, Phases, Open, Alive, ReadersDone, Streams
  <2>4. (SentOK /\ InOrder /\ UpToDate /\ ExitIsLast)' /\ (NoneMissing' <=> NoneMissing) BY SameOutput
  <2>5. ExitInv' BY <2>4 DEF ExitInv, HasExit, ReadersDone, Open, Alive, StateOK, Phases, Streams
  <2>6. KillInv' BY DEF KillInv, StateOK, ExitInv, HasExit, Open
  <2> QED BY <2>0, <2>1, <2>2, <2>3, <2>4, <2>5, <2>6
<1>14. CASE StreamExit
  <2> USE <1>14 DEF StreamExit
  <2> DEFINE ev == [type |-> "exit", timedOut |-> TimedOut]
  <2>b. ev.timedOut = TimedOut /\ Sends(ev) OBVIOUS
  <2>0. CountsOK' /\ ReaderOK' BY DEF CountsOK, ReaderOK
  <2>1. StateOK' BY DEF StateOK
  <2>2. Phases' BY DEF Phases
  <2>3. Drained' BY DEF Drained, StateOK, Phases, Open, ReadersDone, Streams
  <2>4. ReadersDone BY DEF Drained
  <2>5. link = "up" => ~Open /\ \A st \in Streams : taken[st] = produced[st]
    BY <2>4 DEF Drained, ReadersDone, StateOK, Phases, Streams
  <2>6. kind # "shell" /\ main = "killed" /\ link = "up" => TimedOut BY DEF KillInv, StateOK, TimedOut
  <2>7. ev \in Event /\ ev.type = "exit" BY DEF Event, TimedOut
  <2> HIDE DEF ev
  <2>9. (SentOK /\ InOrder /\ UpToDate /\ ExitInv /\ ExitIsLast /\ KillInv)'
    BY <2>4, <2>5, <2>6, <2>7, <2>b, SendExitKeepsInv
  <2> QED BY <2>0, <2>1, <2>2, <2>3, <2>9
<1>15. CASE ShellSelect
  <2> USE <1>15 DEF ShellSelect
  <2>0. CountsOK' /\ ReaderOK' BY DEF CountsOK, ReaderOK
  <2>1. StateOK' BY DEF StateOK
  <2>2. Phases' BY DEF Phases
  <2>3. Drained' BY DEF Drained, StateOK, Phases, Open, Alive, ReadersDone, Streams
  <2>4. (SentOK /\ InOrder /\ UpToDate /\ ExitIsLast)' /\ (NoneMissing' <=> NoneMissing) BY SameOutput
  <2>5. ExitInv' BY <2>4 DEF ExitInv, HasExit, ReadersDone, Open, Alive, StateOK, Phases, Streams
  <2>6. KillInv' BY DEF KillInv, StateOK, ExitInv, HasExit, Open
  <2> QED BY <2>0, <2>1, <2>2, <2>3, <2>4, <2>5, <2>6
<1>16. CASE ShellClose
  <2> USE <1>16 DEF ShellClose
  <2> DEFINE ev == [type |-> "exit"]
  <2>b. Sends(ev) OBVIOUS
  <2>0. CountsOK' /\ ReaderOK' BY DEF CountsOK, ReaderOK
  <2>1. StateOK' BY DEF StateOK
  <2>2. Phases' BY DEF Phases
  <2>3. Drained' BY DEF Drained, StateOK, Phases, Open, ReadersDone, Streams
  <2>4. ReadersDone BY DEF Drained
  <2>5. link = "up" => ~Open /\ \A st \in Streams : taken[st] = produced[st]
    BY <2>4 DEF Drained, ReadersDone, StateOK, Phases, Streams
  <2>6. kind # "shell" /\ main = "killed" /\ link = "up" => TimedOut BY DEF KillInv, StateOK, TimedOut
  <2>7. ev \in Event /\ ev.type = "exit" BY DEF Event, TimedOut
  <2> HIDE DEF ev
  <2>9. (SentOK /\ InOrder /\ UpToDate /\ ExitInv /\ ExitIsLast /\ KillInv)'
    BY <2>4, <2>5, <2>6, <2>7, <2>b, SendExitKeepsInv
  <2> QED BY <2>0, <2>1, <2>2, <2>3, <2>9
<1>17. CASE TearDown
  <2> USE <1>17 DEF TearDown, KillGroup
  <2>0. CountsOK' /\ ReaderOK' BY DEF CountsOK, ReaderOK
  <2>1. StateOK' BY DEF StateOK
  <2>2. Phases' BY DEF Phases
  <2>3. Drained' BY DEF Drained, StateOK, Phases, Open, Alive, ReadersDone, Streams
  <2>4. (SentOK /\ InOrder /\ UpToDate /\ ExitIsLast)' /\ (NoneMissing' <=> NoneMissing) BY SameOutput
  <2>5. ExitInv' BY <2>4 DEF ExitInv, HasExit, ReadersDone, Open, Alive, StateOK, Phases, Streams
  <2>6. KillInv' BY DEF KillInv, StateOK, ExitInv, HasExit, Open
  <2> QED BY <2>0, <2>1, <2>2, <2>3, <2>4, <2>5, <2>6
<1>18. CASE InputEnds
  <2> USE <1>18 DEF InputEnds
  <2>0. CountsOK' /\ ReaderOK' BY DEF CountsOK, ReaderOK
  <2>1. StateOK' BY DEF StateOK
  <2>2. Phases' BY DEF Phases
  <2>3. Drained' BY DEF Drained, StateOK, Phases, Open, Alive, ReadersDone, Streams
  <2>4. (SentOK /\ InOrder /\ UpToDate /\ ExitIsLast)' /\ (NoneMissing' <=> NoneMissing) BY SameOutput
  <2>5. ExitInv' BY <2>4 DEF ExitInv, HasExit, ReadersDone, Open, Alive, StateOK, Phases, Streams
  <2>6. KillInv' BY DEF KillInv, StateOK, ExitInv, HasExit, Open
  <2> QED BY <2>0, <2>1, <2>2, <2>3, <2>4, <2>5, <2>6
<1>19. ASSUME NEW who \in {"client", "network"}, Cut(who) PROVE AgentInv'
  <2> USE <1>19 DEF Cut
  <2>0. CountsOK' /\ ReaderOK' BY DEF CountsOK, ReaderOK
  <2>1. StateOK' BY DEF StateOK
  <2>2. Phases' BY DEF Phases
  <2>3. Drained' BY DEF Drained, Open, ReadersDone
  <2>4. PICK n \in seen .. Len(sent) : sent' = SubSeq(sent, 1, n) OBVIOUS
  <2>5. /\ sent' \in Seq(Event) /\ Len(sent') = n /\ n \in Nat /\ n <= Len(sent) /\ Len(sent) \in Nat
        /\ \A i \in 1 .. n : sent'[i] = sent[i]
    <3> HIDE DEF Event
    <3> QED BY <2>4 DEF SentOK
  <2>6. SentOK' BY <2>4, <2>5 DEF SentOK, SawExit
  <2>7. \A x \in Streams : Emitted(x)' = Emitted(x) BY DEF Emitted
  <2>8. InOrder' /\ UpToDate' BY <2>5, <2>7 DEF InOrder, UpToDate
  <2>9. ExitIsLast' BY <2>5 DEF ExitIsLast
  <2>10. KillInv' BY <2>5 DEF KillInv
  \* The exit is last: what is cut short has lost it.
  <2>11. HasExit' => HasExit /\ n = Len(sent) BY <2>5 DEF HasExit, ExitIsLast
  <2>12. ExitInv'
    <3> SUFFICES ASSUME HasExit' PROVE ExitInv' BY DEF ExitInv
    <3>1. HasExit /\ n = Len(sent) BY <2>11
    <3>2. kind # "exec" => NoneMissing' BY <2>5, <2>7, <3>1 DEF ExitInv, NoneMissing
    <3> QED BY <2>5, <3>1, <3>2 DEF ExitInv, ReadersDone, Open
  <2> QED BY <2>0, <2>1, <2>2, <2>3, <2>6, <2>8, <2>9, <2>10, <2>12
<1>20. CASE Receive
  <2> USE <1>20 DEF Receive
  <2>0. CountsOK' /\ ReaderOK' BY DEF CountsOK, ReaderOK
  <2>1. StateOK' /\ Phases' BY DEF StateOK, Phases
  <2>2. SentOK' BY DEF SentOK, SawExit
  <2>3. Drained' BY DEF Drained, Open, ReadersDone
  <2>4. \A x \in Streams : Emitted(x)' = Emitted(x) BY DEF Emitted
  <2>5. InOrder' /\ UpToDate' /\ (NoneMissing' <=> NoneMissing) BY <2>4 DEF InOrder, UpToDate, NoneMissing
  <2>6. ExitInv' BY <2>5 DEF ExitInv, HasExit, ReadersDone, Open
  <2>7. ExitIsLast' /\ KillInv' BY DEF ExitIsLast, KillInv
  <2> QED BY <2>0, <2>1, <2>2, <2>3, <2>5, <2>6, <2>7
<1>21. CASE EndOfBody
  <2> USE <1>21 DEF EndOfBody
  <2>0. CountsOK' /\ ReaderOK' BY DEF CountsOK, ReaderOK
  <2>1. StateOK' /\ Phases' BY DEF StateOK, Phases
  <2>2. SentOK' BY DEF SentOK, SawExit
  <2>3. Drained' BY DEF Drained, Open, ReadersDone
  <2>4. \A x \in Streams : Emitted(x)' = Emitted(x) BY DEF Emitted
  <2>5. InOrder' /\ UpToDate' /\ (NoneMissing' <=> NoneMissing) BY <2>4 DEF InOrder, UpToDate, NoneMissing
  <2>6. ExitInv' BY <2>5 DEF ExitInv, HasExit, ReadersDone, Open
  <2>7. ExitIsLast' /\ KillInv' BY DEF ExitIsLast, KillInv
  <2> QED BY <2>0, <2>1, <2>2, <2>3, <2>5, <2>6, <2>7
<1>22. CASE EndOfShell
  <2> USE <1>22 DEF EndOfShell
  <2>0. CountsOK' /\ ReaderOK' BY DEF CountsOK, ReaderOK
  <2>1. StateOK' /\ Phases' BY DEF StateOK, Phases
  <2>2. SentOK' BY DEF SentOK, SawExit
  <2>3. Drained' BY DEF Drained, Open, ReadersDone
  <2>4. \A x \in Streams : Emitted(x)' = Emitted(x) BY DEF Emitted
  <2>5. InOrder' /\ UpToDate' /\ (NoneMissing' <=> NoneMissing) BY <2>4 DEF InOrder, UpToDate, NoneMissing
  <2>6. ExitInv' BY <2>5 DEF ExitInv, HasExit, ReadersDone, Open
  <2>7. ExitIsLast' /\ KillInv' BY DEF ExitIsLast, KillInv
  <2> QED BY <2>0, <2>1, <2>2, <2>3, <2>5, <2>6, <2>7
<1>23. CASE UNCHANGED vars
  <2> USE <1>23 DEF vars
  <2>0. CountsOK' /\ ReaderOK' BY DEF CountsOK, ReaderOK
  <2>1. StateOK' /\ Phases' BY DEF StateOK, Phases
  <2>2. SentOK' BY DEF SentOK, SawExit
  <2>3. Drained' BY DEF Drained, Open, ReadersDone
  <2>4. \A x \in Streams : Emitted(x)' = Emitted(x) BY DEF Emitted
  <2>5. InOrder' /\ UpToDate' /\ (NoneMissing' <=> NoneMissing) BY <2>4 DEF InOrder, UpToDate, NoneMissing
  <2>6. ExitInv' BY <2>5 DEF ExitInv, HasExit, ReadersDone, Open
  <2>7. ExitIsLast' /\ KillInv' BY DEF ExitIsLast, KillInv
  <2> QED BY <2>0, <2>1, <2>2, <2>3, <2>5, <2>6, <2>7
<1> QED BY <1>1, <1>2, <1>3, <1>4, <1>5, <1>6, <1>7, <1>8, <1>9, <1>10, <1>11, <1>12, <1>13, <1>14, <1>15, <1>16, <1>17, <1>18, <1>19, <1>20, <1>21, <1>22, <1>23
    DEF Next, Command, Reader, Handler, Client

\* Every step of the agent keeps the invariant.
LEMMA AgentInvariant == Spec => []AgentInv
BY InitAgentInv, NextAgentInv, PTL DEF Spec

\* Every goroutine stays in one of its states, for any number of chunks, and no
\* answer of handleExec carries more than cappedBuffer may keep.
THEOREM AgentTyped == Spec => []AgentTypeOK
<1>1. AgentInv => AgentTypeOK
  <2> SUFFICES ASSUME AgentInv PROVE AgentTypeOK OBVIOUS
  <2>1. ASSUME NEW i \in 1 .. Len(sent), sent[i].type = "exit", kind = "exec", NEW st \in Streams
        PROVE  sent[i].data[st].kept <= MaxKept
    BY <2>1 DEF AgentInv, ExitInv, HasExit
  <2> QED BY <2>1 DEF AgentInv, AgentTypeOK, CountsOK, ReaderOK, StateOK, SentOK
<1> QED BY <1>1, AgentInvariant, PTL

\* The exit event of a stream, and the close frame of a shell, is the last thing
\* on the connection, however the two readers, cmd.Wait and the handler
\* interleave.
THEOREM AgentExitLast == Spec => []ExitIsLast
<1>1. AgentInv => ExitIsLast BY DEF AgentInv
<1> QED BY <1>1, AgentInvariant, PTL

\* A call the client takes for a success has all of the output, in order and
\* once: for exec, what is kept and what is counted as dropped add up.
THEOREM AgentOutputComplete == Spec => []OutputComplete
<1>1. AgentInv => OutputComplete
  <2> SUFFICES ASSUME AgentInv, client = "ok" PROVE OutputComplete BY DEF OutputComplete
  <2> USE DEF AgentInv
  <2>1. Len(sent) \in Nat /\ seen \in 0 .. Len(sent) /\ SawExit BY DEF SentOK
  <2>2. PICK e \in 1 .. seen : sent[e].type = "exit" BY <2>1 DEF SawExit
  <2>3. HasExit BY <2>1, <2>2 DEF HasExit
  <2>4. seen = Len(sent) BY <2>1, <2>2 DEF ExitIsLast
  <2>5. \A st \in Streams : Emitted(st) = produced[st]
    BY <2>3 DEF ExitInv, ReadersDone, Emitted
  <2>6. CASE kind = "exec"
    <3>1. 1 \in 1 .. Len(sent) BY <2>1, <2>2
    <3>2. \A st \in Streams : sent[1].data[st].kept + sent[1].data[st].dropped = produced[st]
      BY <2>3, <2>6, <3>1 DEF ExitInv
    <3> QED BY <2>6, <3>2 DEF OutputComplete
  <2>7. CASE kind # "exec"
    <3>1. \A st \in Streams : \A n \in 1 .. produced[st] : \E i \in 1 .. seen : IsChunk(sent[i], st, n)
      BY <2>3, <2>4, <2>5, <2>7 DEF ExitInv, NoneMissing
    <3>2. \A st \in Streams : \A i \in 1 .. seen : sent[i].type = st =>
             /\ sent[i].data \in 1 .. produced[st]
             /\ \A j \in 1 .. i - 1 : sent[j].type = st => sent[j].data < sent[i].data
      BY <2>4, <2>5 DEF InOrder
    <3> QED BY <2>7, <3>1, <3>2 DEF OutputComplete
  <2> QED BY <2>6, <2>7
<1> QED BY <1>1, AgentInvariant, PTL

\* A command that the time limit killed is reported as timed out to every
\* caller that is told it ended.
THEOREM AgentKillReported == Spec => []KillReported
<1>1. AgentInv => KillReported
  BY DEF AgentInv, KillReported, KillInv, SentOK, SawExit
<1> QED BY <1>1, AgentInvariant, PTL
=============================================================================
