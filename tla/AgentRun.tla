------------------------------ MODULE AgentRun ------------------------------
(***************************************************************************)
(* One run of an agent graph: the durable workflow theygent_run, or the    *)
(* interactive walk inside a request, with the run's row, the answers to   *)
(* its human gates and the child runs it composes.                         *)
(*                                                                         *)
(* A durable execution takes the graph's operations one by one.  What an   *)
(* operation returned is recorded in the journal; an execution that starts *)
(* again replays the records and performs the rest.  An operation that was *)
(* begun and not recorded is performed again.  The workflow engine is      *)
(* external: a second record at one position is refused and ends the       *)
(* execution that brings it, a received answer leaves the mailbox as it is *)
(* recorded, a child whose identifier exists is not started again.         *)
(*                                                                         *)
(* An execution's record e: the position at in the order (0 before the     *)
(* first node), k operations done at it, the last result out, pos journal  *)
(* entries consumed, its phase, the walk w, for a map node the children    *)
(* begun and joined, and if a client is sent the stream of its frames.     *)
(*                                                                         *)
(* Left out: contents, prompts and templates, tracing, the numbering of a  *)
(* map's concurrent operations in the journal, more than one call in a     *)
(* model's turn, a child run that ends without a result, a workflow gone   *)
(* from the engine's database (its run is failed when it is resumed), an   *)
(* interactive stream that takes a commit for a failure.                   *)
(***************************************************************************)
EXTENDS FlowGraph

CONSTANTS Graphs,      \* the graphs that may be run
          Workers,     \* processes that may execute the run
          Callers,     \* who may answer a gate, once each
          Mishaps,     \* what may go wrong: "crash", "overlap", "fault", "cancel", "sweep"
          MaxStarts    \* bound on the executions started

ASSUME GraphsAssumption == \A g \in Graphs : Valid(g)
ASSUME OrderAssumption == \A g \in Graphs : IsOrder(g, TopologicalOrder(g))
\* No handle is called like the mark of a node that was skipped.
ASSUME HandlesAssumption == \A g \in Graphs : \A n \in Nodes(g) : "skipped" \notin g.outs[n]
ASSUME MishapsAssumption == Mishaps \subseteq {"crash", "overlap", "fault", "cancel", "sweep"}
ASSUME BoundAssumption == MaxStarts \in Nat \ {0}

VARIABLES graph,     \* the graph, the order its nodes are taken in,
          order,     \* the input of the run
          input,
          runtime,   \* "durable" or "inproc"
          row,       \* status, and the node a waiting run is paused at
          journal,   \* results of the operations, in order
          mail,      \* answers sent and not received, by topic
          child,     \* results of the child runs, by identifier
          caller,    \* what each caller saw, sent, and where it was used
          exec,      \* the execution at each worker
          outcome,   \* how the workflow (or the request) ended
          starts,    \* executions started
          lapped,    \* two processes have acted on the run at once
          seen       \* how each node settled first

ctl == <<graph, order, input, runtime>>
vars == <<graph, order, input, runtime, row, journal, mail, child, caller, exec, outcome,
          starts, lapped, seen>>

Terminal == {"completed", "failed"}
Active == {"created", "streaming"}
Skipped == {"skipped"}
NoExec == [phase |-> "none"]
NoOut == [tag |-> "none", v |-> NoValue]
Out(tag, v) == [tag |-> tag, v |-> v]

\* MUTANT: one topic for all the gates of a run.
TopicShared(n) == CHOOSE m \in DOMAIN graph.type : graph.type[m] = "human"

\* The delivery topic of a gate, and the identifier of a composed child run.
Topic(n) == n
ChildId(n, i) == <<n, i>>

Composed == {n \in Nodes(graph) : graph.type[n] \in {"subgraph", "loop", "map"}}
ChildIds == UNION {{ChildId(n, i) : i \in 0..(graph.bound[n] - 1)} : n \in Composed}
Gates == {n \in Nodes(graph) : graph.type[n] = "human"}
Live(w) == exec[w].phase # "none"
Durable == runtime = "durable"

-----------------------------------------------------------------------------
(* Which operation an execution performs next. *)

Op(kind, n, i) == [kind |-> kind, node |-> n, i |-> i]
NoOp == Op("none", 0, 0)
RowOps == {"create", "wait", "go", "finish", "fail"}

HasTools(n) == ToolsOf(graph, n) # {}

\* A model node: the tool schemas, then turns; a turn that calls a tool is
\* followed by the call and another turn, until the iteration cap.
LlmOp(n, e) ==
  LET first == IF HasTools(n) THEN 1 ELSE 0
      turn == (e.k - first) \div 2
  IN IF e.k < first THEN Op("schemas", n, 0)
     ELSE IF (e.k = first /\ e.out.tag # "raise") \/ e.out.tag = "called"
          THEN Op("turn", n, turn)
     ELSE IF e.out.tag = "call" /\ turn < graph.bound[n] THEN Op("call", n, turn)
     ELSE NoOp

\* A crawler: start, polls while the remote run goes on, then the items.
CrawlerOp(n, e) ==
  IF e.k = 0 THEN Op("start", n, 0)
  ELSE IF e.out.tag = "started" \/ (e.out.tag = "running" /\ e.k <= graph.bound[n])
       THEN Op("poll", n, e.k)
  ELSE IF e.out.tag = "ready" THEN Op("items", n, 0)
  ELSE NoOp

\* MUTANT: the gate listens before it is shown.
HumanOpUnseen(n, e) == IF e.k > 2 THEN NoOp ELSE Op(<<"recv", "wait", "go">>[e.k + 1], n, 0)

\* MUTANT: a run that is shown waiting at the gate is not marked again.
HumanOpOnce(n, e) ==
  IF e.k > 2 THEN NoOp
  ELSE IF e.k = 0 /\ row = [status |-> "waiting", at |-> n] THEN Op("recv", n, 0)
  ELSE Op(<<"wait", "recv", "go">>[e.k + 1], n, 0)

\* A gate: mark the run waiting, receive the answer, mark it running again.
HumanOp(n, e) == IF e.k > 2 THEN NoOp ELSE Op(<<"wait", "recv", "go">>[e.k + 1], n, 0)

\* A loop: one child after another until the condition holds.
LoopOp(n, e) ==
  IF \/ e.k = 0
     \/ e.k < graph.bound[n] /\ e.out.tag = "ok" /\ Resolves(e.out.v) /\ ~ Holds(e.out.v)
  THEN Op("child", n, e.k) ELSE NoOp

TooDeep(n) == n \in Composed /\ graph.policy[n] = "deep"

NodeOp(n, e) ==
  LET t == graph.type[n]
  IN IF TooDeep(n) THEN NoOp
     ELSE IF t \in {"act", "gate"} /\ e.k = 0 THEN Op(t, n, 0)
     ELSE IF t = "llm" THEN LlmOp(n, e)
     ELSE IF t = "crawler" THEN CrawlerOp(n, e)
     ELSE IF t = "human" THEN HumanOp(n, e)
     ELSE IF t = "subgraph" /\ e.k = 0 THEN Op("child", n, 0)
     ELSE IF t = "loop" THEN LoopOp(n, e)
     ELSE NoOp

\* The run: its pin is resolved and its row made, the nodes are walked, and the
\* outcome is written.  An interactive run only makes its row.
Prologue == IF Durable THEN <<"resolve", "create">> ELSE <<"create">>

NextOp(e) ==
  IF e.at = 0 /\ e.k < Len(Prologue) THEN Op(Prologue[e.k + 1], 0, 0)
  ELSE IF e.at > Len(order) + 1 THEN NoOp
  ELSE IF e.w.raised THEN Op("fail", 0, 0)
  ELSE IF e.at > Len(order) THEN Op("finish", 0, 0)
  ELSE IF order[e.at] \in Capabilities(graph) \/ IsSkipped(graph, order[e.at], e.w) THEN NoOp
  ELSE NodeOp(order[e.at], e)

\* What an operation may return.
Results(op) ==
  CASE op.kind = "resolve" -> {Out("found", NoValue), Out("gone", NoValue)}
    [] op.kind = "turn" -> {Out("final", v) : v \in graph.values} \cup {Out("raise", NoValue)}
                           \cup (IF HasTools(op.node) THEN {Out("call", NoValue)} ELSE {})
    [] op.kind = "schemas" -> {Out("done", NoValue), Out("raise", NoValue)}
    [] op.kind = "call" -> {Out("called", NoValue), Out("raise", NoValue)}
    [] op.kind = "act" -> {Out("ok", v) : v \in graph.values} \cup {Out("err", NoValue)}
    [] op.kind = "gate" -> {Out(t, NoValue) : t \in {"pass", "block", "raise"}}
    [] op.kind = "start" -> {Out(t, NoValue) : t \in {"started", "err", "raise"}}
    [] op.kind = "poll" -> {Out(t, NoValue) : t \in {"running", "ready", "err", "raise"}}
    [] op.kind = "items" -> {Out("ok", v) : v \in graph.values}
                            \cup {Out("err", NoValue), Out("raise", NoValue)}
    [] op.kind = "child" -> {child[ChildId(op.node, op.i)]}
    [] OTHER -> {Out("done", NoValue)}

-----------------------------------------------------------------------------
(* What follows a result. *)

\* The node has no operation left: its result is bound, or the walk raises.
SettleNode(n, e) ==
  LET t == graph.type[n]
      o == e.out
      failed == \E i \in e.joined : child[ChildId(n, i)].tag = "failed"
  IN IF \/ TooDeep(n) \/ o.tag = "raise"
        \/ t = "human" /\ o.tag = "timeout" /\ graph.policy[n] = "fail"
        \/ t = "loop" /\ (o.tag = "failed" \/ ~ Resolves(o.v))
        \/ t = "map" /\ failed /\ graph.policy[n] = "fail_fast"
     THEN Raise(e.w)
     ELSE IF t \in {"act", "crawler", "subgraph"} THEN BindOutcome(graph, n, e.w, o.tag = "ok", o.v)
     ELSE IF t = "gate" THEN BindGate(graph, n, e.w, o.tag = "pass")
     ELSE Bind(n, e.w, Success(graph, n), o.v)

\* On to the next node, with what the walk is now.
Onward(e, w) ==
  [e EXCEPT !.w = w, !.at = @ + 1, !.k = 0, !.out = NoOut, !.begun = 0, !.joined = {}]

\* The execution got the result o of its operation op.
Consume(e, op, o) ==
  LET kept == IF op.kind \in {"wait", "go"} THEN e.out ELSE o
      d == [e EXCEPT !.k = @ + 1, !.out = kept, !.pos = @ + 1, !.phase = "idle"]
  IN IF op.kind \in {"finish", "fail"} THEN [d EXCEPT !.at = Len(order) + 2]
     ELSE IF op.kind \in {"wait", "go"} /\ o.tag = "raise" THEN Onward(d, Raise(e.w))
     ELSE IF op.kind = "resolve" THEN [d EXCEPT !.w.raised = (o.tag = "gone")]
     ELSE IF e.at = 0 THEN IF d.k = Len(Prologue) /\ ~ d.w.raised THEN Onward(d, d.w) ELSE d
     ELSE IF NodeOp(op.node, d) = NoOp THEN Onward(d, SettleNode(op.node, d))
     ELSE d

\* How the nodes an execution has walked settled.
FateIn(w, n) == IF n \in w.skipped THEN Skipped ELSE w.live[n]
Walked(w) == w.skipped \cup DOMAIN w.live

\* Install execution d at worker w; nodes nobody had settled before are noted.
Install(w, d) ==
  /\ exec' = [exec EXCEPT ![w] = d]
  /\ seen' = [n \in DOMAIN seen \cup Walked(d.w) |->
                IF n \in DOMAIN seen THEN seen[n] ELSE FateIn(d.w, n)]

Leave(w) == exec' = [exec EXCEPT ![w] = NoExec] /\ UNCHANGED seen

-----------------------------------------------------------------------------
(* The run's row and the workflow's end. *)

\* MUTANT: the run's failure is written only over an active status.
RowAfterGuarded(op) ==
  CASE op.kind = "create" -> IF row.status = "none" THEN [status |-> "created", at |-> 0] ELSE row
    [] op.kind = "wait" -> [status |-> "waiting", at |-> op.node]
    [] op.kind = "go" -> [status |-> "streaming", at |-> 0]
    [] op.kind = "finish" -> [status |-> "completed", at |-> 0]
    [] OTHER -> IF row.status \in Active THEN [status |-> "failed", at |-> 0] ELSE row

\* MUTANT: leaving a wait keeps the node it was at.
RowAfterStale(op) ==
  CASE op.kind = "create" -> IF row.status = "none" THEN [status |-> "created", at |-> 0] ELSE row
    [] op.kind = "wait" -> [status |-> "waiting", at |-> op.node]
    [] op.kind = "go" -> [row EXCEPT !.status = "streaming"]
    [] op.kind = "finish" -> [status |-> "completed", at |-> 0]
    [] OTHER -> [status |-> "failed", at |-> 0]

RowAfter(op) ==
  CASE op.kind = "create" -> IF row.status = "none" THEN [status |-> "created", at |-> 0] ELSE row
    [] op.kind = "wait" -> [status |-> "waiting", at |-> op.node]
    [] op.kind = "go" -> [status |-> "streaming", at |-> 0]
    [] op.kind = "finish" -> [status |-> "completed", at |-> 0]
    [] OTHER -> [status |-> "failed", at |-> 0]

\* MUTANT: without the status guard.
FailUnguarded == row' = [row EXCEPT !.status = "failed"]

\* The row is failed if it is still created or streaming.
FailIfActive ==
  row' = IF row.status \in Active THEN [row EXCEPT !.status = "failed"] ELSE row

Ends(o) == outcome' = IF outcome = "none" THEN o ELSE outcome

\* The execution at w takes the result o of op.  Writes outside the walk's
\* exception handler end the workflow with an error when they fail, the failure of
\* a run whose pin is gone among them.
Take(w, op, o) ==
  IF /\ o.tag = "raise"
     /\ op.kind \in {"resolve", "create", "finish"} \/ (op.kind = "fail" /\ exec[w].at = 0)
  THEN Leave(w) /\ Ends("error")
  ELSE IF o.tag = "raise" /\ op.kind = "fail"
  THEN Install(w, [exec[w] EXCEPT !.phase = "direct"]) /\ UNCHANGED outcome
  ELSE Install(w, Consume(exec[w], op, o)) /\ UNCHANGED outcome

\* The result is recorded, unless this position of the journal is taken: then
\* another execution is ahead and this one stops.
Commit(w, op, o) ==
  IF ~ Durable THEN Take(w, op, o) /\ UNCHANGED journal
  ELSE IF exec[w].pos < Len(journal)
  THEN Leave(w) /\ UNCHANGED <<journal, outcome>>
  ELSE Take(w, op, o) /\ journal' = Append(journal, [op |-> op, out |-> o])

-----------------------------------------------------------------------------
Fresh == [phase |-> "idle", at |-> 0, k |-> 0, out |-> NoOut, pos |-> 0, w |-> NewWalk,
          begun |-> 0, joined |-> {}, streams |-> FALSE]

Init ==
  /\ graph \in Graphs
  /\ order = TopologicalOrder(graph)
  /\ input \in graph.inputs
  /\ runtime \in IF DurableOnly(graph) THEN {"durable"} ELSE {"durable", "inproc"}
  /\ row = [status |-> "none", at |-> 0]
  /\ journal = <<>>
  /\ mail = [n \in Gates |-> <<>>]
  /\ child = [c \in ChildIds |-> NoOut]
  /\ caller = [c \in Callers |-> [saw |-> 0, sent |-> FALSE, used |-> 0]]
  /\ exec = [w \in Workers |-> NoExec]
  /\ outcome = "none"
  /\ starts = 0
  /\ lapped = FALSE
  /\ seen = <<>>

\* The run is dequeued, or recovered by a process that starts; a process that
\* starts may claim a run another one is executing.
Start(w) ==
  /\ ~ Live(w) /\ outcome = "none"
  /\ starts < MaxStarts /\ (Durable \/ starts = 0)
  /\ (\E v \in Workers : Live(v)) => "overlap" \in Mishaps
  /\ exec' = [exec EXCEPT ![w] = Fresh]
  /\ starts' = starts + 1
  /\ lapped' = (lapped \/ \E v \in Workers : Live(v))
  /\ UNCHANGED <<ctl, row, journal, mail, child, caller, outcome, seen>>

\* The walk passes a capability, skips a node, or runs one that needs no I/O.
Inline(w) ==
  LET e == exec[w]
      n == order[e.at]
  IN /\ e.phase = "idle" /\ e.at \in 1..Len(order)
     /\ NextOp(e) = NoOp
     /\ Install(w, Onward(e, IF n \in Capabilities(graph) THEN e.w
                              ELSE IF IsSkipped(graph, n, e.w) THEN SkipNode(n, e.w)
                              ELSE IF graph.type[n] \in InlineTypes
                                   THEN WalkInline(graph, n, e.w, input)
                              ELSE SettleNode(n, e)))
     /\ (graph.type[n] = "map" /\ ~ IsSkipped(graph, n, e.w) /\ ~ TooDeep(n))
          => e.joined = 0..(graph.bound[n] - 1)
     /\ UNCHANGED <<ctl, row, journal, mail, child, caller, outcome, starts, lapped>>

Recorded(e) == Durable /\ e.pos < Len(journal)

\* The operation is in the journal: its result is taken from there.
Replay(w) ==
  LET e == exec[w]
      op == NextOp(e)
  IN /\ e.phase = "idle" /\ op # NoOp
     /\ Recorded(e) /\ journal[e.pos + 1].op = op
     /\ Take(w, op, journal[e.pos + 1].out)
     /\ UNCHANGED <<ctl, row, journal, mail, child, caller, starts, lapped>>

\* It is not: it is begun.  A child run is started, unless it exists.
Begin(w) ==
  LET e == exec[w]
      op == NextOp(e)
      c == ChildId(op.node, op.i)
  IN /\ e.phase = "idle" /\ op # NoOp /\ ~ Recorded(e)
     /\ exec' = [exec EXCEPT ![w].phase = "busy"]
     /\ child' = IF op.kind = "child" /\ child[c] = NoOut
                  THEN [child EXCEPT ![c] = Out("pending", NoValue)] ELSE child
     /\ UNCHANGED <<ctl, row, journal, mail, caller, outcome, starts, lapped, seen>>

\* A row operation commits its write, before its result is recorded.
Write(w) ==
  LET op == NextOp(exec[w])
  IN /\ exec[w].phase = "busy" /\ op.kind \in RowOps
     /\ row' = RowAfter(op)
     /\ exec' = [exec EXCEPT ![w].phase = "written"]
     /\ UNCHANGED <<ctl, journal, mail, child, caller, outcome, starts, lapped, seen>>

\* The operation returns and its result is recorded.
Finish(w) ==
  LET op == NextOp(exec[w])
  IN /\ \/ exec[w].phase = "busy" /\ op.kind \notin RowOps \cup {"recv"}
        \/ exec[w].phase = "written"
     /\ \E o \in Results(op) :
          /\ op.kind = "child" => o.tag \in {"ok", "failed"}
          /\ Commit(w, op, o)
     /\ UNCHANGED <<ctl, row, mail, child, caller, starts, lapped>>

\* A step fails on every attempt, though one of them may have made its write; its
\* error is the recorded result.
StepFails(w) ==
  LET op == NextOp(exec[w])
  IN /\ "fault" \in Mishaps /\ Durable
     /\ \/ exec[w].phase = "busy" /\ op.kind \in RowOps \cup {"resolve"}
        \/ exec[w].phase = "written"
     /\ Commit(w, op, Out("raise", NoValue))
     /\ UNCHANGED <<ctl, row, mail, child, caller, starts, lapped>>

\* The write that fails a run falls back to a direct one.
DirectWrite(w) ==
  /\ exec[w].phase = "direct"
  /\ row' \in {row, [status |-> "failed", at |-> 0]}
  /\ Leave(w) /\ Ends("failed")
  /\ UNCHANGED <<ctl, journal, mail, child, caller, starts, lapped>>

\* The gate receives an answer, which leaves the mailbox as it is recorded,
\* or its time is up.
Receive(w) ==
  LET op == NextOp(exec[w])
      t == Topic(op.node)
  IN /\ exec[w].phase = "busy" /\ op.kind = "recv"
     /\ \/ /\ mail[t] # <<>>
           /\ \E v \in graph.values : Commit(w, op, Out("answer", v))
           /\ IF exec[w].pos = Len(journal)
              THEN /\ caller' = [caller EXCEPT ![Head(mail[t])].used = op.node]
                   /\ mail' = [mail EXCEPT ![t] = Tail(@)]
              ELSE UNCHANGED <<caller, mail>>
        \/ /\ graph.timed[op.node]
           /\ Commit(w, op, Out("timeout", NoValue))
           /\ UNCHANGED <<caller, mail>>
     /\ UNCHANGED <<ctl, row, child, starts, lapped>>

\* MUTANT: a branch keeps its place after it has ended.
FanOutHeld(w) ==
  LET e == exec[w]
      n == order[e.at]
      c == ChildId(n, e.begun)
  IN /\ e.phase = "idle" /\ e.at \in 1..Len(order)
     /\ graph.type[n] = "map" /\ ~ IsSkipped(graph, n, e.w) /\ ~ TooDeep(n) /\ ~ e.w.raised
     /\ e.begun < graph.bound[n]
     /\ e.begun < graph.width[n]
     /\ child' = IF child[c] = NoOut THEN [child EXCEPT ![c] = Out("pending", NoValue)]
                                      ELSE child
     /\ exec' = [exec EXCEPT ![w].begun = @ + 1]
     /\ UNCHANGED <<ctl, row, journal, mail, caller, outcome, starts, lapped, seen>>

\* MUTANT: one branch more than allowed.
FanOutOneMore(w) ==
  LET e == exec[w]
      n == order[e.at]
      c == ChildId(n, e.begun)
  IN /\ e.phase = "idle" /\ e.at \in 1..Len(order)
     /\ graph.type[n] = "map" /\ ~ IsSkipped(graph, n, e.w) /\ ~ TooDeep(n) /\ ~ e.w.raised
     /\ e.begun < graph.bound[n]
     /\ e.begun - Cardinality(e.joined) <= graph.width[n]
     /\ child' = IF child[c] = NoOut THEN [child EXCEPT ![c] = Out("pending", NoValue)]
                                      ELSE child
     /\ exec' = [exec EXCEPT ![w].begun = @ + 1]
     /\ UNCHANGED <<ctl, row, journal, mail, caller, outcome, starts, lapped, seen>>

\* A map starts the child of its next element while fewer than the allowed
\* number of branches are under way in this execution.
FanOut(w) ==
  LET e == exec[w]
      n == order[e.at]
      c == ChildId(n, e.begun)
  IN /\ e.phase = "idle" /\ e.at \in 1..Len(order)
     /\ graph.type[n] = "map" /\ ~ IsSkipped(graph, n, e.w) /\ ~ TooDeep(n) /\ ~ e.w.raised
     /\ e.begun < graph.bound[n]
     /\ e.begun - Cardinality(e.joined) < graph.width[n]
     /\ child' = IF child[c] = NoOut THEN [child EXCEPT ![c] = Out("pending", NoValue)]
                                      ELSE child
     /\ exec' = [exec EXCEPT ![w].begun = @ + 1]
     /\ UNCHANGED <<ctl, row, journal, mail, caller, outcome, starts, lapped, seen>>

\* A branch of the map gets its child's result.
Join(w) ==
  LET e == exec[w]
      n == order[e.at]
  IN /\ e.phase = "idle" /\ e.at \in 1..Len(order) /\ graph.type[n] = "map"
     /\ \E i \in 0..(e.begun - 1) \ e.joined :
          /\ child[ChildId(n, i)].tag \in {"ok", "failed"}
          /\ exec' = [exec EXCEPT ![w].joined = @ \cup {i}]
     /\ UNCHANGED <<ctl, row, journal, mail, child, caller, outcome, starts, lapped, seen>>

\* The execution returns.
End(w) ==
  /\ exec[w].phase = "idle" /\ exec[w].at = Len(order) + 2
  /\ Leave(w)
  /\ Ends(IF exec[w].w.raised THEN "failed" ELSE "completed")
  /\ UNCHANGED <<ctl, row, journal, mail, child, caller, starts, lapped>>

\* The process dies.  The last execution allowed is left to end.
Crash(w) ==
  /\ "crash" \in Mishaps /\ Live(w)
  /\ Durable => starts < MaxStarts
  /\ Leave(w)
  /\ UNCHANGED <<ctl, row, journal, mail, child, caller, outcome, starts, lapped>>

\* A child run ends.
ChildEnds(c) ==
  /\ child[c].tag = "pending"
  /\ \E o \in {Out("ok", v) : v \in graph.values} \cup {Out("failed", NoValue)} :
       child' = [child EXCEPT ![c] = o]
  /\ UNCHANGED <<ctl, row, journal, mail, caller, exec, outcome, starts, lapped, seen>>

\* A caller reads that the run waits at a gate, then sends its answer to it.
ReadGate(c) ==
  /\ row.status = "waiting" /\ caller[c].saw = 0
  /\ caller' = [caller EXCEPT ![c].saw = row.at]
  /\ UNCHANGED <<ctl, row, journal, mail, child, exec, outcome, starts, lapped, seen>>

Answer(c) ==
  /\ caller[c].saw # 0 /\ ~ caller[c].sent
  /\ caller' = [caller EXCEPT ![c].sent = TRUE]
  /\ mail' = [mail EXCEPT ![Topic(caller[c].saw)] = Append(@, c)]
  /\ UNCHANGED <<ctl, row, journal, child, exec, outcome, starts, lapped, seen>>

\* An interactive run that streams says so once its walk has begun.
Stream(w) ==
  /\ ~ Durable /\ Live(w) /\ ~ exec[w].streams
  /\ exec[w].at \in 1..(Len(order) + 1) /\ exec[w].phase # "written"
  /\ row' = [row EXCEPT !.status = "streaming"]
  /\ exec' = [exec EXCEPT ![w].streams = TRUE]
  /\ UNCHANGED <<ctl, journal, mail, child, caller, outcome, starts, lapped, seen>>

\* The client of a streaming run goes away: the request is cancelled and the
\* run failed unless it has ended.
Cancel(w) ==
  /\ "cancel" \in Mishaps /\ ~ Durable /\ Live(w)
  /\ exec[w].streams
  /\ FailIfActive
  /\ Leave(w) /\ Ends(row'.status)
  /\ UNCHANGED <<ctl, journal, mail, child, caller, starts, lapped>>

\* A write of an interactive run fails, or seems to: its request ends with an error
\* and leaves the row as it is.  A stream cleans up, as when its client goes away.
RequestFails(w) ==
  /\ "fault" \in Mishaps /\ ~ Durable /\ Live(w) /\ ~ exec[w].streams
  /\ exec[w].phase = "written" \/ (exec[w].phase = "busy" /\ NextOp(exec[w]).kind \in RowOps)
  /\ Leave(w) /\ Ends("error")
  /\ UNCHANGED <<ctl, row, journal, mail, child, caller, starts, lapped>>

\* A control plane that starts fails the interactive runs it takes for dead;
\* with several control planes, one of them may be alive.
Sweep ==
  /\ ~ Durable /\ row.status \in Active
  /\ (\E v \in Workers : Live(v)) => "sweep" \in Mishaps
  /\ FailIfActive
  /\ lapped' = (lapped \/ \E v \in Workers : Live(v))
  /\ UNCHANGED <<ctl, journal, mail, child, caller, exec, outcome, starts, seen>>

Work(w) == \/ Inline(w) \/ Replay(w) \/ Begin(w) \/ Write(w) \/ Finish(w)
           \/ StepFails(w) \/ DirectWrite(w) \/ Receive(w) \/ FanOut(w) \/ Join(w) \/ End(w)

Next ==
  \/ \E w \in Workers : Start(w) \/ Work(w) \/ Crash(w) \/ Stream(w) \/ Cancel(w)
                       \/ RequestFails(w)
  \/ \E c \in ChildIds : ChildEnds(c)
  \/ \E c \in Callers : ReadGate(c) \/ Answer(c)
  \/ Sweep

Spec == Init /\ [][Next]_vars

\* As long as a process can go on with the run, one that starts can take it up,
\* a child can end or a starting control plane finds the run dead, one of these
\* happens: no behaviour takes infinitely many steps.
Progress ==
  \/ \E w \in Workers : Work(w) \/ Start(w)
  \/ \E c \in ChildIds : ChildEnds(c)
  \/ Sweep

FairSpec == Spec /\ WF_vars(Progress)

-----------------------------------------------------------------------------
(* Properties. *)

\* The variables keep their types.
TypeOK ==
  /\ row.status \in {"none", "created", "streaming", "waiting"} \cup Terminal
  /\ row.at \in Gates \cup {0} /\ (row.at # 0 <=> row.status = "waiting")
  /\ \A i \in DOMAIN journal : journal[i].out.tag # "none"
  /\ \A w \in Workers : Live(w) => /\ exec[w].phase \in {"idle", "busy", "written", "direct"}
                                   /\ exec[w].at \in 0..(Len(order) + 2)
                                   /\ exec[w].begun # 0 =>
                                        exec[w].begun \in 1..graph.bound[order[exec[w].at]]
  /\ \A c \in ChildIds : child[c].tag \in {"none", "pending", "ok", "failed"}
  /\ outcome \in {"none", "error"} \cup Terminal
  /\ starts \in 0..MaxStarts /\ lapped \in BOOLEAN

\* An execution that replays meets the operations that were recorded, in their
\* order, and every execution settles every node as the first one did.
ReplayAgrees ==
  \A w \in Workers : Live(w) =>
    /\ \A n \in Walked(exec[w].w) : FateIn(exec[w].w, n) = seen[n]
    /\ Recorded(exec[w]) /\ NextOp(exec[w]) # NoOp
         => journal[exec[w].pos + 1].op = NextOp(exec[w])

\* No more children of a map are under way than its concurrency allows, over
\* all its executions together.
MapBounded ==
  \A n \in Composed : graph.type[n] = "map" =>
    Cardinality({c \in ChildIds : c[1] = n /\ child[c].tag = "pending"}) <= graph.width[n]

\* An answer is used only by the gate its sender saw, and a gate uses one.
GateTakesOneAnswer ==
  \A c \in Callers : caller[c].used # 0 =>
    /\ caller[c].used = caller[c].saw
    /\ \A d \in Callers : caller[d].used = caller[c].used => d = c

\* An execution that waits for an answer has its run shown waiting, at its gate,
\* also after a crash between any two of the gate's steps.
GateVisible ==
  ~ lapped => \A w \in Workers :
    Live(w) /\ exec[w].phase = "busy" /\ NextOp(exec[w]).kind = "recv"
      => row = [status |-> "waiting", at |-> NextOp(exec[w]).node]

\* The last write of a run failed on every attempt.
Unwritten ==
  \E i \in DOMAIN journal : /\ journal[i].out.tag = "raise"
                            /\ journal[i].op.kind \in {"resolve", "create", "finish", "fail"}

\* When the run has ended its row says how, whatever died on the way.
RowTellsOutcome ==
  outcome \notin {"none", "error"} /\ ~ lapped /\ ~ Unwritten => row.status = outcome

\* The outcome a row states is not changed, unless two processes acted on it.
OutcomeStays ==
  [][row.status \in Terminal => row' = row \/ lapped']_vars

\* The outcome a row states is final: what the steps that write the row claim
\* when they call a repeated write a no-op.
OutcomeFinal == [][row.status \in Terminal => row' = row]_vars

\* The run keeps the promise of the dataflow.
Promise == INSTANCE Dataflow WITH
  fate <- seen,
  outcome <- IF outcome = "error" THEN "failed" ELSE outcome
KeepsPromise == Promise!Spec

\* A run that has a row ends, unless it waits at a gate that has no time limit;
\* one that is queued for the workers gets its row.
Parked ==
  \E w \in Workers :
    /\ Live(w) /\ exec[w].phase = "busy"
    /\ NextOp(exec[w]).kind = "recv" /\ ~ graph.timed[NextOp(exec[w]).node]
RunEnds ==
  <>[](\/ row.status \in Terminal \cup (IF Durable THEN {} ELSE {"none"})
       \/ Parked \/ lapped \/ Unwritten)

=============================================================================
