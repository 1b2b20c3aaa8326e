--------------------------- MODULE AgentRunProofs ---------------------------
(* What a run promises for any graphs, workers, callers and executions. *)
EXTENDS AgentRun, FiniteSetTheorems, TLAPS

Fields == {"phase", "at", "k", "out", "pos", "w", "begun", "joined", "streams"}
Phases == {"idle", "busy", "written", "direct"}
Last == Len(order) + 2

\* The graph that is run, and the runtime it needs.
GraphInv ==
  /\ graph \in Graphs /\ order = TopologicalOrder(graph)
  /\ runtime \in {"durable", "inproc"}
  /\ DurableOnly(graph) => Durable

\* An execution is where the operations it has done leave it; children of a map
\* are begun only while it is at the map.
ExecOK(e) ==
  /\ DOMAIN e = Fields
  /\ e.phase \in Phases
  /\ e.at \in 0..Last /\ e.k \in Nat /\ e.pos \in Nat /\ e.begun \in Nat
  /\ e.at = 0 => e.k < Len(Prologue) \/ e.w.raised
  /\ e.begun # 0 => /\ e.phase = "idle" /\ e.at \in 1..Len(order) /\ ~ e.w.raised
                    /\ graph.type[order[e.at]] = "map"
                    /\ e.begun <= graph.bound[order[e.at]]
  /\ e.joined \subseteq 0..(e.begun - 1)

ExecInv == DOMAIN exec = Workers /\ \A w \in Workers : Live(w) => ExecOK(exec[w])

\* An operation that is under way is the next one of its execution.
BusyInv ==
  \A w \in Workers :
    /\ exec[w].phase \in {"busy", "written", "direct"} => NextOp(exec[w]) # NoOp
    /\ exec[w].phase = "written" => NextOp(exec[w]).kind \in RowOps
    /\ exec[w].phase = "direct" => NextOp(exec[w]).kind = "fail"

Known == {"final", "call", "called", "ok", "err", "pass", "block", "raise", "started", "running",
          "ready", "done", "found", "gone", "failed", "answer", "timeout"}
Kinds == RowOps \cup {"resolve", "schemas", "turn", "call", "act", "gate", "start", "poll",
                      "items", "recv", "child"}
Operation == [kind : Kinds, node : Nodes(graph) \cup {0}, i : Nat]
Outcome == [tag : Known, v : graph.values \cup {NoValue}]
Entry == [op : Operation, out : Outcome]

\* The journal is at least as long as what an execution has consumed of it.
JournalInv ==
  /\ journal \in Seq(Entry)
  /\ ~ Durable => journal = <<>>
  /\ Durable => \A w \in Workers : Live(w) => exec[w].pos <= Len(journal)

Results1 == {"none", "pending", "ok", "failed"}

ChildInv ==
  /\ DOMAIN child = ChildIds
  /\ \A c \in ChildIds : /\ child[c].tag \in Results1
                         /\ child[c].tag = "none" => child[c] = NoOut
                         /\ child[c].tag \in {"ok", "failed"} => child[c] \in Outcome

\* The children of a map are started in their order; an execution has begun only
\* started ones and joined only ended ones.
MapInv ==
  /\ \A n \in Composed : graph.type[n] = "map" =>
       \A i, j \in 0..(graph.bound[n] - 1) :
         j < i /\ child[ChildId(n, i)].tag # "none" => child[ChildId(n, j)].tag # "none"
  /\ \A w \in Workers : Live(w) =>
       \A i \in 0..(exec[w].begun - 1) :
         LET c == ChildId(order[exec[w].at], i)
         IN c \in ChildIds =>
              /\ child[c].tag # "none"
              /\ i \in exec[w].joined => child[c].tag \in {"ok", "failed"}

\* The gates an execution has consumed an answer of lie behind it.
GateInv ==
  \A w \in Workers : Live(w) =>
    \A i \in 1..exec[w].pos : i \in DOMAIN journal /\ journal[i].op.kind = "recv" =>
      \E j \in 1..Len(order) : /\ order[j] = journal[i].op.node
                               /\ j < exec[w].at \/ (j = exec[w].at /\ exec[w].k >= 2)

\* An answer is in the mailbox of the gate its sender saw, once, until it is used.
MailInv ==
  /\ DOMAIN mail = Gates /\ DOMAIN caller = Callers
  /\ \A n \in Gates : mail[n] \in Seq(Callers)
  /\ \A n \in Gates : \A i \in DOMAIN mail[n] :
       /\ caller[mail[n][i]].saw = n /\ caller[mail[n][i]].sent
       /\ caller[mail[n][i]].used = 0
       /\ \A j \in DOMAIN mail[n] : mail[n][i] = mail[n][j] => i = j
  /\ \A c \in Callers :
       /\ DOMAIN caller[c] = {"saw", "sent", "used"}
       /\ caller[c].used # 0 => /\ caller[c].sent
                                /\ \E i \in DOMAIN journal : journal[i].op.kind = "recv"
                                                          /\ journal[i].op.node = caller[c].used
       /\ caller[c].saw \in Gates \cup {0} /\ caller[c].sent \in BOOLEAN
       /\ caller[c].sent => caller[c].saw # 0

\* The row names a gate exactly while it is waiting.
RowInv ==
  /\ DOMAIN row = {"status", "at"}
  /\ row.status \in {"none", "created", "streaming", "waiting"} \cup Terminal
  /\ row.at \in Gates \cup {0} /\ (row.at # 0 <=> row.status = "waiting")
  /\ outcome \in {"none", "error"} \cup Terminal
  /\ starts \in 0..MaxStarts /\ lapped \in BOOLEAN

Base == /\ GraphInv /\ ExecInv /\ BusyInv /\ JournalInv /\ ChildInv /\ MapInv /\ GateInv
        /\ MailInv /\ RowInv /\ MapBounded /\ GateTakesOneAnswer

-----------------------------------------------------------------------------
(* The graph, its order, and which operation comes next.                    *)

LEMMA GraphFacts ==
  ASSUME GraphInv
  PROVE  /\ graph.type \in Seq(NodeTypes) /\ Nodes(graph) = 1..Len(graph.type)
         /\ \A n \in Nodes(graph) : /\ graph.bound[n] \in Nat /\ graph.width[n] \in Nat \ {0}
                                    /\ graph.type[n] \in {"loop", "subgraph"}
                                         => graph.bound[n] >= 1
         /\ Len(graph.type) \in Nat /\ Len(order) = Len(graph.type)
         /\ DOMAIN order = 1..Len(order) /\ order \in [1..Len(order) -> Nodes(graph)]
         /\ \A i, j \in 1..Len(order) : order[i] = order[j] => i = j
         /\ \A i, j \in 1..Len(order) : order[i] \in Before(graph, order[j]) => i < j
<1>1. Valid(graph) /\ IsOrder(graph, order)
  BY GraphsAssumption, OrderAssumption DEF GraphInv
<1>2. /\ graph.type \in Seq(NodeTypes) /\ Nodes(graph) = 1..Len(graph.type)
      /\ Len(graph.type) \in Nat
  BY <1>1 DEF Valid, ConfigSound, Nodes
<1>3. order \in [1..Len(graph.type) -> Nodes(graph)] /\ DOMAIN order = 1..Len(graph.type)
  BY <1>1 DEF IsOrder
<1>4. Len(order) = Len(graph.type)
  BY <1>1 DEF Valid, GraphInv
<1> QED
  BY <1>1, <1>2, <1>3, <1>4 DEF Valid, ConfigSound, IsOrder

LEMMA ChildIdsAre ==
  ASSUME GraphInv, NEW n \in Composed, NEW i \in 0..(graph.bound[n] - 1)
  PROVE  ChildId(n, i) \in ChildIds
BY DEF ChildIds

\* What an operation of a node looks like.
LEMMA NodeOpIs ==
  ASSUME GraphInv, NEW e, ExecOK(e), NEW n \in Nodes(graph),
         NEW op, op = NodeOp(n, e), op # NoOp
  PROVE  /\ op \in Operation /\ op.node = n /\ ~ TooDeep(n)
         /\ op.kind \notin {"resolve", "create", "finish", "fail", "none"}
         /\ op.kind = "wait" => graph.type[n] = "human" /\ e.k = 0
         /\ op.kind = "recv" => graph.type[n] = "human" /\ e.k = 1
         /\ op.kind = "go" => graph.type[n] = "human" /\ e.k = 2
         /\ op.kind = "child" => /\ graph.type[n] \in {"subgraph", "loop"}
                                 /\ ChildId(n, op.i) \in ChildIds
<1> DEFINE t == graph.type[n]
<1>0. e.k \in Nat
  BY DEF ExecOK
<1>1. /\ ~ TooDeep(n)
      /\ \/ t \in {"act", "gate"} /\ e.k = 0 /\ op = Op(t, n, 0)
         \/ t = "llm" /\ op = LlmOp(n, e)
         \/ t = "crawler" /\ op = CrawlerOp(n, e)
         \/ t = "human" /\ op = HumanOp(n, e)
         \/ t = "subgraph" /\ e.k = 0 /\ op = Op("child", n, 0)
         \/ t = "loop" /\ op = LoopOp(n, e)
  BY DEF NodeOp
<1>2. CASE t = "llm" /\ op = LlmOp(n, e)
  <2> DEFINE first == IF HasTools(n) THEN 1 ELSE 0
             turn == (e.k - first) \div 2
  <2>1. \/ op = Op("schemas", n, 0)
        \/ e.k >= first /\ op = Op("turn", n, turn)
        \/ e.k >= first /\ op = Op("call", n, turn)
    BY <1>0, <1>2 DEF LlmOp
  <2>2. e.k >= first => turn \in Nat
    BY <1>0
  <2> HIDE DEF turn
  <2> QED BY <1>1, <2>1, <2>2 DEF Op, Operation, Kinds, RowOps
<1>3. CASE t = "loop" /\ op = LoopOp(n, e)
  <2>1. op = Op("child", n, e.k) /\ e.k \in 0..(graph.bound[n] - 1)
    <3>1. graph.bound[n] \in Nat /\ graph.bound[n] >= 1
      BY <1>3, GraphFacts
    <3> QED BY <1>0, <1>3, <3>1 DEF LoopOp
  <2>2. n \in Composed
    BY <1>3 DEF Composed
  <2> QED BY <1>1, <1>3, <2>1, <2>2, ChildIdsAre DEF Op, Operation, Kinds, RowOps
<1>4. CASE t = "subgraph" /\ e.k = 0 /\ op = Op("child", n, 0)
  <2>1. n \in Composed /\ 0 \in 0..(graph.bound[n] - 1)
    BY <1>4, GraphFacts DEF Composed
  <2> QED BY <1>1, <1>4, <2>1, ChildIdsAre DEF Op, Operation, Kinds, RowOps
<1>5. CASE t = "crawler" /\ op = CrawlerOp(n, e)
  <2>1. op \in {Op("start", n, 0), Op("poll", n, e.k), Op("items", n, 0)}
    BY <1>5 DEF CrawlerOp
  <2> QED BY <1>0, <1>1, <1>5, <2>1 DEF Op, Operation, Kinds, RowOps
<1>6. CASE t = "human" /\ op = HumanOp(n, e)
  <2>1. \/ e.k = 0 /\ op = Op("wait", n, 0)
        \/ e.k = 1 /\ op = Op("recv", n, 0)
        \/ e.k = 2 /\ op = Op("go", n, 0)
    <3>1. e.k \in 0..2
      BY <1>0, <1>6 DEF HumanOp
    <3> QED BY <1>6, <3>1 DEF HumanOp
  <2> QED BY <1>1, <1>6, <2>1 DEF Op, Operation, Kinds, RowOps
<1>7. CASE t \in {"act", "gate"} /\ e.k = 0 /\ op = Op(t, n, 0)
  <2> QED BY <1>1, <1>7 DEF Op, Operation, Kinds, RowOps
<1> QED BY <1>1, <1>2, <1>3, <1>4, <1>5, <1>6, <1>7

\* What the next operation of an execution looks like.
LEMMA NextOpIs ==
  ASSUME GraphInv, NEW e, ExecOK(e), NEW op, op = NextOp(e), op # NoOp
  PROVE  /\ op \in Operation /\ e.begun = 0 /\ e.joined = {} /\ e.at <= Len(order) + 1
         /\ \/ /\ e.at = 0 /\ e.k < Len(Prologue) /\ op.kind \in {"resolve", "create"}
               /\ op = Op(Prologue[e.k + 1], 0, 0)
            \/ e.w.raised /\ op = Op("fail", 0, 0)
            \/ ~ e.w.raised /\ op = Op("finish", 0, 0) /\ e.at = Len(order) + 1
            \/ /\ e.at \in 1..Len(order) /\ ~ e.w.raised
               /\ op.node = order[e.at] /\ order[e.at] \in Nodes(graph)
               /\ op = NodeOp(order[e.at], e)
               /\ ~ IsSkipped(graph, op.node, e.w) /\ op.node \notin Capabilities(graph)
<1>1. /\ e.at \in 0..Last /\ e.k \in Nat /\ e.begun \in Nat /\ Len(order) \in Nat
      /\ Len(order) + 2 = Last
  BY GraphFacts DEF ExecOK, Last
<1>2. CASE e.at = 0 /\ e.k < Len(Prologue)
  <2>1. op = Op(Prologue[e.k + 1], 0, 0)
    BY <1>2 DEF NextOp
  <2>2. Prologue[e.k + 1] \in {"resolve", "create"}
    <3>1. CASE Durable
      <4>1. Prologue = <<"resolve", "create">>
        BY <3>1 DEF Prologue
      <4>2. e.k \in 0..1
        BY <1>1, <1>2, <4>1
      <4> QED BY <4>1, <4>2
    <3>2. CASE ~ Durable
      <4>1. Prologue = <<"create">>
        BY <3>2 DEF Prologue
      <4>2. e.k = 0
        BY <1>1, <1>2, <4>1
      <4> QED BY <4>1, <4>2
    <3> QED BY <3>1, <3>2
  <2>3. e.begun = 0 /\ e.joined = {}
    BY <1>1, <1>2 DEF ExecOK
  <2>4. op \in Operation
    BY <2>1, <2>2 DEF Op, Operation, Kinds, RowOps
  <2>5. op.kind \in {"resolve", "create"}
    BY <2>1, <2>2 DEF Op
  <2> QED BY <1>1, <1>2, <2>1, <2>3, <2>4, <2>5
<1>3. CASE ~ (e.at = 0 /\ e.k < Len(Prologue))
  <2>1. e.at <= Len(order) + 1
    BY <1>1, <1>3 DEF NextOp
  <2>2. CASE e.w.raised
    <3>1. op = Op("fail", 0, 0)
      BY <1>3, <2>1, <2>2, <1>1 DEF NextOp
    <3>2. e.begun = 0 /\ e.joined = {}
      BY <1>1, <2>2 DEF ExecOK
    <3> QED BY <2>1, <2>2, <3>1, <3>2 DEF Op, Operation, Kinds, RowOps
  <2>3. CASE ~ e.w.raised
    <3>1. e.at \in 1..(Len(order) + 1)
      BY <1>1, <1>3, <2>1, <2>3 DEF ExecOK
    <3>2. CASE e.at = Len(order) + 1
      <4>1. op = Op("finish", 0, 0)
        BY <1>1, <1>3, <2>3, <3>2 DEF NextOp
      <4>2. e.begun = 0 /\ e.joined = {}
        BY <1>1, <3>2 DEF ExecOK
      <4> QED BY <1>1, <2>3, <3>2, <4>1, <4>2 DEF Op, Operation, Kinds, RowOps
    <3>3. CASE e.at \in 1..Len(order)
      <4>1. /\ op = NodeOp(order[e.at], e)
            /\ ~ IsSkipped(graph, order[e.at], e.w) /\ order[e.at] \notin Capabilities(graph)
        BY <1>1, <1>3, <2>3, <3>3 DEF NextOp
      <4>2. order[e.at] \in Nodes(graph)
        BY <3>3, GraphFacts
      <4>3. op \in Operation /\ op.node = order[e.at]
        <5>1. op = NodeOp(order[e.at], e)
          BY <4>1
        <5> QED BY <4>2, <5>1, NodeOpIs
      <4>4. graph.type[order[e.at]] # "map"
        BY <4>1 DEF NodeOp
      <4>5. e.begun = 0 /\ e.joined = {}
        BY <1>1, <4>4 DEF ExecOK
      <4> QED BY <1>1, <2>3, <3>3, <4>1, <4>2, <4>3, <4>5
    <3> QED BY <1>1, <3>1, <3>2, <3>3
  <2> QED BY <2>2, <2>3
<1> QED BY <1>2, <1>3

-----------------------------------------------------------------------------
(* The next state of an execution.                                          *)

LEMMA OnwardIs ==
  ASSUME NEW e, DOMAIN e = Fields, NEW w, NEW d, d = Onward(e, w)
  PROVE  /\ DOMAIN d = Fields /\ d.w = w /\ d.at = e.at + 1 /\ d.k = 0 /\ d.out = NoOut
         /\ d.begun = 0 /\ d.joined = {} /\ d.pos = e.pos /\ d.phase = e.phase
         /\ d.streams = e.streams
BY DEF Fields, Onward

LEMMA OnwardOK ==
  ASSUME GraphInv, NEW e, ExecOK(e), e.at <= Len(order) + 1, NEW w
  PROVE  ExecOK(Onward(e, w))
<1> DEFINE d == Onward(e, w)
<1>1. DOMAIN e = Fields /\ e.phase \in Phases /\ e.at \in 0..Last /\ e.pos \in Nat
  BY DEF ExecOK
<1>2. /\ DOMAIN d = Fields /\ d.at = e.at + 1 /\ d.k = 0 /\ d.begun = 0
      /\ d.joined = {} /\ d.pos = e.pos /\ d.phase = e.phase
  BY <1>1, OnwardIs
<1>3. d.at \in 1..Last
  BY <1>1, <1>2, GraphFacts DEF Last
<1>4. d.phase \in Phases /\ d.at \in 0..Last /\ d.k \in Nat /\ d.pos \in Nat /\ d.begun \in Nat
      /\ d.at # 0 /\ d.joined \subseteq 0..(d.begun - 1)
  BY <1>1, <1>2, <1>3
<1> HIDE DEF d
<1>5. ExecOK(d)
  BY <1>2, <1>4 DEF ExecOK
<1> QED BY <1>5 DEF d

\* The result of the next operation is consumed: the execution has one more entry of
\* the journal behind it, and is at a later operation.
LEMMA ConsumeIs ==
  ASSUME GraphInv, NEW e, ExecOK(e), NEW op, op = NextOp(e), op # NoOp, NEW o,
         NEW d, d = Consume(e, op, o)
  PROVE  /\ ExecOK(d) /\ d.pos = e.pos + 1 /\ d.phase = "idle" /\ d.begun = 0 /\ d.joined = {}
         /\ d.streams = e.streams
         /\ (d.at = e.at /\ d.k = e.k + 1) \/ d.at > e.at
<1>0. e.begun = 0 /\ e.joined = {} /\ e.at <= Len(order) + 1
  BY NextOpIs
<1>1. /\ DOMAIN e = Fields /\ e.phase \in Phases /\ e.at \in 0..Last /\ e.pos \in Nat
      /\ e.k \in Nat /\ Len(order) \in Nat /\ Last = Len(order) + 2
      /\ e.begun = 0 /\ e.joined = {} /\ e.at <= Len(order) + 1
  BY <1>0, GraphFacts DEF ExecOK, Last
<1>2. /\ DOMAIN d = Fields /\ d.pos = e.pos + 1 /\ d.phase = "idle" /\ d.begun = 0
      /\ d.joined = {} /\ d.streams = e.streams
  BY <1>1 DEF Consume, Onward, Fields
<1>3. \/ d.at = e.at /\ d.k = e.k + 1 /\ op.kind \notin {"finish", "fail"}
      \/ d.at = e.at + 1 /\ d.k = 0
      \/ d.at = Last /\ d.k = e.k + 1 /\ op.kind \in {"finish", "fail"}
  BY <1>1 DEF Consume, Onward, Fields, Last
<1>4. d.at = 0 => d.k < Len(Prologue) \/ d.w.raised
  <2> SUFFICES ASSUME d.at = 0 PROVE d.k < Len(Prologue) \/ d.w.raised
    OBVIOUS
  <2>1. e.at = 0 /\ d.k = e.k + 1 /\ op.kind \notin {"finish", "fail"}
    BY <1>1, <1>3
  <2>2. e.k < Len(Prologue) /\ op = Op(Prologue[e.k + 1], 0, 0)
    <3>1. \/ e.k < Len(Prologue) /\ op = Op(Prologue[e.k + 1], 0, 0)
          \/ op = Op("fail", 0, 0) \/ op = Op("finish", 0, 0) \/ e.at \in 1..Len(order)
      BY NextOpIs
    <3>2. op # Op("fail", 0, 0) /\ op # Op("finish", 0, 0) /\ ~ e.at \in 1..Len(order)
      BY <2>1 DEF Op
    <3> QED BY <3>1, <3>2
  <2>3. CASE Durable /\ e.k = 0
    BY <2>1, <2>3 DEF Prologue
  <2>4. CASE ~ (Durable /\ e.k = 0)
    <3>1. e.k + 1 = Len(Prologue) /\ Prologue[e.k + 1] = "create"
      <4>1. CASE Durable
        BY <1>1, <2>2, <2>4, <4>1 DEF Prologue
      <4>2. CASE ~ Durable
        BY <1>1, <2>2, <4>2 DEF Prologue
      <4> QED BY <4>1, <4>2
    <3>2. op.kind = "create"
      BY <2>2, <3>1 DEF Op
    <3> DEFINE f == [e EXCEPT !.k = @ + 1, !.out = o, !.pos = @ + 1, !.phase = "idle"]
    <3>3. d = IF f.k = Len(Prologue) /\ ~ f.w.raised THEN Onward(f, f.w) ELSE f
      BY <2>1, <3>2 DEF Consume
    <3>4. DOMAIN f = Fields /\ f.k = e.k + 1 /\ f.at = e.at
      BY <1>1 DEF Fields
    <3> HIDE DEF f
    <3>5. f.k = Len(Prologue) /\ ~ f.w.raised => d.at = 1
      BY <2>1, <3>3, <3>4, OnwardIs
    <3> QED BY <2>1, <3>1, <3>3, <3>4, <3>5
  <2> QED BY <2>3, <2>4
<1>5. d.at \in 0..Last /\ d.k \in Nat /\ d.pos \in Nat
  BY <1>1, <1>2, <1>3
<1>6. ExecOK(d)
  BY <1>1, <1>2, <1>4, <1>5 DEF ExecOK, Phases
<1> QED BY <1>1, <1>2, <1>3, <1>6

LEMMA FreshOK ==
  ASSUME GraphInv, NEW d, d = Fresh
  PROVE  /\ ExecOK(d) /\ d.pos = 0 /\ d.begun = 0 /\ d.joined = {} /\ d.at = 0 /\ d.k = 0
         /\ d.phase = "idle" /\ d.w = NewWalk
<1>1. 0 < Len(Prologue)
  <2>1. CASE Durable
    BY <2>1 DEF Prologue
  <2>2. CASE ~ Durable
    BY <2>2 DEF Prologue
  <2> QED BY <2>1, <2>2
<1>2. 0 \in 0..Last
  BY GraphFacts DEF Last
<1>3. /\ DOMAIN d = Fields /\ d.pos = 0 /\ d.begun = 0 /\ d.joined = {} /\ d.at = 0 /\ d.k = 0
      /\ d.phase = "idle" /\ d.w = NewWalk
  BY DEF Fresh, Fields
<1>4. d.k < Len(Prologue) /\ d.joined \subseteq 0..(d.begun - 1)
  BY <1>1, <1>3
<1>5. ExecOK(d)
  BY <1>2, <1>3, <1>4 DEF ExecOK, Phases
<1> QED BY <1>3, <1>5

\* An operation is begun, its write committed, or its failure to be written directly.
LEMMA PhaseOK ==
  ASSUME NEW e, ExecOK(e), e.begun = 0, NEW p \in Phases, NEW d, d = [e EXCEPT !.phase = p]
  PROVE  /\ ExecOK(d) /\ d.at = e.at /\ d.k = e.k /\ d.pos = e.pos /\ d.w = e.w
         /\ d.begun = 0 /\ d.joined = {} /\ d.phase = p /\ d.out = e.out
BY DEF ExecOK, Fields

LEMMA StreamsOK ==
  ASSUME NEW e, ExecOK(e), NEW d, d = [e EXCEPT !.streams = TRUE]
  PROVE  /\ ExecOK(d) /\ d.at = e.at /\ d.k = e.k /\ d.pos = e.pos /\ d.w = e.w
         /\ d.begun = e.begun /\ d.joined = e.joined /\ d.phase = e.phase /\ d.out = e.out
BY DEF ExecOK, Fields

LEMMA ChildOp ==
  ASSUME GraphInv, NEW e, ExecOK(e), NEW op, op = NextOp(e), op # NoOp
  PROVE  /\ op \in Operation
         /\ op.kind = "child" => /\ graph.type[op.node] # "map"
                                 /\ ChildId(op.node, op.i) \in ChildIds
         /\ op.kind = "recv" => /\ op.node \in Gates /\ e.k = 1
                                /\ e.at \in 1..Len(order) /\ op.node = order[e.at]
         /\ op.kind = "wait" => op.node \in Gates
<1>1. op \in Operation
  BY NextOpIs
<1>2. \/ op.kind \in {"resolve", "create"} \/ op = Op("fail", 0, 0) \/ op = Op("finish", 0, 0)
      \/ /\ e.at \in 1..Len(order) /\ op.node = order[e.at]
         /\ order[e.at] \in Nodes(graph) /\ op = NodeOp(order[e.at], e)
  BY NextOpIs
<1>3. CASE op.kind \in {"resolve", "create"} \/ op = Op("fail", 0, 0) \/ op = Op("finish", 0, 0)
  BY <1>1, <1>3 DEF Op
<1>4. CASE /\ e.at \in 1..Len(order) /\ op.node = order[e.at]
           /\ order[e.at] \in Nodes(graph) /\ op = NodeOp(order[e.at], e)
  <2>1. /\ op.kind = "wait" => graph.type[op.node] = "human"
        /\ op.kind = "recv" => graph.type[op.node] = "human" /\ e.k = 1
        /\ op.kind = "child" => /\ graph.type[op.node] \in {"subgraph", "loop"}
                                /\ ChildId(op.node, op.i) \in ChildIds
    BY <1>4, NodeOpIs
  <2> QED BY <1>1, <1>4, <2>1 DEF Gates
<1> QED BY <1>2, <1>3, <1>4

-----------------------------------------------------------------------------
(* What a step does to the executions and to the journal.                   *)

Changed(w, d) == /\ DOMAIN exec' = Workers /\ exec'[w] = d
                 /\ \A v \in Workers \ {w} : exec'[v] = exec[v]

\* The execution at w takes the result o of its next operation: from the journal, or
\* as its next entry, or where nothing is recorded.
Takes(w, o) ==
  /\ NextOp(exec[w]) # NoOp
  /\ \/ ~ Durable /\ journal' = journal
     \/ /\ Durable /\ journal' = journal /\ exec[w].pos < Len(journal)
        /\ journal[exec[w].pos + 1] = [op |-> NextOp(exec[w]), out |-> o]
     \/ /\ Durable /\ exec[w].pos >= Len(journal)
        /\ journal' = Append(journal, [op |-> NextOp(exec[w]), out |-> o])

Consumes(w, o) == /\ Takes(w, o)
                  /\ Changed(w, Consume(exec[w], NextOp(exec[w]), o))

\* The ways an execution changes.
Leaves(w) == Changed(w, NoExec)
Rephased(w) ==
  /\ exec[w].begun = 0 /\ NextOp(exec[w]) # NoOp
  /\ \E p \in Phases : /\ p = "written" => NextOp(exec[w]).kind \in RowOps
                       /\ p = "direct" => NextOp(exec[w]).kind = "fail"
                       /\ Changed(w, [exec[w] EXCEPT !.phase = p])
Passes(w) ==
  /\ exec[w].phase = "idle" /\ exec[w].at \in 1..Len(order) /\ NextOp(exec[w]) = NoOp
  /\ \E x : Changed(w, Onward(exec[w], x))
Streams(w) == Changed(w, [exec[w] EXCEPT !.streams = TRUE])
Joins(w) ==
  /\ exec[w].phase = "idle" /\ exec[w].at \in 1..Len(order)
  /\ graph.type[order[exec[w].at]] = "map" /\ UNCHANGED child
  /\ \E i \in 0..(exec[w].begun - 1) :
       /\ child[ChildId(order[exec[w].at], i)].tag \in {"ok", "failed"}
       /\ Changed(w, [exec[w] EXCEPT !.joined = @ \cup {i}])

ExecSteps(w) ==
  /\ Live(w)
  /\ \/ Leaves(w) \/ Rephased(w) \/ Passes(w) \/ Streams(w) \/ Joins(w)
     \/ \E o \in Outcome : Consumes(w, o)
     \/ FanOut(w)

\* The journal grows by the result of an execution's operation.
Records ==
  \/ journal' = journal
  \/ /\ Durable
     /\ \E w \in Workers : \E o \in Outcome :
          /\ Live(w) /\ NextOp(exec[w]) # NoOp /\ exec[w].pos >= Len(journal)
          /\ journal' = Append(journal, [op |-> NextOp(exec[w]), out |-> o])

ExecChanges ==
  \/ exec' = exec
  \/ \E w \in Workers : ~ Live(w) /\ Changed(w, Fresh)
  \/ \E w \in Workers : ExecSteps(w)

LEMMA ResultsAre ==
  ASSUME GraphInv, ChildInv, NEW op \in Operation, NEW o \in Results(op),
         op.kind = "child" => ChildId(op.node, op.i) \in ChildIds /\ o.tag \in {"ok", "failed"}
  PROVE  o \in Outcome
<1>1. CASE op.kind = "child"
  BY <1>1 DEF Results, ChildInv, Results1
<1>2. CASE op.kind # "child"
  BY <1>2 DEF Results, Outcome, Known, Out
<1> QED BY <1>1, <1>2

LEMMA InstallIs ==
  ASSUME DOMAIN exec = Workers, NEW w \in Workers, NEW d,
         Install(w, d) \/ exec' = [exec EXCEPT ![w] = d]
  PROVE  Changed(w, d)
BY DEF Install, Changed

LEMMA TakeMoves ==
  ASSUME GraphInv, ExecInv, NEW w \in Workers, Live(w), NEW op, op = NextOp(exec[w]),
         op # NoOp, NEW o \in Outcome, Take(w, op, o)
  PROVE  \/ Leaves(w)
         \/ op.kind = "fail" /\ o.tag = "raise" /\ Rephased(w)
         \/ Changed(w, Consume(exec[w], op, o))
<1>1. DOMAIN exec = Workers /\ ExecOK(exec[w])
  BY DEF ExecInv
<1>2. exec[w].begun = 0
  BY <1>1, NextOpIs
<1>3. \/ Leave(w)
      \/ op.kind = "fail" /\ o.tag = "raise" /\ Install(w, [exec[w] EXCEPT !.phase = "direct"])
      \/ Install(w, Consume(exec[w], op, o))
  BY Zenon DEF Take
<1>4. CASE Leave(w)
  BY <1>1, <1>4, InstallIs DEF Leave, Leaves
<1>5. CASE op.kind = "fail" /\ o.tag = "raise" /\ Install(w, [exec[w] EXCEPT !.phase = "direct"])
  <2>1. Changed(w, [exec[w] EXCEPT !.phase = "direct"])
    BY <1>1, <1>5, InstallIs
  <2>2. "direct" \in Phases
    BY DEF Phases
  <2> QED BY <1>2, <1>5, <2>1, <2>2 DEF Rephased
<1>6. CASE Install(w, Consume(exec[w], op, o))
  BY <1>1, <1>6, InstallIs
<1> QED BY <1>3, <1>4, <1>5, <1>6

LEMMA CommitMoves ==
  ASSUME GraphInv, ExecInv, JournalInv, NEW w \in Workers, Live(w), NEW op,
         op = NextOp(exec[w]), op # NoOp, NEW o \in Outcome, Commit(w, op, o)
  PROVE  ExecSteps(w) /\ Records
<1>1. CASE ~ Durable
  <2>1. Take(w, op, o) /\ journal' = journal
    BY <1>1 DEF Commit
  <2>2. \/ Leaves(w) \/ Rephased(w) \/ Changed(w, Consume(exec[w], op, o))
    BY <2>1, TakeMoves
  <2>3. Changed(w, Consume(exec[w], op, o)) => Consumes(w, o)
    BY <1>1, <2>1 DEF Consumes, Takes
  <2> QED BY <2>1, <2>2, <2>3 DEF ExecSteps, Records
<1>2. CASE Durable /\ exec[w].pos < Len(journal)
  <2>1. Leave(w) /\ journal' = journal
    BY <1>2, Zenon DEF Commit
  <2>2. Leaves(w)
    BY <2>1, InstallIs DEF Leave, Leaves, ExecInv
  <2> QED BY <2>1, <2>2 DEF ExecSteps, Records
<1>3. CASE Durable /\ ~ exec[w].pos < Len(journal)
  <2>1. Take(w, op, o) /\ journal' = Append(journal, [op |-> op, out |-> o])
    BY <1>3, Zenon DEF Commit
  <2>2. exec[w].pos >= Len(journal)
    BY <1>3 DEF ExecInv, ExecOK, JournalInv
  <2>3. \/ Leaves(w) \/ Rephased(w) \/ Changed(w, Consume(exec[w], op, o))
    BY <2>1, TakeMoves
  <2>4. Changed(w, Consume(exec[w], op, o)) => Consumes(w, o)
    BY <1>3, <2>1, <2>2 DEF Consumes, Takes
  <2>5. Records
    BY <1>3, <2>1, <2>2 DEF Records
  <2> QED BY <2>3, <2>4, <2>5 DEF ExecSteps
<1> QED BY <1>1, <1>2, <1>3

LEMMA SameOp ==
  ASSUME NEW e, NEW d, d.at = e.at, d.k = e.k, d.out = e.out, d.w = e.w
  PROVE  NextOp(d) = NextOp(e)
BY DEF NextOp, NodeOp, LlmOp, CrawlerOp, HumanOp, LoopOp

\* Every step changes at most one execution, in one of those ways.
LEMMA Moves ==
  ASSUME GraphInv, ExecInv, BusyInv, JournalInv, ChildInv, Next
  PROVE  ExecChanges /\ Records /\ UNCHANGED ctl
<1> USE DEF ExecInv
<1>1. ASSUME NEW w \in Workers, Start(w) PROVE ExecChanges /\ Records /\ UNCHANGED ctl
  <2>1. Changed(w, Fresh)
    BY <1>1, InstallIs DEF Start
  <2> QED BY <1>1, <2>1 DEF Start, ExecChanges, Records
<1>2. ASSUME NEW w \in Workers, Leave(w), Live(w), journal' = journal
      PROVE  ExecSteps(w) /\ Records
  BY <1>2, InstallIs DEF Leave, Leaves, ExecSteps, Records
<1>3. ASSUME NEW w \in Workers, Work(w) PROVE ExecSteps(w) /\ Records /\ UNCHANGED ctl
  <2> DEFINE e == exec[w]
             op == NextOp(e)
  <2>0. DOMAIN exec = Workers
    OBVIOUS
  <2>1. CASE Inline(w)
    <3>1. PICK x : Install(w, Onward(exec[w], x))
      BY <2>1 DEF Inline
    <3>2. Changed(w, Onward(exec[w], x))
      BY <2>0, <3>1, InstallIs
    <3>3. Passes(w)
      BY <2>1, <3>2 DEF Inline, Passes
    <3> QED BY <2>1, <3>3 DEF Inline, ExecSteps, Records, Live
  <2>2. CASE Replay(w)
    <3>1. /\ Live(w) /\ op # NoOp /\ Take(w, op, journal[e.pos + 1].out) /\ UNCHANGED ctl
          /\ journal' = journal /\ Durable /\ e.pos < Len(journal)
          /\ journal[e.pos + 1].op = op
      BY <2>2 DEF Replay, Live, Recorded
    <3>2. journal[e.pos + 1] \in Entry
      <4>1. e.pos + 1 \in 1..Len(journal)
        BY <3>1 DEF JournalInv, ExecOK
      <4> QED BY <4>1 DEF JournalInv
    <3>3. PICK o \in Outcome : o = journal[e.pos + 1].out
      BY <3>2 DEF Entry
    <3>4. journal[e.pos + 1] = [op |-> op, out |-> o]
      BY <3>1, <3>2, <3>3 DEF Entry
    <3>5. Leaves(w) \/ Rephased(w) \/ Changed(w, Consume(e, op, o))
      <4>1. Take(w, op, o)
        BY <3>1, <3>3
      <4> QED BY <3>1, <4>1, TakeMoves
    <3>6. Changed(w, Consume(e, op, o)) => Consumes(w, o)
      BY <3>1, <3>4 DEF Consumes, Takes
    <3> QED BY <3>1, <3>5, <3>6 DEF ExecSteps, Records
  <2>3. CASE Begin(w) \/ Write(w)
    <3>1. /\ Live(w) /\ op # NoOp /\ journal' = journal /\ UNCHANGED ctl
          /\ \E p \in Phases : /\ p # "direct" /\ (p = "written" => op.kind \in RowOps)
                              /\ exec' = [exec EXCEPT ![w] = [exec[w] EXCEPT !.phase = p]]
      BY <2>3 DEF Begin, Write, Live, Phases, RowOps, NoOp, Op
    <3>2. e.begun = 0
      BY <3>1, NextOpIs
    <3>3. Rephased(w)
      BY <3>1, <3>2, InstallIs DEF Rephased
    <3> QED BY <3>1, <3>3 DEF ExecSteps, Records
  <2>4. CASE Finish(w)
    <3>1. Live(w) /\ op # NoOp /\ UNCHANGED ctl
      BY <2>4 DEF Finish, Live, BusyInv
    <3>2. PICK o \in Results(op) : Commit(w, op, o) /\ (op.kind = "child" => o.tag \in {"ok", "failed"})
      BY <2>4 DEF Finish
    <3>3. op \in Operation /\ (op.kind = "child" => ChildId(op.node, op.i) \in ChildIds)
      BY <3>1, ChildOp
    <3>4. o \in Outcome
      BY <3>2, <3>3, ResultsAre
    <3> QED BY <3>1, <3>2, <3>4, CommitMoves
  <2>5. CASE StepFails(w)
    <3>1. Live(w) /\ op # NoOp /\ UNCHANGED ctl /\ Commit(w, op, Out("raise", NoValue))
      BY <2>5 DEF StepFails, Live, BusyInv
    <3>2. Out("raise", NoValue) \in Outcome
      BY DEF Out, Outcome, Known
    <3> QED BY <3>1, <3>2, CommitMoves
  <2>6. CASE DirectWrite(w)
    BY <1>2, <2>6 DEF DirectWrite, Live
  <2>7. CASE Receive(w)
    <3>1. Live(w) /\ op # NoOp /\ UNCHANGED ctl
      BY <2>7 DEF Receive, Live, BusyInv
    <3>2. \/ \E v \in graph.values : Commit(w, op, Out("answer", v))
          \/ Commit(w, op, Out("timeout", NoValue))
      BY <2>7 DEF Receive
    <3>3. \A v \in graph.values : Out("answer", v) \in Outcome /\ Out("timeout", NoValue) \in Outcome
      BY DEF Out, Outcome, Known
    <3>4. Out("timeout", NoValue) \in Outcome
      BY DEF Out, Outcome, Known
    <3> QED BY <3>1, <3>2, <3>3, <3>4, CommitMoves
  <2>8. CASE FanOut(w)
    BY <2>8 DEF FanOut, ExecSteps, Live, Records
  <2>9. CASE Join(w)
    <3>1. PICK i \in 0..(e.begun - 1) :
            /\ child[ChildId(order[e.at], i)].tag \in {"ok", "failed"}
            /\ exec' = [exec EXCEPT ![w] = [exec[w] EXCEPT !.joined = @ \cup {i}]]
      BY <2>9 DEF Join
    <3>2. Changed(w, [exec[w] EXCEPT !.joined = @ \cup {i}])
      BY <2>0, <3>1, InstallIs
    <3>3. Joins(w)
      BY <2>9, <3>1, <3>2 DEF Join, Joins
    <3> QED BY <2>9, <3>3 DEF Join, ExecSteps, Live, Records
  <2>10. CASE End(w)
    BY <1>2, <2>10 DEF End, Live
  <2> QED BY <1>3, <2>1, <2>2, <2>3, <2>4, <2>5, <2>6, <2>7, <2>8, <2>9, <2>10 DEF Work
<1>4. ASSUME NEW w \in Workers, Crash(w) \/ Cancel(w) \/ RequestFails(w)
      PROVE  ExecSteps(w) /\ Records /\ UNCHANGED ctl
  BY <1>2, <1>4 DEF Crash, Cancel, RequestFails, Live
<1>5. ASSUME NEW w \in Workers, Stream(w) PROVE ExecSteps(w) /\ Records /\ UNCHANGED ctl
  <2>1. Changed(w, [exec[w] EXCEPT !.streams = TRUE])
    <3>1. exec' = [exec EXCEPT ![w] = [exec[w] EXCEPT !.streams = TRUE]]
      BY <1>5 DEF Stream
    <3> QED BY <3>1, InstallIs
  <2> QED BY <1>5, <2>1 DEF Stream, Streams, ExecSteps, Records
<1>6. CASE (\E c \in ChildIds : ChildEnds(c)) \/ (\E c \in Callers : ReadGate(c) \/ Answer(c)) \/ Sweep
  BY <1>6 DEF ChildEnds, ReadGate, Answer, Sweep, ExecChanges, Records
<1> QED BY <1>1, <1>3, <1>4, <1>5, <1>6 DEF Next, ExecChanges

-----------------------------------------------------------------------------
(* The invariants of the executions and of the journal.                     *)

LEMMA CarryOK ==
  ASSUME UNCHANGED ctl, NEW v \in Workers, ExecOK(exec'[v])
  PROVE  ExecOK(exec[v])'
BY DEF ExecOK, ctl, Last, Prologue, Durable

LEMMA CarryOp ==
  ASSUME UNCHANGED ctl, NEW v \in Workers
  PROVE  NextOp(exec[v])' = NextOp(exec'[v])
BY DEF NextOp, ctl, NodeOp, LlmOp, CrawlerOp, HumanOp, LoopOp, HasTools, TooDeep, Composed,
       Prologue, Durable

\* What an execution becomes is again one that is well formed.
LEMMA StepOK ==
  ASSUME GraphInv, ExecInv, ExecChanges
  PROVE  DOMAIN exec' = Workers /\ \A v \in Workers : exec'[v].phase # "none" => ExecOK(exec'[v])
<1> USE DEF ExecInv
<1>1. CASE exec' = exec
  BY <1>1 DEF Live
<1>2. ASSUME NEW w \in Workers, NEW d, Changed(w, d), d.phase # "none" => ExecOK(d)
      PROVE  DOMAIN exec' = Workers /\ \A v \in Workers : exec'[v].phase # "none" => ExecOK(exec'[v])
  BY <1>2 DEF Changed, Live
<1>3. ASSUME NEW w \in Workers, Changed(w, Fresh)
      PROVE  DOMAIN exec' = Workers /\ \A v \in Workers : exec'[v].phase # "none" => ExecOK(exec'[v])
  BY <1>2, <1>3, FreshOK
<1>4. ASSUME NEW w \in Workers, ExecSteps(w)
      PROVE  DOMAIN exec' = Workers /\ \A v \in Workers : exec'[v].phase # "none" => ExecOK(exec'[v])
  <2> DEFINE e == exec[w]
  <2>0. Live(w) /\ ExecOK(e)
    BY <1>4 DEF ExecSteps
  <2>1. CASE Leaves(w)
    <3>1. NoExec.phase = "none"
      BY DEF NoExec
    <3> QED BY <1>2, <2>1, <3>1 DEF Leaves
  <2>2. CASE Rephased(w)
    <3>1. PICK p \in Phases : Changed(w, [e EXCEPT !.phase = p])
      BY <2>2 DEF Rephased
    <3>2. ExecOK([e EXCEPT !.phase = p])
      BY <2>0, <2>2, PhaseOK DEF Rephased
    <3> QED BY <1>2, <3>1, <3>2
  <2>3. CASE Passes(w)
    <3>1. PICK x : Changed(w, Onward(e, x))
      BY <2>3 DEF Passes
    <3>2. e.at <= Len(order) + 1
      BY <2>3, GraphFacts DEF Passes
    <3>3. ExecOK(Onward(e, x))
      BY <2>0, <3>2, OnwardOK
    <3> QED BY <1>2, <3>1, <3>3
  <2>4. CASE Streams(w)
    <3>1. ExecOK([e EXCEPT !.streams = TRUE])
      BY <2>0, StreamsOK
    <3> QED BY <1>2, <2>4, <3>1 DEF Streams
  <2>5. CASE Joins(w)
    <3>1. PICK i \in 0..(e.begun - 1) : Changed(w, [e EXCEPT !.joined = @ \cup {i}])
      BY <2>5 DEF Joins
    <3>2. ExecOK([e EXCEPT !.joined = @ \cup {i}])
      BY <2>0 DEF ExecOK, Fields
    <3> QED BY <1>2, <3>1, <3>2
  <2>6. ASSUME NEW o \in Outcome, Consumes(w, o)
        PROVE DOMAIN exec' = Workers /\ \A v \in Workers : exec'[v].phase # "none" => ExecOK(exec'[v])
    <3>1. Changed(w, Consume(e, NextOp(e), o)) /\ NextOp(e) # NoOp
      BY <2>6 DEF Consumes, Takes
    <3>2. ExecOK(Consume(e, NextOp(e), o))
      BY <2>0, <3>1, ConsumeIs
    <3> QED BY <1>2, <3>1, <3>2
  <2>7. CASE FanOut(w)
    <3> DEFINE d == [e EXCEPT !.begun = @ + 1]
    <3>1. exec' = [exec EXCEPT ![w] = d]
      BY <2>7 DEF FanOut
    <3>2. Changed(w, d)
      BY <3>1, InstallIs
    <3>3. /\ e.phase = "idle" /\ e.at \in 1..Len(order) /\ graph.type[order[e.at]] = "map"
          /\ ~ e.w.raised /\ e.begun < graph.bound[order[e.at]]
      BY <2>7 DEF FanOut
    <3>4. graph.bound[order[e.at]] \in Nat
      <4>1. order[e.at] \in Nodes(graph)
        BY <3>3, GraphFacts
      <4> QED BY <4>1, GraphFacts
    <3>5. ExecOK(d)
      BY <2>0, <3>3, <3>4 DEF ExecOK, Fields
    <3> QED BY <1>2, <3>2, <3>5
  <2> QED BY <1>4, <2>1, <2>2, <2>3, <2>4, <2>5, <2>6, <2>7 DEF ExecSteps
<1> QED BY <1>1, <1>3, <1>4 DEF ExecChanges

LEMMA ExecNext ==
  ASSUME GraphInv, ExecInv, ExecChanges, UNCHANGED ctl
  PROVE  ExecInv'
BY StepOK, CarryOK DEF ExecInv, Live

\* What is consumed of the journal, and where an execution is, after a step.
Follows(w) ==
  LET e == exec[w]
      d == exec'[w]
  IN /\ exec'[w].phase # "none"
     /\ \/ d.pos = e.pos /\ d.at = e.at /\ d.k = e.k
        \/ d.pos = e.pos /\ d.at = e.at + 1 /\ d.k = 0 /\ e.at \in 1..Len(order)
        \/ /\ d.pos = e.pos + 1 /\ ((d.at = e.at /\ d.k = e.k + 1) \/ d.at > e.at)
           /\ \E o \in Outcome : Takes(w, o)

LEMMA FollowsStep ==
  ASSUME GraphInv, ExecInv, NEW w \in Workers, ExecSteps(w), exec'[w].phase # "none"
  PROVE  Follows(w) /\ \A v \in Workers \ {w} : exec'[v] = exec[v]
<1> DEFINE e == exec[w]
<1>0. ExecOK(e) /\ DOMAIN exec = Workers
  BY DEF ExecSteps, ExecInv
<1>1. CASE Leaves(w)
  BY <1>1 DEF Leaves, Changed, NoExec
<1>2. CASE Rephased(w)
  BY <1>0, <1>2, PhaseOK DEF Rephased, Changed, Follows
<1>3. CASE Passes(w)
  <2>1. PICK x : Changed(w, Onward(e, x))
    BY <1>3 DEF Passes
  <2>2. DOMAIN e = Fields /\ e.at \in 1..Len(order)
    BY <1>0, <1>3 DEF ExecOK, Passes
  <2> QED BY <2>1, <2>2, OnwardIs DEF Changed, Follows
<1>4. CASE Streams(w)
  BY <1>0, <1>4, StreamsOK DEF Streams, Changed, Follows
<1>5. CASE Joins(w) \/ FanOut(w)
  <2>1. DOMAIN e = Fields
    BY <1>0 DEF ExecOK
  <2>2. CASE Joins(w)
    BY <2>1, <2>2 DEF Joins, Changed, Follows, Fields
  <2>3. CASE FanOut(w)
    BY <1>0, <2>1, <2>3 DEF FanOut, Follows, Fields
  <2> QED BY <1>5, <2>2, <2>3
<1>6. ASSUME NEW o \in Outcome, Consumes(w, o)
      PROVE  Follows(w) /\ \A v \in Workers \ {w} : exec'[v] = exec[v]
  <2>1. NextOp(e) # NoOp /\ Changed(w, Consume(e, NextOp(e), o)) /\ Takes(w, o)
    BY <1>6 DEF Consumes, Takes
  <2>2. ASSUME NEW d, d = Consume(e, NextOp(e), o)
        PROVE  d.pos = e.pos + 1 /\ ((d.at = e.at /\ d.k = e.k + 1) \/ d.at > e.at)
    BY <1>0, <2>1, <2>2, ConsumeIs
  <2> QED BY <2>1, <2>2 DEF Changed, Follows
<1> QED BY <1>1, <1>2, <1>3, <1>4, <1>5, <1>6 DEF ExecSteps

LEMMA BusyNext ==
  ASSUME GraphInv, ExecInv, BusyInv, ExecChanges, UNCHANGED ctl
  PROVE  BusyInv'
<1> DEFINE Good(d) == /\ d.phase \in {"busy", "written", "direct"} => NextOp(d) # NoOp
                      /\ d.phase = "written" => NextOp(d).kind \in RowOps
                      /\ d.phase = "direct" => NextOp(d).kind = "fail"
<1>1. SUFFICES \A v \in Workers : Good(exec'[v])
  <2>1. NoOp' = NoOp /\ RowOps' = RowOps
    BY DEF NoOp, RowOps
  <2> QED BY <1>1, <2>1, CarryOp DEF BusyInv
<1>2. \A v \in Workers : Good(exec[v])
  BY DEF BusyInv
<1>3. ASSUME NEW w \in Workers, NEW d, Changed(w, d), Good(d)
      PROVE  \A v \in Workers : Good(exec'[v])
  <2> HIDE DEF Good
  <2> QED BY <1>2, <1>3 DEF Changed
<1>4. ASSUME NEW d, d.phase \notin {"busy", "written", "direct"} PROVE Good(d)
  BY <1>4
<1>5. ASSUME NEW w \in Workers, ExecSteps(w) PROVE \A v \in Workers : Good(exec'[v])
  <2> DEFINE e == exec[w]
  <2>0. Live(w) /\ ExecOK(e)
    BY <1>5 DEF ExecSteps, ExecInv
  <2>1. CASE Leaves(w)
    <3>1. NoExec.phase = "none"
      BY DEF NoExec
    <3>2. Good(NoExec)
      BY <3>1
    <3> HIDE DEF Good
    <3> QED BY <1>3, <2>1, <3>2 DEF Leaves
  <2>2. CASE Rephased(w)
    <3>1. PICK p \in Phases : /\ p = "written" => NextOp(e).kind \in RowOps
                              /\ p = "direct" => NextOp(e).kind = "fail"
                              /\ Changed(w, [e EXCEPT !.phase = p])
      BY <2>2 DEF Rephased
    <3>2. PICK d : d = [e EXCEPT !.phase = p]
      OBVIOUS
    <3>3. d.phase = p /\ NextOp(d) = NextOp(e)
      <4>1. d.at = e.at /\ d.k = e.k /\ d.out = e.out /\ d.w = e.w /\ d.phase = p
        BY <2>0, <2>2, <3>2, PhaseOK DEF Rephased
      <4> QED BY <4>1, SameOp
    <3>4. NextOp(e) # NoOp
      BY <2>2 DEF Rephased
    <3>5. Good(d)
      BY <3>1, <3>3, <3>4
    <3> HIDE DEF Good
    <3> QED BY <1>3, <3>1, <3>2, <3>5
  <2>3. CASE Passes(w)
    <3>1. PICK x : Changed(w, Onward(e, x))
      BY <2>3 DEF Passes
    <3>2. PICK d : d = Onward(e, x)
      OBVIOUS
    <3>3. d.phase = "idle"
      BY <2>0, <2>3, <3>2, OnwardIs DEF Passes, ExecOK
    <3>4. Good(d)
      BY <3>3
    <3> HIDE DEF Good
    <3> QED BY <1>3, <3>1, <3>2, <3>4
  <2>4. CASE Streams(w)
    <3>1. PICK d : d = [e EXCEPT !.streams = TRUE]
      OBVIOUS
    <3>2. d.at = e.at /\ d.k = e.k /\ d.out = e.out /\ d.w = e.w /\ d.phase = e.phase
      BY <2>0, <3>1, StreamsOK
    <3>3. NextOp(d) = NextOp(e)
      BY <3>2, SameOp
    <3>4. Good(d)
      BY <1>2, <3>2, <3>3
    <3> HIDE DEF Good
    <3> QED BY <1>3, <2>4, <3>1, <3>4 DEF Streams
  <2>5. CASE Joins(w) \/ FanOut(w)
    <3>1. PICK d : Changed(w, d) /\ d.phase = "idle"
      <4>1. DOMAIN e = Fields /\ DOMAIN exec = Workers
        BY <2>0 DEF ExecOK, ExecInv
      <4>2. CASE Joins(w)
        BY <4>1, <4>2 DEF Joins, Fields
      <4>3. CASE FanOut(w)
        <5>1. exec' = [exec EXCEPT ![w] = [e EXCEPT !.begun = @ + 1]] /\ e.phase = "idle"
          BY <4>3 DEF FanOut
        <5>2. Changed(w, [e EXCEPT !.begun = @ + 1])
          BY <4>1, <5>1, InstallIs
        <5> QED BY <4>1, <5>1, <5>2 DEF Fields
      <4> QED BY <2>5, <4>2, <4>3
    <3>2. Good(d)
      BY <3>1
    <3> HIDE DEF Good
    <3> QED BY <1>3, <3>1, <3>2
  <2>6. ASSUME NEW o \in Outcome, Consumes(w, o) PROVE \A v \in Workers : Good(exec'[v])
    <3>1. PICK d : d = Consume(e, NextOp(e), o)
      OBVIOUS
    <3>2. NextOp(e) # NoOp /\ Changed(w, d)
      BY <2>6, <3>1 DEF Consumes, Takes
    <3>3. d.phase = "idle"
      BY <2>0, <3>1, <3>2, ConsumeIs
    <3>4. Good(d)
      BY <3>3
    <3> HIDE DEF Good
    <3> QED BY <1>3, <3>2, <3>4
  <2> HIDE DEF Good
  <2> QED BY <1>5, <2>1, <2>2, <2>3, <2>4, <2>5, <2>6 DEF ExecSteps
<1>6. ASSUME NEW w \in Workers, Changed(w, Fresh) PROVE \A v \in Workers : Good(exec'[v])
  <2>1. PICK d : d = Fresh
    OBVIOUS
  <2>2. Good(d)
    BY <2>1, FreshOK
  <2> HIDE DEF Good
  <2> QED BY <1>3, <1>6, <2>1, <2>2
<1> HIDE DEF Good
<1>7. CASE exec' = exec
  BY <1>2, <1>7
<1> QED BY <1>5, <1>6, <1>7 DEF ExecChanges

LEMMA ChangedOne ==
  ASSUME GraphInv, ExecInv, ExecChanges, NEW v \in Workers, exec'[v].phase # "none"
  PROVE  exec'[v] = exec[v] \/ exec'[v] = Fresh \/ ExecSteps(v)
<1>1. ASSUME NEW w \in Workers, ExecSteps(w), w # v PROVE exec'[v] = exec[v]
  <2>1. CASE exec'[w].phase # "none"
    BY <1>1, <2>1, FollowsStep
  <2>2. CASE exec'[w].phase = "none"
    <3>1. CASE FanOut(w)
      BY <1>1, <3>1 DEF FanOut, ExecInv
    <3>2. CASE ~ FanOut(w)
      BY <1>1, <3>2 DEF ExecSteps, Leaves, Rephased, Passes, Streams, Joins, Consumes, Changed
    <3> QED BY <3>1, <3>2
  <2> QED BY <2>1, <2>2
<1> QED BY <1>1 DEF ExecChanges, Changed

LEMMA JournalNext ==
  ASSUME GraphInv, ExecInv, JournalInv, ExecChanges, Records, UNCHANGED ctl
  PROVE  JournalInv'
<1>1. Entry' = Entry /\ Durable' = Durable
  BY DEF ctl, Entry, Operation, Outcome, Nodes, Durable, Kinds, RowOps, Known
<1>2. /\ journal' \in Seq(Entry)
      /\ Len(journal') >= Len(journal) /\ Len(journal) \in Nat /\ Len(journal') \in Nat
  <2>1. CASE journal' = journal
    BY <2>1 DEF JournalInv
  <2>2. ASSUME NEW w \in Workers, NEW o \in Outcome, Live(w), NextOp(exec[w]) # NoOp,
               journal' = Append(journal, [op |-> NextOp(exec[w]), out |-> o])
        PROVE  /\ journal' \in Seq(Entry)
               /\ Len(journal') >= Len(journal) /\ Len(journal) \in Nat /\ Len(journal') \in Nat
    <3>1. [op |-> NextOp(exec[w]), out |-> o] \in Entry
      BY <2>2, NextOpIs DEF ExecInv, Entry
    <3> QED BY <2>2, <3>1 DEF JournalInv
  <2> QED BY <2>1, <2>2 DEF Records
<1>3. ~ Durable => journal' = <<>>
  BY DEF Records, JournalInv
<1>4. ASSUME Durable, NEW v \in Workers, exec'[v].phase # "none"
      PROVE  exec'[v].pos <= Len(journal')
  <2>1. CASE exec'[v] = exec[v]
    <3>1. exec[v].pos \in Nat /\ exec[v].pos <= Len(journal)
      BY <1>4, <2>1 DEF ExecInv, ExecOK, Live, JournalInv
    <3> QED BY <1>2, <2>1, <3>1
  <2>2. CASE exec'[v] = Fresh
    BY <1>2, <2>2, FreshOK
  <2>3. CASE ExecSteps(v)
    <3>1. exec[v].pos \in Nat /\ exec[v].pos <= Len(journal)
      BY <1>4, <2>3 DEF ExecInv, ExecOK, ExecSteps, JournalInv
    <3>2. Follows(v)
      BY <1>4, <2>3, FollowsStep
    <3>3. CASE \E o \in Outcome : Takes(v, o)
      <4>1. \/ journal' = journal /\ exec[v].pos < Len(journal)
            \/ Len(journal') = Len(journal) + 1
        BY <1>4, <3>3 DEF Takes, JournalInv
      <4> QED BY <1>2, <3>1, <3>2, <4>1 DEF Follows
    <3>4. CASE exec'[v].pos = exec[v].pos
      BY <1>2, <3>1, <3>4
    <3> QED BY <3>2, <3>3, <3>4 DEF Follows
  <2>4. exec'[v] = exec[v] \/ exec'[v] = Fresh \/ ExecSteps(v)
    BY <1>4, FollowsStep, ChangedOne
  <2> QED BY <2>1, <2>2, <2>3, <2>4
<1> QED BY <1>1, <1>2, <1>3, <1>4 DEF JournalInv, Live

LEMMA GateNext ==
  ASSUME GraphInv, ExecInv, JournalInv, GateInv, ExecChanges, Records, UNCHANGED ctl
  PROVE  GateInv'
<1> DEFINE Behind(d, n) == \E j \in 1..Len(order) :
                             order[j] = n /\ (j < d.at \/ (j = d.at /\ d.k >= 2))
<1>1. /\ order' = order /\ Len(order) \in Nat
  BY GraphFacts DEF ctl
<1>2. ASSUME NEW v \in Workers, exec'[v].phase # "none", NEW i \in 1..exec'[v].pos,
             i \in DOMAIN journal', journal'[i].op.kind = "recv"
      PROVE  Behind(exec'[v], journal'[i].op.node)
  <2>1. Live(v) /\ i <= exec[v].pos => /\ i \in DOMAIN journal /\ journal'[i] = journal[i]
                                       /\ Behind(exec[v], journal[i].op.node)
    <3> SUFFICES ASSUME Live(v), i <= exec[v].pos
                 PROVE  /\ i \in DOMAIN journal /\ journal'[i] = journal[i]
                        /\ Behind(exec[v], journal[i].op.node)
      OBVIOUS
    <3>1. exec[v].pos \in Nat /\ exec'[v].pos \in Nat
      BY <1>2, StepOK DEF ExecInv, ExecOK
    <3>2. i \in 1..exec[v].pos
      BY <3>1
    <3>3. i \in DOMAIN journal /\ journal'[i] = journal[i]
      <4>1. CASE journal' = journal
        BY <1>2, <4>1
      <4>2. CASE Durable /\ \E x : journal' = Append(journal, x)
        <5>1. i \in 1..Len(journal)
          BY <3>1, <3>2, <4>2 DEF JournalInv
        <5> QED BY <4>2, <5>1 DEF JournalInv
      <4> QED BY <4>1, <4>2 DEF Records
    <3> QED BY <1>2, <3>2, <3>3 DEF GateInv
  <2>2. CASE exec'[v] = exec[v]
    <3>1. Live(v) /\ i <= exec[v].pos
      BY <1>2, <2>2 DEF Live
    <3> QED BY <2>1, <2>2, <3>1
  <2>3. CASE exec'[v] = Fresh
    <3>1. exec'[v].pos = 0
      BY <2>3, FreshOK
    <3> QED BY <1>2, <3>1
  <2>4. CASE ExecSteps(v)
    <3>1. Live(v) /\ ExecOK(exec[v])
      BY <2>4 DEF ExecSteps, ExecInv
    <3>2. Follows(v)
      BY <1>2, <2>4, FollowsStep
    <3>3. exec[v].pos \in Nat /\ exec[v].at \in Nat /\ exec[v].k \in Nat
      BY <3>1, <1>1 DEF ExecOK, Last
    <3>4. CASE i <= exec[v].pos
      <4>1. PICK j \in 1..Len(order) : /\ order[j] = journal'[i].op.node
                                       /\ j < exec[v].at \/ (j = exec[v].at /\ exec[v].k >= 2)
        BY <2>1, <3>1, <3>4
      <4>2. j < exec'[v].at \/ (j = exec'[v].at /\ exec'[v].k >= 2)
        <5>1. \/ exec'[v].at = exec[v].at /\ exec'[v].k \in {exec[v].k, exec[v].k + 1}
              \/ exec'[v].at = exec[v].at + 1 \/ exec'[v].at > exec[v].at
          BY <3>2 DEF Follows
        <5>2. exec'[v].at \in Nat
          BY <1>1, <1>2, StepOK DEF ExecOK, Last
        <5> QED BY <1>1, <3>3, <4>1, <5>1, <5>2
      <4> QED BY <4>1, <4>2
    <3>5. CASE ~ i <= exec[v].pos
      <4>1. /\ i = exec[v].pos + 1
            /\ (exec'[v].at = exec[v].at /\ exec'[v].k = exec[v].k + 1) \/ exec'[v].at > exec[v].at
            /\ \E o \in Outcome : Takes(v, o)
        <5>1. i \in 1..exec'[v].pos /\ exec'[v].pos \in {exec[v].pos, exec[v].pos + 1}
          BY <1>2, <3>2 DEF Follows
        <5>2. exec'[v].pos # exec[v].pos
          BY <3>3, <3>5, <5>1
        <5> QED BY <3>2, <3>3, <3>5, <5>1, <5>2 DEF Follows
      <4>2. NextOp(exec[v]) # NoOp /\ journal'[i].op = NextOp(exec[v])
        <5>1. PICK o \in Outcome : Takes(v, o)
          BY <4>1
        <5>2. CASE ~ Durable
          BY <1>2, <5>1, <5>2 DEF Takes, JournalInv
        <5>3. CASE Durable /\ journal' = journal
          BY <4>1, <5>1, <5>3, <3>1 DEF Takes, JournalInv
        <5>4. CASE Durable /\ journal' = Append(journal, [op |-> NextOp(exec[v]), out |-> o])
          <6>1. exec[v].pos = Len(journal) \/ journal' = journal
            BY <3>1, <3>3, <5>1, <5>4 DEF Takes, JournalInv
          <6> QED BY <4>1, <5>1, <5>3, <5>4, <6>1 DEF JournalInv, Takes
        <5> QED BY <5>1, <5>2, <5>3, <5>4 DEF Takes
      <4>3. exec[v].k = 1 /\ exec[v].at \in 1..Len(order) /\ journal'[i].op.node = order[exec[v].at]
        BY <1>2, <3>1, <4>2, ChildOp
      <4> QED BY <1>1, <4>1, <4>3
    <3> QED BY <3>4, <3>5
  <2>5. exec'[v] = exec[v] \/ exec'[v] = Fresh \/ ExecSteps(v)
    BY <1>2, ChangedOne
  <2> QED BY <2>2, <2>3, <2>4, <2>5
<1> QED BY <1>1, <1>2 DEF GateInv, Live

-----------------------------------------------------------------------------
(* The child runs, and how many of a map's are under way.                   *)

Pending == Out("pending", NoValue)

\* The child of the next operation, or of a map's next element, is started.
Starts(c) == child' = IF child[c] = NoOut THEN [child EXCEPT ![c] = Pending] ELSE child

ChildMoves ==
  \/ child' = child
  \/ \E w \in Workers : /\ Rephased(w) /\ Live(w)
                        /\ \E c \in ChildIds : graph.type[c[1]] # "map" /\ Starts(c)
  \/ \E w \in Workers : FanOut(w)
  \/ \E c \in ChildIds : ChildEnds(c)

LEMMA ChildrenMove ==
  ASSUME GraphInv, ExecInv, BusyInv, Next
  PROVE  ChildMoves
<1>1. ASSUME NEW w \in Workers, Begin(w) PROVE ChildMoves
  <2> DEFINE op == NextOp(exec[w])
             c == ChildId(op.node, op.i)
  <2>1. /\ Live(w) /\ op # NoOp
        /\ child' = IF op.kind = "child" /\ child[c] = NoOut THEN [child EXCEPT ![c] = Pending]
                                                             ELSE child
    BY <1>1 DEF Begin, Live, Pending
  <2>2. CASE op.kind # "child"
    BY <2>1, <2>2 DEF ChildMoves
  <2>3. CASE op.kind = "child"
    <3>1. ExecOK(exec[w])
      BY <2>1 DEF ExecInv
    <3>2. c \in ChildIds /\ graph.type[c[1]] # "map"
      BY <2>1, <2>3, <3>1, ChildOp DEF ChildId
    <3>3. Starts(c)
      BY <2>1, <2>3 DEF Starts
    <3>4. exec[w].begun = 0
      BY <2>1, <3>1, NextOpIs
    <3>5. exec' = [exec EXCEPT ![w] = [exec[w] EXCEPT !.phase = "busy"]] /\ "busy" \in Phases
      BY <1>1 DEF Begin, Phases
    <3>6. Changed(w, [exec[w] EXCEPT !.phase = "busy"])
      BY <3>5, InstallIs DEF ExecInv
    <3>7. Rephased(w)
      BY <2>1, <3>4, <3>5, <3>6 DEF Rephased
    <3> HIDE DEF c
    <3> QED BY <2>1, <3>2, <3>3, <3>7 DEF ChildMoves
  <2> QED BY <2>2, <2>3
<1>2. ASSUME NEW w \in Workers, Start(w) \/ Work(w) \/ Crash(w) \/ Stream(w) \/ Cancel(w)
                            \/ RequestFails(w)
      PROVE  ChildMoves
  BY <1>1, <1>2 DEF Work, Start, Inline, Replay, Write, Finish, StepFails, DirectWrite, Receive,
                    Join, End, Crash, Stream, Cancel, RequestFails, ChildMoves
<1>3. ASSUME NEW c \in Callers, ReadGate(c) \/ Answer(c) PROVE ChildMoves
  BY <1>3 DEF ReadGate, Answer, ChildMoves
<1>4. Sweep => ChildMoves
  BY DEF Sweep, ChildMoves
<1>5. (\E c \in ChildIds : ChildEnds(c)) => ChildMoves
  BY DEF ChildMoves
<1> QED BY <1>2, <1>3, <1>4, <1>5 DEF Next

\* The child a map starts, and that it is one of the map's.
LEMMA FanOutIs ==
  ASSUME GraphInv, ExecInv, NEW w \in Workers, FanOut(w), NEW n, n = order[exec[w].at],
         NEW c, c = ChildId(n, exec[w].begun)
  PROVE  /\ Live(w) /\ ExecOK(exec[w]) /\ n \in Composed /\ graph.type[n] = "map"
         /\ exec[w].begun \in 0..(graph.bound[n] - 1) /\ exec[w].at \in 1..Len(order)
         /\ c \in ChildIds /\ c[1] = n /\ Starts(c)
         /\ exec[w].begun - Cardinality(exec[w].joined) < graph.width[n]
<1>1. /\ Live(w) /\ exec[w].at \in 1..Len(order) /\ graph.type[n] = "map"
      /\ exec[w].begun < graph.bound[n] /\ Starts(c)
      /\ exec[w].begun - Cardinality(exec[w].joined) < graph.width[n]
  BY DEF FanOut, Live, Starts, Pending
<1>2. ExecOK(exec[w]) /\ n \in Nodes(graph)
  BY <1>1, GraphFacts DEF ExecInv
<1>3. n \in Composed
  BY <1>1, <1>2 DEF Composed
<1>4. exec[w].begun \in 0..(graph.bound[n] - 1)
  <2>1. exec[w].begun \in Nat
    BY <1>2 DEF ExecOK
  <2>2. graph.bound[n] \in Nat
    BY <1>2, GraphFacts
  <2> QED BY <1>1, <2>1, <2>2
<1>5. c \in ChildIds
  BY <1>3, <1>4, ChildIdsAre
<1> QED BY <1>1, <1>2, <1>3, <1>4, <1>5 DEF ChildId

LEMMA StartsIs ==
  ASSUME ChildInv, NEW c \in ChildIds, Starts(c)
  PROVE  /\ DOMAIN child' = ChildIds /\ child'[c].tag # "none"
         /\ \A d \in ChildIds : d # c => child'[d] = child[d]
         /\ \A d \in ChildIds : child[d].tag # "none" => child'[d] = child[d]
         /\ child'[c] \in {child[c], Pending}
<1>1. NoOut.tag = "none" /\ Pending.tag = "pending"
  BY DEF NoOut, Pending, Out
<1> QED BY <1>1 DEF Starts, ChildInv

LEMMA EndsIs ==
  ASSUME ChildInv, NEW c \in ChildIds, ChildEnds(c)
  PROVE  /\ DOMAIN child' = ChildIds /\ child[c].tag = "pending"
         /\ child'[c].tag \in {"ok", "failed"} /\ child'[c] \in Outcome
         /\ \A d \in ChildIds : d # c => child'[d] = child[d]
BY DEF ChildEnds, ChildInv, Out, Outcome, Known

\* A child that has been started stays started, one that has ended does not change.
LEMMA ChildrenGrow ==
  ASSUME GraphInv, ExecInv, ChildInv, ChildMoves
  PROVE  /\ DOMAIN child' = ChildIds
         /\ \A c \in ChildIds : /\ child[c].tag # "none" => child'[c].tag # "none"
                                /\ child[c].tag \in {"ok", "failed"} => child'[c] = child[c]
                                /\ \/ child'[c] \in {child[c], Pending}
                                   \/ child'[c].tag \in {"ok", "failed"} /\ child'[c] \in Outcome
<1>1. CASE child' = child
  BY <1>1 DEF ChildInv
<1>2. ASSUME NEW c \in ChildIds, Starts(c)
      PROVE  /\ DOMAIN child' = ChildIds
             /\ \A d \in ChildIds : /\ child[d].tag # "none" => child'[d].tag # "none"
                                    /\ child[d].tag \in {"ok", "failed"} => child'[d] = child[d]
                                    /\ child'[d] \in {child[d], Pending}
  BY <1>2, StartsIs
<1>3. ASSUME NEW w \in Workers, FanOut(w) PROVE \E c \in ChildIds : Starts(c)
  BY <1>3, FanOutIs
<1>4. ASSUME NEW c \in ChildIds, ChildEnds(c)
      PROVE  /\ DOMAIN child' = ChildIds
             /\ \A d \in ChildIds :
                  /\ child[d].tag # "none" => child'[d].tag # "none"
                  /\ child[d].tag \in {"ok", "failed"} => child'[d] = child[d]
                  /\ \/ child'[d] = child[d]
                     \/ child'[d].tag \in {"ok", "failed"} /\ child'[d] \in Outcome
  BY <1>4, EndsIs
<1> QED BY <1>1, <1>2, <1>3, <1>4 DEF ChildMoves

LEMMA ChildNext ==
  ASSUME GraphInv, ExecInv, ChildInv, ChildMoves, UNCHANGED ctl
  PROVE  ChildInv'
<1>1. ChildIds' = ChildIds /\ Outcome' = Outcome /\ Results1' = Results1 /\ NoOut' = NoOut
  BY DEF ctl, ChildIds, Composed, ChildId, Nodes, Outcome, Known, Results1, NoOut
<1>2. Pending.tag = "pending"
  BY DEF Pending, Out
<1> QED BY <1>1, <1>2, ChildrenGrow DEF ChildInv, Results1

\* What an execution has begun of a map after a step.
Keeps(v) == /\ Live(v) /\ exec'[v].begun = exec[v].begun /\ exec'[v].joined = exec[v].joined
            /\ exec'[v].at = exec[v].at

LEMMA BegunStep ==
  ASSUME GraphInv, ExecInv, ExecChanges, NEW v \in Workers, exec'[v].phase # "none"
  PROVE  Keeps(v) \/ exec'[v].begun = 0 \/ FanOut(v) \/ Joins(v)
<1>1. CASE exec'[v] = exec[v]
  BY <1>1 DEF Keeps, Live
<1>2. CASE exec'[v] = Fresh
  BY <1>2, FreshOK
<1>3. CASE ExecSteps(v)
  <2> DEFINE e == exec[v]
  <2>0. Live(v) /\ ExecOK(e)
    BY <1>3 DEF ExecSteps, ExecInv
  <2>1. CASE Leaves(v)
    BY <2>1 DEF Leaves, Changed, NoExec
  <2>2. CASE Rephased(v)
    BY <2>0, <2>2, PhaseOK DEF Rephased, Changed
  <2>3. CASE Passes(v)
    <3>1. PICK x : exec'[v] = Onward(e, x)
      BY <2>3 DEF Passes, Changed
    <3> QED BY <2>0, <3>1, OnwardIs DEF ExecOK
  <2>4. CASE Streams(v)
    BY <2>0, <2>4, StreamsOK DEF Streams, Changed, Keeps
  <2>5. ASSUME NEW o \in Outcome, Consumes(v, o) PROVE exec'[v].begun = 0
    <3>1. NextOp(e) # NoOp /\ exec'[v] = Consume(e, NextOp(e), o)
      BY <2>5 DEF Consumes, Takes, Changed
    <3> QED BY <2>0, <3>1, ConsumeIs
  <2> QED BY <1>3, <2>1, <2>2, <2>3, <2>4, <2>5 DEF ExecSteps
<1> QED BY <1>1, <1>2, <1>3, ChangedOne

LEMMA MapNext ==
  ASSUME GraphInv, ExecInv, ChildInv, MapInv, ExecChanges, ChildMoves, UNCHANGED ctl
  PROVE  MapInv'
<1> DEFINE Id(v, i) == ChildId(order[exec[v].at], i)
           Started(v) == \A i \in 0..(exec'[v].begun - 1) :
                           LET c == ChildId(order[exec'[v].at], i)
                           IN c \in ChildIds =>
                                /\ child'[c].tag # "none"
                                /\ i \in exec'[v].joined => child'[c].tag \in {"ok", "failed"}
<1>1. ASSUME NEW v \in Workers, exec'[v].phase # "none" PROVE Started(v)
  <2>1. CASE Keeps(v)
    BY <2>1, ChildrenGrow DEF Keeps, MapInv
  <2>2. CASE exec'[v].begun = 0
    BY <2>2
  <2>3. CASE FanOut(v)
    <3>1. PICK n, c : /\ n = order[exec[v].at] /\ c = ChildId(n, exec[v].begun)
      OBVIOUS
    <3>2. Live(v) /\ ExecOK(exec[v]) /\ c \in ChildIds /\ Starts(c)
      BY <2>3, <3>1, FanOutIs
    <3>3. /\ exec'[v].begun = exec[v].begun + 1 /\ exec'[v].joined = exec[v].joined
          /\ exec'[v].at = exec[v].at
      BY <2>3, <3>2 DEF FanOut, ExecInv, ExecOK, Fields
    <3>4. exec[v].begun \in Nat /\ exec[v].joined \subseteq 0..(exec[v].begun - 1)
      BY <3>2 DEF ExecOK
    <3>5. child'[c].tag # "none"
      BY <3>2, StartsIs
    <3>6. ASSUME NEW i \in 0..(exec'[v].begun - 1), ChildId(n, i) \in ChildIds
          PROVE  /\ child'[ChildId(n, i)].tag # "none"
                 /\ i \in exec'[v].joined => child'[ChildId(n, i)].tag \in {"ok", "failed"}
      <4>1. CASE i = exec[v].begun
        BY <3>1, <3>3, <3>4, <3>5, <4>1
      <4>2. CASE i \in 0..(exec[v].begun - 1)
        <5>1. /\ child[ChildId(n, i)].tag # "none"
              /\ i \in exec[v].joined => child[ChildId(n, i)].tag \in {"ok", "failed"}
          BY <3>1, <3>2, <3>6, <4>2 DEF MapInv
        <5> QED BY <3>3, <3>6, <5>1, ChildrenGrow
      <4> QED BY <3>3, <3>4, <3>6, <4>1, <4>2
    <3> QED BY <3>1, <3>3, <3>6
  <2>4. CASE Joins(v)
    <3>1. PICK j \in 0..(exec[v].begun - 1) :
            /\ child[Id(v, j)].tag \in {"ok", "failed"}
            /\ Changed(v, [exec[v] EXCEPT !.joined = @ \cup {j}])
      BY <2>4 DEF Joins
    <3>2. ExecOK(exec[v]) /\ Live(v)
      BY <2>4 DEF Joins, ExecInv, Live
    <3>3. /\ exec'[v].begun = exec[v].begun /\ exec'[v].joined = exec[v].joined \cup {j}
          /\ exec'[v].at = exec[v].at /\ child' = child
      BY <2>4, <3>1, <3>2 DEF Joins, Changed, ExecOK, Fields
    <3> QED BY <3>1, <3>2, <3>3 DEF MapInv
  <2> QED BY <1>1, <2>1, <2>2, <2>3, <2>4, BegunStep
<1>2. ASSUME NEW n \in Composed, graph.type[n] = "map",
             NEW i \in 0..(graph.bound[n] - 1), NEW j \in 0..(graph.bound[n] - 1),
             j < i, child'[ChildId(n, i)].tag # "none"
      PROVE  child'[ChildId(n, j)].tag # "none"
  <2>1. ChildId(n, i) \in ChildIds /\ ChildId(n, j) \in ChildIds
    BY ChildIdsAre
  <2>2. CASE child[ChildId(n, i)].tag # "none"
    BY <1>2, <2>1, <2>2, ChildrenGrow DEF MapInv
  <2>3. CASE child[ChildId(n, i)].tag = "none"
    <3>1. PICK w \in Workers : FanOut(w) /\ ChildId(n, i) = ChildId(order[exec[w].at], exec[w].begun)
      <4>1. child' # child
        BY <1>2, <2>3
      <4>2. ASSUME NEW c \in ChildIds, Starts(c) PROVE c = ChildId(n, i)
        BY <1>2, <2>1, <2>3, <4>2, StartsIs
      <4>3. ASSUME NEW c \in ChildIds, ChildEnds(c) PROVE FALSE
        BY <1>2, <2>1, <2>3, <4>3, EndsIs
      <4>4. ASSUME NEW c \in ChildIds, graph.type[c[1]] # "map", Starts(c) PROVE FALSE
        BY <1>2, <4>2, <4>4 DEF ChildId
      <4>5. PICK w \in Workers : FanOut(w)
        BY <4>1, <4>3, <4>4 DEF ChildMoves
      <4>6. \E c \in ChildIds : c = ChildId(order[exec[w].at], exec[w].begun) /\ Starts(c)
        BY <4>5, FanOutIs
      <4> QED BY <4>2, <4>5, <4>6
    <3>2. n = order[exec[w].at] /\ i = exec[w].begun
      BY <3>1 DEF ChildId
    <3>3. Live(w) /\ ExecOK(exec[w])
      BY <3>1, FanOutIs
    <3>4. j \in 0..(exec[w].begun - 1)
      BY <1>2, <3>2
    <3>5. child[ChildId(n, j)].tag # "none"
      BY <2>1, <3>2, <3>3, <3>4 DEF MapInv
    <3> QED BY <2>1, <3>5, ChildrenGrow
  <2> QED BY <2>2, <2>3
<1>3. Composed' = Composed /\ ChildIds' = ChildIds /\ graph' = graph /\ order' = order
  BY DEF ctl, ChildIds, Composed, ChildId, Nodes
<1> QED BY <1>1, <1>2, <1>3 DEF MapInv, Live, ChildId

\* The children of n that are under way.
UnderWay(n) == {c \in ChildIds : c[1] = n /\ child[c].tag = "pending"}

LEMMA ImageOf ==
  ASSUME NEW S, IsFiniteSet(S), NEW n, NEW T, T \subseteq {ChildId(n, i) : i \in S}
  PROVE  IsFiniteSet(T) /\ Cardinality(T) <= Cardinality(S)
<1> DEFINE U == {ChildId(n, i) : i \in S}
           f == [i \in S |-> ChildId(n, i)]
<1>1. f \in Surjection(S, U)
  BY DEF Surjection
<1>2. IsFiniteSet(U) /\ Cardinality(U) <= Cardinality(S)
  BY <1>1, FS_Surjection
<1>3. IsFiniteSet(T) /\ Cardinality(T) <= Cardinality(U)
  BY <1>2, FS_Subset
<1> QED BY <1>2, <1>3, FS_CardinalityType

LEMMA UnderWayFinite ==
  ASSUME GraphInv, NEW n \in Composed
  PROVE  IsFiniteSet({c \in ChildIds : c[1] = n})
<1>1. graph.bound[n] \in Nat
  BY GraphFacts DEF Composed
<1>2. IsFiniteSet(0..(graph.bound[n] - 1))
  BY <1>1, FS_Interval
<1>3. {c \in ChildIds : c[1] = n} \subseteq {ChildId(n, i) : i \in 0..(graph.bound[n] - 1)}
  BY DEF ChildIds, ChildId
<1> QED BY <1>2, <1>3, ImageOf

\* A map's next child is started: what is under way are elements that were begun and
\* not joined, and that one.
LEMMA FanOutBounded ==
  ASSUME GraphInv, ExecInv, ChildInv, MapInv, NEW w \in Workers, FanOut(w),
         NEW n, n = order[exec[w].at], child[ChildId(n, exec[w].begun)].tag = "none",
         UNCHANGED ctl
  PROVE  Cardinality(UnderWay(n)') <= graph.width[n]
<1> DEFINE b == exec[w].begun
           J == exec[w].joined
           c == ChildId(n, b)
<1>1. /\ Live(w) /\ ExecOK(exec[w]) /\ n \in Composed /\ graph.type[n] = "map"
      /\ b \in 0..(graph.bound[n] - 1) /\ c \in ChildIds /\ Starts(c)
      /\ b - Cardinality(J) < graph.width[n]
  BY FanOutIs
<1>2. b \in Nat /\ J \subseteq 0..(b - 1) /\ graph.width[n] \in Nat /\ graph.bound[n] \in Nat
  BY <1>1, GraphFacts DEF ExecOK, Composed
<1>3. UnderWay(n)' \subseteq {ChildId(n, i) : i \in (0..b) \ J}
  <2> SUFFICES ASSUME NEW d \in ChildIds, d[1] = n, child'[d].tag = "pending"
               PROVE  \E i \in (0..b) \ J : d = ChildId(n, i)
    <3>1. ChildIds' = ChildIds
      BY DEF ctl, ChildIds, Composed, ChildId, Nodes
    <3> QED BY <3>1 DEF UnderWay
  <2>1. PICK i \in 0..(graph.bound[n] - 1) : d = ChildId(n, i)
    BY DEF ChildIds, ChildId
  <2>2. CASE d = c
    <3>1. b \in (0..b) \ J
      BY <1>2
    <3> QED BY <2>2, <3>1
  <2>3. CASE d # c
    <3>1. child[d].tag = "pending"
      BY <1>1, <2>3, StartsIs
    <3>2. i <= b
      <4>1. CASE b < i
        <5>1. child[c].tag # "none"
          BY <1>1, <2>1, <3>1, <4>1 DEF MapInv
        <5> QED BY <5>1
      <4> QED BY <1>2, <4>1
    <3>3. i # b
      BY <2>1, <2>3
    <3>4. i \in 0..(b - 1)
      BY <1>2, <3>2, <3>3
    <3>5. i \notin J
      BY <1>1, <2>1, <3>1, <3>4 DEF MapInv
    <3> QED BY <1>2, <2>1, <3>2, <3>5
  <2> QED BY <2>2, <2>3
<1>4. /\ IsFiniteSet((0..b) \ J) /\ IsFiniteSet(J)
      /\ Cardinality((0..b) \ J) + Cardinality(J) = b + 1
      /\ Cardinality((0..b) \ J) \in Nat /\ Cardinality(J) \in Nat
  <2>1. IsFiniteSet(0..b) /\ Cardinality(0..b) = b + 1
    <3>1. 0 \in Int /\ b \in Int /\ ~ 0 > b /\ b - 0 + 1 = b + 1
      BY <1>2
    <3> HIDE DEF b
    <3> QED BY <3>1, FS_Interval
  <2>2. J \subseteq 0..b
    BY <1>2
  <2>3. IsFiniteSet((0..b) \ J) /\ IsFiniteSet(J)
    BY <2>1, <2>2, FS_Subset
  <2>4. ((0..b) \ J) \cup J = 0..b /\ ((0..b) \ J) \cap J = {}
    BY <2>2
  <2>5. Cardinality(0..b) = Cardinality((0..b) \ J) + Cardinality(J) - Cardinality({})
    <3>1. PICK S : S = (0..b) \ J
      OBVIOUS
    <3>2. Cardinality(S \cup J) = Cardinality(S) + Cardinality(J) - Cardinality(S \cap J)
      BY <2>3, <3>1, FS_Union
    <3> QED BY <2>4, <3>1, <3>2
  <2> QED BY <2>1, <2>3, <2>5, FS_EmptySet, FS_CardinalityType
<1>5. Cardinality(UnderWay(n)') <= Cardinality((0..b) \ J)
      /\ IsFiniteSet(UnderWay(n)')
  BY <1>3, <1>4, ImageOf
<1>6. Cardinality(UnderWay(n)') \in Nat
  BY <1>5, FS_CardinalityType
<1>7. graph.width[n] \in Nat /\ b - Cardinality(J) < graph.width[n]
  BY <1>1, <1>2
<1>8. Cardinality((0..b) \ J) <= graph.width[n]
  <2> HIDE DEF b, J
  <2> QED BY <1>2, <1>4, <1>7
<1> HIDE DEF b, J
<1> QED BY <1>4, <1>5, <1>6, <1>7, <1>8

LEMMA BoundNext ==
  ASSUME GraphInv, ExecInv, ChildInv, MapInv, MapBounded, ExecChanges, ChildMoves, UNCHANGED ctl
  PROVE  MapBounded'
<1>1. Composed' = Composed /\ ChildIds' = ChildIds /\ graph' = graph
  BY DEF ctl, ChildIds, Composed, ChildId, Nodes
<1>2. SUFFICES ASSUME NEW n \in Composed, graph.type[n] = "map"
               PROVE  Cardinality(UnderWay(n)') <= graph.width[n]
  BY <1>1, <1>2 DEF MapBounded, UnderWay
<1>3. IsFiniteSet(UnderWay(n)) /\ Cardinality(UnderWay(n)) \in Nat /\ graph.width[n] \in Nat
  <2>1. UnderWay(n) \subseteq {c \in ChildIds : c[1] = n}
    BY DEF UnderWay
  <2>2. IsFiniteSet(UnderWay(n))
    BY <2>1, UnderWayFinite, FS_Subset
  <2> QED BY <2>2, FS_CardinalityType, GraphFacts DEF Composed
<1>4. Cardinality(UnderWay(n)) <= graph.width[n]
  BY <1>2 DEF MapBounded, UnderWay
<1>5. ASSUME \A c \in ChildIds : c[1] = n /\ child'[c].tag = "pending" => child[c].tag = "pending"
      PROVE  Cardinality(UnderWay(n)') <= graph.width[n]
  <2>1. UnderWay(n)' \subseteq UnderWay(n)
    BY <1>1, <1>5 DEF UnderWay
  <2>2. IsFiniteSet(UnderWay(n)') /\ Cardinality(UnderWay(n)') <= Cardinality(UnderWay(n))
    BY <1>3, <2>1, FS_Subset
  <2>3. Cardinality(UnderWay(n)') \in Nat
    BY <2>2, FS_CardinalityType
  <2> QED BY <1>3, <1>4, <2>2, <2>3
<1>6. CASE child' = child
  BY <1>5, <1>6
<1>7. ASSUME NEW c \in ChildIds, graph.type[c[1]] # "map", Starts(c)
      PROVE  Cardinality(UnderWay(n)') <= graph.width[n]
  BY <1>2, <1>5, <1>7, StartsIs
<1>8. ASSUME NEW w \in Workers, FanOut(w)
      PROVE  Cardinality(UnderWay(n)') <= graph.width[n]
  <2>1. PICK m, c : m = order[exec[w].at] /\ c = ChildId(m, exec[w].begun)
    OBVIOUS
  <2>2. c \in ChildIds /\ c[1] = m /\ Starts(c)
    BY <1>8, <2>1, FanOutIs
  <2>3. CASE child[c].tag # "none"
    <3>1. \A d \in ChildIds : child'[d] = child[d]
      BY <2>2, <2>3, StartsIs
    <3> QED BY <1>5, <3>1
  <2>4. CASE m # n
    <3>1. \A d \in ChildIds : d[1] = n => child'[d] = child[d]
      BY <2>2, <2>4, StartsIs
    <3> QED BY <1>5, <3>1
  <2>5. CASE m = n /\ child[c].tag = "none"
    BY <1>8, <2>1, <2>5, FanOutBounded
  <2> QED BY <2>3, <2>4, <2>5
<1>9. ASSUME NEW c \in ChildIds, ChildEnds(c)
      PROVE  Cardinality(UnderWay(n)') <= graph.width[n]
  BY <1>5, <1>9, EndsIs
<1> QED BY <1>6, <1>7, <1>8, <1>9 DEF ChildMoves

-----------------------------------------------------------------------------
(* The answers to the gates, and the row.                                   *)

\* Only a durable run has gates; no gate is number 0.
LEMMA GatesAre ==
  ASSUME GraphInv
  PROVE  0 \notin Gates /\ (Gates # {} => Durable)
BY GraphFacts DEF Gates, GraphInv, DurableOnly

LEMMA JournalGrows ==
  ASSUME JournalInv, Records
  PROVE  \A i \in DOMAIN journal : i \in DOMAIN journal' /\ journal'[i] = journal[i]
<1>1. CASE journal' = journal
  BY <1>1
<1>2. ASSUME NEW x, journal' = Append(journal, x)
      PROVE  \A i \in DOMAIN journal : i \in DOMAIN journal' /\ journal'[i] = journal[i]
  BY <1>2 DEF JournalInv
<1> QED BY <1>1, <1>2 DEF Records

\* Who waits for an answer at the end of the journal has none of its gate behind it.
LEMMA NotYet ==
  ASSUME GraphInv, ExecInv, JournalInv, GateInv, NEW w \in Workers, Live(w),
         NEW op, op = NextOp(exec[w]), op.kind = "recv", exec[w].pos = Len(journal)
  PROVE  \A i \in DOMAIN journal : journal[i].op.kind = "recv" => journal[i].op.node # op.node
<1>1. op # NoOp /\ ExecOK(exec[w])
  BY DEF NoOp, Op, ExecInv
<1>2. /\ exec[w].k = 1 /\ exec[w].at \in 1..Len(order) /\ op.node = order[exec[w].at]
  BY <1>1, ChildOp
<1> SUFFICES ASSUME NEW i \in DOMAIN journal, journal[i].op.kind = "recv",
                    journal[i].op.node = op.node
             PROVE  FALSE
  OBVIOUS
<1>3. i \in 1..exec[w].pos
  BY DEF JournalInv
<1>4. PICK j \in 1..Len(order) : /\ order[j] = op.node
                                 /\ j < exec[w].at \/ (j = exec[w].at /\ exec[w].k >= 2)
  BY <1>3 DEF GateInv
<1>5. j = exec[w].at
  BY <1>2, <1>4, GraphFacts
<1> QED BY <1>2, <1>4, <1>5

\* The three steps that touch the mailbox or a caller.
Uses(w) ==
  LET n == NextOp(exec[w]).node
  IN /\ Live(w) /\ NextOp(exec[w]).kind = "recv" /\ exec[w].pos = Len(journal)
     /\ mail[n] # <<>>
     /\ \E o \in Outcome : journal' = Append(journal, [op |-> NextOp(exec[w]), out |-> o])
     /\ caller' = [caller EXCEPT ![Head(mail[n])].used = n]
     /\ mail' = [mail EXCEPT ![n] = Tail(@)]

LEMMA MailMoves ==
  ASSUME GraphInv, ExecInv, Next
  PROVE  \/ UNCHANGED <<mail, caller>>
         \/ \E c \in Callers : ReadGate(c) \/ Answer(c)
         \/ \E w \in Workers : Uses(w)
<1>1. ASSUME NEW w \in Workers, Receive(w) PROVE UNCHANGED <<mail, caller>> \/ Uses(w)
  <2> DEFINE op == NextOp(exec[w])
  <2>1. /\ Live(w) /\ op.kind = "recv"
        /\ \/ UNCHANGED <<mail, caller>>
           \/ /\ mail[op.node] # <<>> /\ exec[w].pos = Len(journal)
              /\ \E v \in graph.values : Commit(w, op, Out("answer", v))
              /\ caller' = [caller EXCEPT ![Head(mail[op.node])].used = op.node]
              /\ mail' = [mail EXCEPT ![op.node] = Tail(@)]
    BY <1>1 DEF Receive, Live, Topic
  <2>2. ASSUME NEW v \in graph.values, Commit(w, op, Out("answer", v)), exec[w].pos = Len(journal)
        PROVE  journal' = Append(journal, [op |-> op, out |-> Out("answer", v)])
    <3>1. op # NoOp /\ ExecOK(exec[w])
      BY <2>1 DEF NoOp, Op, ExecInv
    <3>2. op.node \in Gates
      BY <2>1, <3>1, ChildOp
    <3>3. Durable
      BY <3>2, GatesAre
    <3>4. ~ exec[w].pos < Len(journal)
      BY <2>2, <3>1 DEF ExecOK
    <3> HIDE DEF op
    <3> QED BY <2>2, <3>3, <3>4 DEF Commit
  <2>3. \A v \in graph.values : Out("answer", v) \in Outcome
    BY DEF Out, Outcome, Known
  <2> QED BY <2>1, <2>2, <2>3 DEF Uses
<1>2. ASSUME NEW w \in Workers, Start(w) \/ Work(w) \/ Crash(w) \/ Stream(w) \/ Cancel(w)
                            \/ RequestFails(w)
      PROVE  UNCHANGED <<mail, caller>> \/ Uses(w)
  BY <1>1, <1>2 DEF Work, Start, Inline, Replay, Begin, Write, Finish, StepFails, DirectWrite,
                    FanOut, Join, End, Crash, Stream, Cancel, RequestFails
<1>3. (\E c \in ChildIds : ChildEnds(c)) \/ Sweep => UNCHANGED <<mail, caller>>
  BY DEF ChildEnds, Sweep
<1> QED BY <1>2, <1>3 DEF Next

\* What a use of an answer finds: the head of the gate's mailbox, unused.
LEMMA EntryAppended ==
  ASSUME NEW S, NEW h \in Seq(S), NEW e
  PROVE  Len(h) + 1 \in DOMAIN Append(h, e) /\ Append(h, e)[Len(h) + 1] = e
OBVIOUS

LEMMA UsesIs ==
  ASSUME GraphInv, ExecInv, JournalInv, GateInv, MailInv, NEW w \in Workers, Uses(w),
         NEW n, n = NextOp(exec[w]).node
  PROVE  /\ n \in Gates /\ 1 \in DOMAIN mail[n] /\ Head(mail[n]) = mail[n][1]
         /\ mail[n][1] \in Callers /\ caller[mail[n][1]].saw = n
         /\ \A c \in Callers : caller[c].used # n
         /\ Len(journal) + 1 \in DOMAIN journal'
         /\ journal'[Len(journal) + 1].op = NextOp(exec[w])
<1>1. NextOp(exec[w]) # NoOp /\ ExecOK(exec[w])
  BY DEF Uses, NoOp, Op, ExecInv
<1>2. n \in Gates
  BY <1>1, ChildOp DEF Uses
<1>3. mail[n] \in Seq(Callers) /\ mail[n] # <<>>
  BY <1>2 DEF Uses, MailInv
<1>4. 1 \in DOMAIN mail[n] /\ Head(mail[n]) = mail[n][1] /\ mail[n][1] \in Callers
  BY <1>3
<1>5. caller[mail[n][1]].saw = n
  BY <1>2, <1>4 DEF MailInv
<1>6. \A c \in Callers : caller[c].used # n
  <2>1. n # 0
    BY <1>2, GatesAre
  <2>2. \A i \in DOMAIN journal : journal[i].op.kind = "recv" => journal[i].op.node # n
    BY NotYet DEF Uses
  <2> QED BY <2>1, <2>2 DEF MailInv
<1>7. /\ Len(journal) + 1 \in DOMAIN journal'
      /\ journal'[Len(journal) + 1].op = NextOp(exec[w])
  <2>1. PICK e : journal' = Append(journal, e) /\ e.op = NextOp(exec[w])
    BY DEF Uses
  <2>2. journal \in Seq(Entry)
    BY DEF JournalInv
  <2> QED BY <2>1, <2>2, EntryAppended
<1> QED BY <1>2, <1>4, <1>5, <1>6, <1>7

LEMMA AnswersNext ==
  ASSUME GraphInv, ExecInv, JournalInv, GateInv, MailInv, GateTakesOneAnswer, Next
  PROVE  GateTakesOneAnswer'
<1>1. CASE UNCHANGED <<mail, caller>>
  BY <1>1 DEF GateTakesOneAnswer
<1>2. ASSUME NEW c \in Callers, ReadGate(c) \/ Answer(c) PROVE GateTakesOneAnswer'
  <2>1. \A d \in Callers : /\ caller'[d].used = caller[d].used
                           /\ caller[d].used # 0 => caller'[d].saw = caller[d].saw
    BY <1>2 DEF ReadGate, Answer, MailInv
  <2> QED BY <2>1 DEF GateTakesOneAnswer
<1>3. ASSUME NEW w \in Workers, Uses(w) PROVE GateTakesOneAnswer'
  <2>1. PICK n, c : n = NextOp(exec[w]).node /\ c = mail[n][1]
    OBVIOUS
  <2>2. /\ c \in Callers /\ caller[c].saw = n /\ \A d \in Callers : caller[d].used # n
        /\ caller' = [caller EXCEPT ![c].used = n]
    BY <1>3, <2>1, UsesIs DEF Uses
  <2>3. /\ caller'[c].used = n /\ caller'[c].saw = n
        /\ \A d \in Callers \ {c} : caller'[d] = caller[d]
    BY <2>2 DEF MailInv
  <2> QED BY <2>2, <2>3 DEF GateTakesOneAnswer
<1> QED BY <1>1, <1>2, <1>3, MailMoves

\* Where the answers are after a step that reads a gate, sends or uses one.
LEMMA SentOnce ==
  ASSUME GraphInv, MailInv, NEW c \in Callers, Answer(c)
  PROVE  /\ caller[c].saw \in Gates
         /\ \A n \in Gates : \A i \in DOMAIN mail[n] : mail[n][i] # c
         /\ DOMAIN mail' = Gates /\ DOMAIN caller' = Callers
         /\ mail'[caller[c].saw] = Append(mail[caller[c].saw], c)
         /\ \A n \in Gates \ {caller[c].saw} : mail'[n] = mail[n]
         /\ \A d \in Callers \ {c} : caller'[d] = caller[d]
         /\ DOMAIN caller'[c] = {"saw", "sent", "used"}
         /\ caller'[c].sent = TRUE /\ caller'[c].saw = caller[c].saw
         /\ caller'[c].used = caller[c].used /\ caller[c].used = 0
<1>1. /\ caller[c].saw \in Gates /\ ~ caller[c].sent /\ caller[c].used = 0
      /\ DOMAIN caller[c] = {"saw", "sent", "used"}
  BY DEF Answer, MailInv
<1>2. \A n \in Gates : \A i \in DOMAIN mail[n] : mail[n][i] # c
  BY <1>1 DEF MailInv
<1>3. /\ DOMAIN mail' = Gates /\ mail'[caller[c].saw] = Append(mail[caller[c].saw], c)
      /\ \A n \in Gates \ {caller[c].saw} : mail'[n] = mail[n]
  BY <1>1 DEF Answer, MailInv, Topic
<1>4. /\ DOMAIN caller' = Callers /\ \A d \in Callers \ {c} : caller'[d] = caller[d]
      /\ caller'[c] = [caller[c] EXCEPT !.sent = TRUE]
  BY DEF Answer, MailInv
<1> QED BY <1>1, <1>2, <1>3, <1>4

\* A mailbox with an answer of its gate that nobody else sent.
GoodMail(n, m, k) ==
  /\ m \in Seq(Callers)
  /\ \A i \in DOMAIN m : /\ k[m[i]].saw = n /\ k[m[i]].sent /\ k[m[i]].used = 0
                         /\ \A j \in DOMAIN m : m[i] = m[j] => i = j

GoodCaller(k, h) ==
  /\ DOMAIN k = {"saw", "sent", "used"}
  /\ k.used # 0 => /\ k.sent
                   /\ \E i \in DOMAIN h : h[i].op.kind = "recv" /\ h[i].op.node = k.used
  /\ k.saw \in Gates \cup {0} /\ k.sent \in BOOLEAN
  /\ k.sent => k.saw # 0

LEMMA MailNext ==
  ASSUME GraphInv, ExecInv, JournalInv, GateInv, MailInv, RowInv, Next, Records, UNCHANGED ctl
  PROVE  MailInv'
<1>0. Gates' = Gates
  BY DEF Gates, Nodes, ctl
<1> SUFFICES /\ DOMAIN mail' = Gates /\ DOMAIN caller' = Callers
             /\ \A n \in Gates : GoodMail(n, mail'[n], caller')
             /\ \A c \in Callers : GoodCaller(caller'[c], journal')
  BY <1>0 DEF MailInv, GoodMail, GoodCaller
<1>1. /\ DOMAIN mail = Gates /\ DOMAIN caller = Callers
      /\ \A n \in Gates : GoodMail(n, mail[n], caller)
      /\ \A c \in Callers : GoodCaller(caller[c], journal)
  BY DEF MailInv, GoodMail, GoodCaller
<1>2. \A k : GoodCaller(k, journal) => GoodCaller(k, journal')
  BY JournalGrows DEF GoodCaller
<1>3. CASE UNCHANGED <<mail, caller>>
  BY <1>1, <1>2, <1>3
<1>4. ASSUME NEW c \in Callers, ReadGate(c)
      PROVE  /\ DOMAIN mail' = Gates /\ DOMAIN caller' = Callers
             /\ \A n \in Gates : GoodMail(n, mail'[n], caller')
             /\ \A d \in Callers : GoodCaller(caller'[d], journal')
  <2>1. /\ mail' = mail /\ DOMAIN caller' = Callers /\ caller[c].saw = 0
        /\ \A d \in Callers \ {c} : caller'[d] = caller[d]
        /\ caller'[c] = [caller[c] EXCEPT !.saw = row.at] /\ row.at \in Gates
    BY <1>1, <1>4, GatesAre DEF ReadGate, RowInv
  <2>2. ~ caller[c].sent /\ caller[c].used = 0
    BY <1>1, <2>1 DEF GoodCaller
  <2>3. GoodCaller(caller'[c], journal)
    BY <1>1, <2>1, <2>2, GatesAre DEF GoodCaller
  <2>4. \A n \in Gates : GoodMail(n, mail[n], caller')
    BY <1>1, <2>1, <2>2 DEF GoodMail
  <2> QED BY <1>1, <1>2, <2>1, <2>3, <2>4
<1>5. ASSUME NEW c \in Callers, Answer(c)
      PROVE  /\ DOMAIN mail' = Gates /\ DOMAIN caller' = Callers
             /\ \A n \in Gates : GoodMail(n, mail'[n], caller')
             /\ \A d \in Callers : GoodCaller(caller'[d], journal')
  <2> DEFINE g == caller[c].saw
  <2>1. g \in Gates /\ GoodMail(g, mail[g], caller) /\ mail'[g] = Append(mail[g], c)
    BY <1>1, <1>5, SentOnce
  <2>2. \A n \in Gates : \A i \in DOMAIN mail[n] : mail[n][i] # c
    BY <1>5, SentOnce
  <2>3. /\ caller'[c].saw = g /\ caller'[c].sent /\ caller'[c].used = 0
        /\ \A d \in Callers \ {c} : caller'[d] = caller[d]
    BY <1>5, SentOnce
  <2>4. ASSUME NEW n \in Gates \ {g} PROVE GoodMail(n, mail'[n], caller')
    <3>1. mail'[n] = mail[n]
      BY <1>5, SentOnce
    <3> QED BY <1>1, <2>2, <2>3, <3>1 DEF GoodMail
  <2>5. GoodMail(g, mail'[g], caller')
    <3> DEFINE m == mail[g]
               l == mail'[g]
    <3>1. m \in Seq(Callers) /\ l = Append(m, c) /\ \A i \in DOMAIN m : m[i] # c
      BY <2>1, <2>2 DEF GoodMail
    <3>2. /\ l \in Seq(Callers) /\ Len(m) \in Nat /\ DOMAIN m = 1..Len(m)
          /\ DOMAIN l = 1..(Len(m) + 1) /\ l[Len(m) + 1] = c
          /\ \A i \in 1..Len(m) : l[i] = m[i]
      BY <3>1
    <3>3. \A i \in 1..Len(m) : /\ m[i] \in Callers
                               /\ caller[m[i]].saw = g /\ caller[m[i]].sent
                               /\ caller[m[i]].used = 0
                               /\ \A j \in 1..Len(m) : m[i] = m[j] => i = j
      <4>1. GoodMail(g, m, caller)
        BY <2>1
      <4> HIDE DEF m, g
      <4> QED BY <3>1, <3>2, <4>1 DEF GoodMail
    <3> HIDE DEF m, l, g
    <3>4. \A i \in DOMAIN l : caller'[l[i]].saw = g /\ caller'[l[i]].sent /\ caller'[l[i]].used = 0
      BY <2>3, <3>1, <3>2, <3>3
    <3>5. \A i, j \in DOMAIN l : l[i] = l[j] => i = j
      BY <3>1, <3>2, <3>3
    <3> QED BY <3>2, <3>4, <3>5 DEF GoodMail, l
  <2>6. GoodCaller(caller'[c], journal)
    BY <1>1, <1>5, <2>1, <2>3, SentOnce, GatesAre DEF GoodCaller
  <2> QED BY <1>1, <1>2, <1>5, <2>3, <2>4, <2>5, <2>6, SentOnce
<1>6. ASSUME NEW w \in Workers, Uses(w)
      PROVE  /\ DOMAIN mail' = Gates /\ DOMAIN caller' = Callers
             /\ \A n \in Gates : GoodMail(n, mail'[n], caller')
             /\ \A d \in Callers : GoodCaller(caller'[d], journal')
  <2>1. PICK n, c : n = NextOp(exec[w]).node /\ c = mail[n][1]
    OBVIOUS
  <2>2. /\ n \in Gates /\ c \in Callers /\ 1 \in DOMAIN mail[n] /\ GoodMail(n, mail[n], caller)
        /\ caller' = [caller EXCEPT ![c].used = n]
        /\ mail' = [mail EXCEPT ![n] = Tail(@)]
    BY <1>1, <1>6, <2>1, UsesIs DEF Uses
  <2>3. \E i \in DOMAIN journal' : journal'[i].op.kind = "recv" /\ journal'[i].op.node = n
    BY <1>6, <2>1, UsesIs DEF Uses
  <2>4. /\ DOMAIN mail' = Gates /\ DOMAIN caller' = Callers
        /\ mail'[n] = Tail(mail[n]) /\ \A m \in Gates \ {n} : mail'[m] = mail[m]
        /\ \A d \in Callers \ {c} : caller'[d] = caller[d]
        /\ caller'[c] = [caller[c] EXCEPT !.used = n]
    BY <1>1, <2>2
  <2>5. caller[c].saw = n /\ caller[c].sent
    BY <2>1, <2>2 DEF GoodMail
  <2>6. ASSUME NEW m \in Gates \ {n} PROVE GoodMail(m, mail'[m], caller')
    <3>1. \A i \in DOMAIN mail[m] : mail[m][i] # c
      BY <1>1, <2>5 DEF GoodMail
    <3> QED BY <1>1, <2>4, <3>1 DEF GoodMail
  <2>7. GoodMail(n, mail'[n], caller')
    <3>1. PICK m, l : m = mail[n] /\ l = mail'[n]
      OBVIOUS
    <3>2. m \in Seq(Callers) /\ m # <<>> /\ l = Tail(m) /\ c = m[1]
      <4>1. m \in Seq(Callers)
        BY <2>2, <3>1 DEF GoodMail
      <4>2. 1 \in DOMAIN m /\ c = m[1] /\ l = Tail(m)
        BY <2>1, <2>2, <2>4, <3>1
      <4> QED BY <4>1, <4>2
    <3>3. /\ l \in Seq(Callers) /\ Len(m) \in Nat \ {0} /\ DOMAIN m = 1..Len(m)
          /\ DOMAIN l = 1..(Len(m) - 1)
          /\ \A i \in 1..(Len(m) - 1) : l[i] = m[i + 1]
      BY <3>2
    <3>4. \A i \in 1..Len(m) : /\ caller[m[i]].saw = n /\ caller[m[i]].sent
                               /\ caller[m[i]].used = 0 /\ m[i] \in Callers
                               /\ \A j \in 1..Len(m) : m[i] = m[j] => i = j
      BY <2>2, <3>1, <3>3 DEF GoodMail
    <3>5. \A i \in DOMAIN l : l[i] \in Callers \ {c}
      BY <3>2, <3>3, <3>4
    <3>6. \A i \in DOMAIN l : caller'[l[i]].saw = n /\ caller'[l[i]].sent /\ caller'[l[i]].used = 0
      BY <2>4, <3>3, <3>4, <3>5
    <3>7. \A i, j \in DOMAIN l : l[i] = l[j] => i = j
      BY <3>3, <3>4
    <3> QED BY <3>1, <3>3, <3>6, <3>7 DEF GoodMail
  <2>8. GoodCaller(caller'[c], journal')
    BY <1>1, <2>2, <2>3, <2>4, <2>5, GatesAre DEF GoodCaller
  <2> QED BY <1>1, <1>2, <2>4, <2>6, <2>7, <2>8
<1> QED BY <1>3, <1>4, <1>5, <1>6, MailMoves

-----------------------------------------------------------------------------
(* The row, and the theorems.                                               *)

GoodRow(r) == /\ DOMAIN r = {"status", "at"}
              /\ r.status \in {"none", "created", "streaming", "waiting"} \cup Terminal
              /\ r.at \in Gates \cup {0} /\ (r.at # 0 <=> r.status = "waiting")

Outcomes == {"none", "error"} \cup Terminal

LEMMA RowWritten ==
  ASSUME GraphInv, ExecInv, BusyInv, RowInv, NEW w \in Workers, Write(w)
  PROVE  GoodRow(row')
<1>1. PICK op : op = NextOp(exec[w])
  OBVIOUS
<1>2. Live(w) /\ op # NoOp /\ op.kind \in RowOps /\ row' = RowAfter(op)
  BY <1>1 DEF Write, Live, BusyInv
<1>3. op.kind = "wait" => op.node \in Gates
  BY <1>1, <1>2, ChildOp DEF ExecInv
<1> QED BY <1>2, <1>3, GatesAre DEF RowAfter, RowInv, GoodRow, Terminal

LEMMA FailedIfActive ==
  ASSUME GraphInv, RowInv, FailIfActive
  PROVE  GoodRow(row')
BY GatesAre DEF FailIfActive, RowInv, GoodRow, Terminal, Active

LEMMA RowMoves ==
  ASSUME GraphInv, ExecInv, BusyInv, RowInv, Next
  PROVE  GoodRow(row')
<1>1. GoodRow(row)
  BY DEF RowInv, GoodRow
<1>2. ASSUME NEW w \in Workers, DirectWrite(w) PROVE GoodRow(row')
  BY <1>1, <1>2, GatesAre DEF DirectWrite, GoodRow, Terminal
<1>3. ASSUME NEW w \in Workers, Stream(w) PROVE GoodRow(row')
  BY <1>1, <1>3, GatesAre DEF Stream, GoodRow
<1>4. ASSUME NEW w \in Workers, Work(w) \/ Start(w) \/ Crash(w) PROVE GoodRow(row')
  <2>1. CASE Write(w) \/ DirectWrite(w)
    BY <1>2, <2>1, RowWritten
  <2>2. CASE ~ Write(w) /\ ~ DirectWrite(w)
    <3>1. row' = row
      BY <1>4, <2>2 DEF Work, Start, Crash, Inline, Replay, Begin, Finish, StepFails, Receive,
                        FanOut, Join, End
    <3> QED BY <1>1, <3>1
  <2> QED BY <2>1, <2>2
<1>5. ASSUME NEW w \in Workers, Cancel(w) PROVE GoodRow(row')
  BY <1>5, FailedIfActive DEF Cancel
<1>6. Sweep => GoodRow(row')
  BY FailedIfActive DEF Sweep
<1>7. ASSUME NEW c, ChildEnds(c) \/ ReadGate(c) \/ Answer(c) \/ RequestFails(c)
      PROVE  GoodRow(row')
  BY <1>1, <1>7 DEF ChildEnds, ReadGate, Answer, RequestFails
<1> QED BY <1>3, <1>4, <1>5, <1>6, <1>7 DEF Next

LEMMA OutcomeMoves ==
  ASSUME GraphInv, ExecInv, BusyInv, RowInv, Next
  PROVE  outcome' \in Outcomes
<1>1. outcome \in Outcomes
  BY DEF RowInv, Outcomes
<1>2. ASSUME NEW o \in Outcomes, Ends(o) PROVE outcome' \in Outcomes
  BY <1>1, <1>2 DEF Ends
<1>3. {"error", "failed", "completed"} \subseteq Outcomes
  BY DEF Outcomes, Terminal
<1>4. ASSUME NEW w \in Workers, NEW op, NEW o, Take(w, op, o) PROVE outcome' \in Outcomes
  BY <1>1, <1>2, <1>3, <1>4 DEF Take
<1>5. ASSUME NEW w \in Workers, NEW op, NEW o, Commit(w, op, o) PROVE outcome' \in Outcomes
  BY <1>1, <1>4, <1>5 DEF Commit
<1>6. ASSUME NEW w \in Workers, Cancel(w) PROVE outcome' \in Outcomes
  <2>1. Ends(row'.status) /\ ~ Durable
    BY <1>6 DEF Cancel
  <2>2. GoodRow(row') /\ FailIfActive
    BY <1>6, RowMoves DEF Next, Cancel
  <2>3. row'.status # "waiting"
    BY <2>1, <2>2, GatesAre DEF GoodRow
  <2>4. row'.status \in Outcomes
    BY <2>2, <2>3 DEF FailIfActive, GoodRow, RowInv, Active, Outcomes, Terminal
  <2> QED BY <1>2, <2>1, <2>4
<1>7. ASSUME NEW w \in Workers, Work(w) PROVE outcome' \in Outcomes
  <2>1. CASE Replay(w)
    BY <1>4, <2>1 DEF Replay
  <2>2. CASE Finish(w)
    BY <1>5, <2>2 DEF Finish
  <2>3. CASE StepFails(w)
    BY <1>5, <2>3 DEF StepFails
  <2>4. CASE Receive(w)
    BY <1>5, <2>4 DEF Receive
  <2>5. CASE DirectWrite(w)
    BY <1>2, <1>3, <2>5 DEF DirectWrite
  <2>6. CASE End(w)
    BY <1>2, <1>3, <2>6 DEF End
  <2>7. CASE Inline(w) \/ Begin(w) \/ Write(w) \/ FanOut(w) \/ Join(w)
    BY <1>1, <2>7 DEF Inline, Begin, Write, FanOut, Join
  <2> QED BY <1>7, <2>1, <2>2, <2>3, <2>4, <2>5, <2>6, <2>7 DEF Work
<1>8. ASSUME NEW w, Start(w) \/ Crash(w) \/ Stream(w) PROVE outcome' \in Outcomes
  BY <1>1, <1>8 DEF Start, Crash, Stream
<1>9. ASSUME NEW c, ChildEnds(c) \/ ReadGate(c) \/ Answer(c) \/ Sweep PROVE outcome' \in Outcomes
  BY <1>1, <1>9 DEF ChildEnds, ReadGate, Answer, Sweep
<1>10. ASSUME NEW w, RequestFails(w) PROVE outcome' \in Outcomes
  BY <1>2, <1>3, <1>10 DEF RequestFails
<1> QED BY <1>6, <1>7, <1>8, <1>9, <1>10 DEF Next

LEMMA CountersMove ==
  ASSUME RowInv, Next
  PROVE  starts' \in 0..MaxStarts /\ lapped' \in BOOLEAN
<1>1. starts \in 0..MaxStarts /\ lapped \in BOOLEAN
  BY DEF RowInv
<1>2. ASSUME NEW w \in Workers, Start(w) PROVE starts' \in 0..MaxStarts /\ lapped' \in BOOLEAN
  BY <1>1, <1>2, BoundAssumption DEF Start
<1>3. ASSUME NEW w \in Workers, Work(w) \/ Crash(w) \/ Stream(w) \/ Cancel(w)
                                \/ RequestFails(w)
      PROVE  UNCHANGED <<starts, lapped>>
  BY <1>3 DEF Work, Inline, Replay, Begin, Write, Finish, StepFails, DirectWrite, Receive,
              FanOut, Join, End, Crash, Stream, Cancel, RequestFails
<1>4. Sweep => starts' = starts /\ lapped' \in BOOLEAN
  BY <1>1 DEF Sweep
<1>5. ASSUME NEW c, ChildEnds(c) \/ ReadGate(c) \/ Answer(c) PROVE UNCHANGED <<starts, lapped>>
  BY <1>5 DEF ChildEnds, ReadGate, Answer
<1> QED BY <1>1, <1>2, <1>3, <1>4, <1>5 DEF Next

LEMMA RowNext ==
  ASSUME GraphInv, ExecInv, BusyInv, RowInv, Next, UNCHANGED ctl
  PROVE  RowInv'
<1>1. Gates' = Gates
  BY DEF Gates, Nodes, ctl
<1> QED BY <1>1, RowMoves, OutcomeMoves, CountersMove DEF RowInv, GoodRow, Outcomes, Terminal

\* The next states keep the invariant.
LEMMA BaseNext ==
  ASSUME Base, Next
  PROVE  Base'
<1> USE DEF Base
<1>1. ExecChanges /\ Records /\ UNCHANGED ctl /\ ChildMoves
  BY Moves, ChildrenMove
<1>2. GraphInv'
  BY <1>1 DEF GraphInv, ctl, Durable
<1>3. ExecInv'
  BY <1>1, ExecNext
<1>4. BusyInv'
  BY <1>1, BusyNext
<1>5. JournalInv'
  BY <1>1, JournalNext
<1>6. ChildInv'
  BY <1>1, ChildNext
<1>7. MapInv'
  BY <1>1, MapNext
<1>8. GateInv'
  BY <1>1, GateNext
<1>9. MailInv'
  BY <1>1, MailNext
<1>10. RowInv'
  BY <1>1, RowNext
<1>11. MapBounded'
  BY <1>1, BoundNext
<1>12. GateTakesOneAnswer'
  BY AnswersNext
<1> QED BY <1>2, <1>3, <1>4, <1>5, <1>6, <1>7, <1>8, <1>9, <1>10, <1>11, <1>12

LEMMA BaseInit ==
  ASSUME Init
  PROVE  Base
<1>1. GraphInv
  BY DEF Init, GraphInv, Durable
<1>2. ExecInv /\ BusyInv /\ GateInv /\ JournalInv
  BY DEF Init, ExecInv, BusyInv, GateInv, JournalInv, Live, NoExec
<1>3. ChildInv
  BY DEF Init, ChildInv, NoOut, Results1
<1>4. MapInv
  BY DEF Init, MapInv, NoOut, Live, NoExec, ChildIds
<1>5. MailInv
  <2>1. /\ DOMAIN mail = Gates /\ DOMAIN caller = Callers
        /\ \A n \in Gates : mail[n] = <<>>
        /\ \A c \in Callers : caller[c] = [saw |-> 0, sent |-> FALSE, used |-> 0]
    BY DEF Init
  <2>2. \A n \in Gates : mail[n] \in Seq(Callers) /\ DOMAIN mail[n] = {}
    <3>1. <<>> \in Seq(Callers) /\ DOMAIN <<>> = {}
      OBVIOUS
    <3> QED BY <2>1, <3>1, Zenon
  <2>3. \A c \in Callers : /\ DOMAIN caller[c] = {"saw", "sent", "used"}
                           /\ caller[c].saw = 0 /\ caller[c].sent = FALSE /\ caller[c].used = 0
    BY <2>1
  <2> QED BY <2>1, <2>2, <2>3 DEF MailInv
<1>6. RowInv
  <2>1. DOMAIN row = {"status", "at"} /\ row.status = "none" /\ row.at = 0
    BY DEF Init
  <2>2. outcome = "none" /\ starts = 0 /\ lapped = FALSE /\ 0 \in 0..MaxStarts
    BY BoundAssumption DEF Init
  <2> QED BY <2>1, <2>2 DEF RowInv
<1>7. MapBounded
  <2>1. SUFFICES ASSUME NEW n \in Composed
                 PROVE  Cardinality({c \in ChildIds : c[1] = n /\ child[c].tag = "pending"})
                          <= graph.width[n]
    BY DEF MapBounded
  <2>2. {c \in ChildIds : c[1] = n /\ child[c].tag = "pending"} = {}
    BY DEF Init, NoOut
  <2>3. graph.width[n] \in Nat
    BY <1>1, GraphFacts DEF Composed
  <2>4. Cardinality({}) = 0
    BY FS_EmptySet
  <2> QED BY <2>2, <2>3, <2>4
<1>8. GateTakesOneAnswer
  BY DEF Init, GateTakesOneAnswer
<1> QED BY <1>1, <1>2, <1>3, <1>4, <1>5, <1>6, <1>7, <1>8 DEF Base

LEMMA BaseStays ==
  ASSUME Base, UNCHANGED vars
  PROVE  Base'
<1> USE DEF Base, vars, ctl
<1>1. GraphInv'
  BY DEF GraphInv, Durable
<1>2. ExecInv'
  BY CarryOK DEF ExecInv, Live
<1>3. BusyInv'
  <2>1. NoOp' = NoOp /\ RowOps' = RowOps
    BY DEF NoOp, RowOps
  <2> QED BY <2>1, CarryOp DEF BusyInv
<1>4. JournalInv'
  <2>1. Entry' = Entry /\ Durable' = Durable
    BY DEF Entry, Operation, Outcome, Nodes, Durable, Kinds, RowOps, Known
  <2> QED BY <2>1 DEF JournalInv, Live
<1>5. /\ Gates' = Gates /\ Composed' = Composed /\ ChildIds' = ChildIds
  BY DEF Gates, Composed, ChildIds, ChildId, Nodes
<1>6. ChildInv' /\ MapInv' /\ GateInv'
  <2>1. Outcome' = Outcome /\ Results1' = Results1 /\ NoOut' = NoOut
    BY DEF Outcome, Known, Results1, NoOut
  <2> QED BY <1>5, <2>1 DEF ChildInv, MapInv, GateInv, Live, ChildId
<1>7. MailInv' /\ RowInv' /\ GateTakesOneAnswer'
  BY <1>5 DEF MailInv, RowInv, GateTakesOneAnswer, Terminal
<1>8. MapBounded'
  BY <1>5 DEF MapBounded
<1> QED BY <1>1, <1>2, <1>3, <1>4, <1>6, <1>7, <1>8

\* The inductive invariant: the executions, the journal, the children, the
\* mailboxes and the row of a run fit together in every state of every run.
THEOREM Invariant == Spec => []Base
<1>1. Init => Base
  BY BaseInit
<1>2. Base /\ [Next]_vars => Base'
  BY BaseNext, BaseStays
<1> QED BY <1>1, <1>2, PTL DEF Spec

\* The variables keep their types; what is recorded is always a result.
THEOREM TypeCorrect == Spec => []TypeOK
<1>1. Base => TypeOK
  <2> SUFFICES ASSUME Base PROVE TypeOK
    OBVIOUS
  <2>1. \A i \in DOMAIN journal : journal[i].out.tag # "none"
    <3>1. \A i \in DOMAIN journal : journal[i] \in Entry
      BY DEF Base, JournalInv
    <3> QED BY <3>1 DEF Entry, Outcome, Known
  <2>2. ASSUME NEW w \in Workers, Live(w)
        PROVE  /\ exec[w].phase \in {"idle", "busy", "written", "direct"}
               /\ exec[w].at \in 0..(Len(order) + 2)
               /\ exec[w].begun # 0 => exec[w].begun \in 1..graph.bound[order[exec[w].at]]
    <3>1. ExecOK(exec[w])
      BY <2>2 DEF Base, ExecInv
    <3>2. exec[w].begun # 0 => graph.bound[order[exec[w].at]] \in Nat
      BY <3>1, GraphFacts DEF ExecOK, Base
    <3> QED BY <3>1, <3>2 DEF ExecOK, Phases, Last
  <2>3. \A c \in ChildIds : child[c].tag \in {"none", "pending", "ok", "failed"}
    BY DEF Base, ChildInv, Results1
  <2> QED BY <2>1, <2>2, <2>3 DEF Base, RowInv, TypeOK
<1> QED BY <1>1, Invariant, PTL

\* The children of a map under way are never more than its concurrency allows,
\* whatever died and was started again while they ran: an execution that starts
\* again counts the children an earlier one started before it starts another.
THEOREM Bounded == Spec => []MapBounded
<1>1. Base => MapBounded
  BY DEF Base
<1> QED BY <1>1, Invariant, PTL

\* An answer is used by the gate its sender saw, and a gate uses one answer,
\* however often the gate's operations were performed again.
THEOREM OneAnswer == Spec => []GateTakesOneAnswer
<1>1. Base => GateTakesOneAnswer
  BY DEF Base
<1> QED BY <1>1, Invariant, PTL

=============================================================================
