--------------------------- MODULE AgentRunReplay ---------------------------
(* Every execution of a run walks one course: the proof that a replay meets *)
(* what was recorded and settles every node as it was settled first.        *)
EXTENDS AgentRunProofs

\* Two executions are at the same place of the same walk.
Same(a, b) == a.at = b.at /\ a.k = b.k /\ a.out = b.out /\ a.pos = b.pos /\ a.w = b.w

\* Results that end an execution where they are taken, or leave only a direct write.
Ending(op, o) == o.tag = "raise" /\ op.kind \in {"resolve", "create", "finish", "fail"}

-----------------------------------------------------------------------------
(* The walk over a node depends only on where an execution is.              *)

Fails(n, J) == \E i \in J : child[ChildId(n, i)].tag = "failed"

\* SettleNode, from the parts of an execution it reads.
SettleWith(n, w, o, J) ==
  LET t == graph.type[n]
  IN IF \/ TooDeep(n) \/ o.tag = "raise"
        \/ t = "human" /\ o.tag = "timeout" /\ graph.policy[n] = "fail"
        \/ t = "loop" /\ (o.tag = "failed" \/ ~ Resolves(o.v))
        \/ t = "map" /\ Fails(n, J) /\ graph.policy[n] = "fail_fast"
     THEN Raise(w)
     ELSE IF t \in {"act", "crawler", "subgraph"} THEN BindOutcome(graph, n, w, o.tag = "ok", o.v)
     ELSE IF t = "gate" THEN BindGate(graph, n, w, o.tag = "pass")
     ELSE Bind(n, w, Success(graph, n), o.v)

Branches(n) == IF graph.type[n] = "map" THEN 0..(graph.bound[n] - 1) ELSE {}

\* The walk after a node that has no operation left.
NextWalk(e) ==
  LET n == order[e.at]
  IN IF n \in Capabilities(graph) THEN e.w
     ELSE IF IsSkipped(graph, n, e.w) THEN SkipNode(n, e.w)
     ELSE IF graph.type[n] \in InlineTypes THEN WalkInline(graph, n, e.w, input)
     ELSE SettleWith(n, e.w, e.out, Branches(n))

\* The children a node waits for have ended.
AllEnded(e) ==
  LET n == order[e.at]
  IN graph.type[n] = "map" /\ ~ IsSkipped(graph, n, e.w) /\ ~ TooDeep(n)
       => \A i \in 0..(graph.bound[n] - 1) : child[ChildId(n, i)].tag \in {"ok", "failed"}

LEMMA SettleIs ==
  ASSUME NEW n, NEW e
  PROVE  SettleNode(n, e) = SettleWith(n, e.w, e.out, e.joined)
BY Zenon DEF SettleNode, SettleWith, Fails

LEMMA SettleAny ==
  ASSUME NEW n, NEW w, NEW o, NEW J, graph.type[n] # "map" \/ TooDeep(n)
  PROVE  SettleWith(n, w, o, J) = SettleWith(n, w, o, Branches(n))
<1>1. CASE TooDeep(n)
  BY <1>1, Zenon DEF SettleWith
<1>2. CASE graph.type[n] # "map"
  BY <1>2, Zenon DEF SettleWith
<1> QED BY <1>1, <1>2

LEMMA SameWalk ==
  ASSUME NEW a, NEW b, Same(a, b)
  PROVE  NextWalk(a) = NextWalk(b) /\ (AllEnded(a) <=> AllEnded(b))
BY DEF Same, NextWalk, AllEnded

LEMMA SameNext ==
  ASSUME NEW a, NEW b, Same(a, b)
  PROVE  NextOp(a) = NextOp(b)
BY SameOp DEF Same

LEMMA SameOnward ==
  ASSUME NEW a, NEW b, Same(a, b), DOMAIN a = Fields, DOMAIN b = Fields, NEW w
  PROVE  Same(Onward(a, w), Onward(b, w))
<1>1. PICK c, d : c = Onward(a, w) /\ d = Onward(b, w)
  OBVIOUS
<1>2. Same(c, d)
  BY <1>1, OnwardIs DEF Same
<1> QED BY <1>1, <1>2

\* What an execution is after a result, from the parts of it that are read.
Kept(op, out, o) == IF op.kind \in {"wait", "go"} THEN out ELSE o

Gone(w, o) == [w EXCEPT !.raised = (o.tag = "gone")]

Parts(e, op, o, y, x, d) ==
  /\ d.pos = e.pos + 1
  /\ op.kind \in {"finish", "fail"} =>
       d.at = Len(order) + 2 /\ d.k = e.k + 1 /\ d.out = y /\ d.w = e.w
  /\ op.kind \in {"wait", "go"} /\ o.tag = "raise" =>
       d.at = e.at + 1 /\ d.k = 0 /\ d.out = NoOut /\ d.w = Raise(e.w)
  /\ op.kind = "resolve" =>
       d.at = e.at /\ d.k = e.k + 1 /\ d.out = y /\ d.w = Gone(e.w, o)
  /\ op.kind = "create" =>
       IF e.k + 1 = Len(Prologue) /\ ~ e.w.raised
       THEN d.at = 1 /\ d.k = 0 /\ d.out = NoOut /\ d.w = e.w
       ELSE d.at = 0 /\ d.k = e.k + 1 /\ d.out = y /\ d.w = e.w
  /\ /\ op.kind \notin {"finish", "fail", "resolve", "create"}
     /\ ~ (op.kind \in {"wait", "go"} /\ o.tag = "raise")
     => IF NodeOp(op.node, x) = NoOp
        THEN /\ d.at = e.at + 1 /\ d.k = 0 /\ d.out = NoOut
             /\ d.w = SettleWith(op.node, e.w, y, Branches(op.node))
        ELSE d.at = e.at /\ d.k = e.k + 1 /\ d.out = y /\ d.w = e.w

LEMMA ConsumeParts ==
  ASSUME GraphInv, NEW e, ExecOK(e), NEW op, op = NextOp(e), op # NoOp, NEW o,
         NEW d, d = Consume(e, op, o), NEW y, y = Kept(op, e.out, o),
         NEW x, DOMAIN x = Fields, x.at = e.at, x.k = e.k + 1, x.out = y, x.pos = e.pos + 1,
         x.w = e.w, x.begun = 0, x.joined = {}
  PROVE  Parts(e, op, o, y, x, d)
<1> DEFINE c == [e EXCEPT !.k = @ + 1, !.out = Kept(op, e.out, o), !.pos = @ + 1, !.phase = "idle"]
<1>1. /\ DOMAIN e = Fields /\ e.begun = 0 /\ e.joined = {} /\ e.at <= Len(order) + 1
      /\ e.at \in 0..Last /\ e.k \in Nat
  BY NextOpIs DEF ExecOK
<1>2. /\ DOMAIN c = Fields /\ c.at = e.at /\ c.k = e.k + 1 /\ c.out = y /\ c.pos = e.pos + 1
      /\ c.w = e.w /\ c.begun = 0 /\ c.joined = {}
  BY <1>1 DEF Fields
<1>3. d = IF op.kind \in {"finish", "fail"} THEN [c EXCEPT !.at = Len(order) + 2]
          ELSE IF op.kind \in {"wait", "go"} /\ o.tag = "raise" THEN Onward(c, Raise(e.w))
          ELSE IF op.kind = "resolve" THEN [c EXCEPT !.w = Gone(@, o)]
          ELSE IF e.at = 0 THEN IF c.k = Len(Prologue) /\ ~ c.w.raised THEN Onward(c, c.w) ELSE c
          ELSE IF NodeOp(op.node, c) = NoOp THEN Onward(c, SettleNode(op.node, c))
          ELSE c
  BY Zenon DEF Consume, Kept, Gone
<1>4. d.pos = e.pos + 1
  BY ConsumeIs
<1> HIDE DEF c
<1>5. CASE op.kind \in {"finish", "fail"}
  <2>1. d = [c EXCEPT !.at = Len(order) + 2]
    BY <1>3, <1>5, Zenon
  <2> QED BY <1>2, <1>4, <1>5, <2>1 DEF Fields, Parts
<1>6. CASE op.kind \in {"wait", "go"} /\ o.tag = "raise"
  <2>1. d = Onward(c, Raise(e.w))
    BY <1>3, <1>6, Zenon
  <2>2. d.at = c.at + 1 /\ d.k = 0 /\ d.out = NoOut /\ d.w = Raise(e.w)
    BY <1>2, <2>1, OnwardIs
  <2> QED BY <1>2, <1>4, <1>6, <2>2 DEF Parts
<1>7. CASE op.kind = "resolve"
  <2>1. d = [c EXCEPT !.w = Gone(@, o)]
    BY <1>3, <1>7, Zenon
  <2> QED BY <1>2, <1>4, <1>7, <2>1 DEF Fields, Parts
<1>8. CASE op.kind = "create"
  <2>1. e.at = 0
    <3>1. op # Op("fail", 0, 0) /\ op # Op("finish", 0, 0)
      BY <1>8 DEF Op
    <3>2. CASE order[e.at] \in Nodes(graph) /\ op = NodeOp(order[e.at], e)
      BY <1>8, <3>2, NodeOpIs
    <3> QED BY <3>1, <3>2, NextOpIs
  <2>2. d = IF c.k = Len(Prologue) /\ ~ c.w.raised THEN Onward(c, c.w) ELSE c
    BY <1>3, <1>8, <2>1, Zenon
  <2>3. CASE c.k = Len(Prologue) /\ ~ c.w.raised
    <3>1. d.at = c.at + 1 /\ d.k = 0 /\ d.out = NoOut /\ d.w = c.w
      BY <1>2, <2>2, <2>3, OnwardIs
    <3> QED BY <1>2, <1>4, <1>8, <2>1, <2>3, <3>1 DEF Parts
  <2>4. CASE ~ (c.k = Len(Prologue) /\ ~ c.w.raised)
    <3>1. d = c
      BY <2>2, <2>4, Zenon
    <3> QED BY <1>2, <1>4, <1>8, <2>1, <2>4, <3>1 DEF Parts
  <2> QED BY <2>3, <2>4
<1>9. CASE /\ op.kind \notin {"finish", "fail", "resolve", "create"}
           /\ ~ (op.kind \in {"wait", "go"} /\ o.tag = "raise")
  <2>1. /\ e.at \in 1..Len(order) /\ op.node = order[e.at] /\ op.node \in Nodes(graph)
        /\ op = NodeOp(op.node, e)
    BY <1>9, NextOpIs DEF Op
  <2>2. graph.type[op.node] # "map"
    <3>1. graph.type[op.node] = "map" => NodeOp(op.node, e) = NoOp
      BY DEF NodeOp
    <3> QED BY <2>1, <3>1
  <2>3. d = IF NodeOp(op.node, c) = NoOp THEN Onward(c, SettleNode(op.node, c)) ELSE c
    <3>1. e.at # 0
      BY <2>1
    <3> QED BY <1>3, <1>9, <3>1, Zenon
  <2>4. NodeOp(op.node, c) = NodeOp(op.node, x)
    BY <1>2 DEF NodeOp, LlmOp, CrawlerOp, HumanOp, LoopOp
  <2>5. SettleNode(op.node, c) = SettleWith(op.node, e.w, y, Branches(op.node))
    <3>1. SettleNode(op.node, c) = SettleWith(op.node, e.w, y, {})
      BY <1>2, SettleIs
    <3> QED BY <2>2, <3>1, SettleAny
  <2>6. CASE NodeOp(op.node, x) = NoOp
    <3>1. d = Onward(c, SettleWith(op.node, e.w, y, Branches(op.node)))
      BY <2>3, <2>4, <2>5, <2>6
    <3>2. /\ d.at = c.at + 1 /\ d.k = 0 /\ d.out = NoOut
          /\ d.w = SettleWith(op.node, e.w, y, Branches(op.node))
      BY <1>2, <3>1, OnwardIs
    <3> QED BY <1>2, <1>4, <1>9, <2>6, <3>2 DEF Parts
  <2>7. CASE NodeOp(op.node, x) # NoOp
    <3>1. d = c
      BY <2>3, <2>4, <2>7
    <3> QED BY <1>2, <1>4, <1>9, <2>7, <3>1 DEF Parts
  <2> QED BY <2>6, <2>7
<1> QED BY <1>5, <1>6, <1>7, <1>8, <1>9

LEMMA SameConsume ==
  ASSUME GraphInv, NEW a, NEW b, ExecOK(a), ExecOK(b), Same(a, b), NEW op, op = NextOp(a),
         op # NoOp, NEW o
  PROVE  Same(Consume(a, op, o), Consume(b, op, o))
<1>1. op = NextOp(b) /\ DOMAIN a = Fields /\ a.begun = 0 /\ a.joined = {}
  BY SameNext, NextOpIs DEF ExecOK
<1>2. PICK y : y = Kept(op, a.out, o)
  OBVIOUS
<1>3. PICK x : x = [a EXCEPT !.k = a.k + 1, !.out = y, !.pos = a.pos + 1]
  OBVIOUS
<1>4. /\ DOMAIN x = Fields /\ x.at = a.at /\ x.k = a.k + 1 /\ x.out = y /\ x.pos = a.pos + 1
      /\ x.w = a.w /\ x.begun = 0 /\ x.joined = {}
  BY <1>1, <1>3 DEF Fields
<1>5. b.at = a.at /\ b.k = a.k /\ b.out = a.out /\ b.pos = a.pos /\ b.w = a.w
  BY DEF Same
<1>6. PICK c, d : c = Consume(a, op, o) /\ d = Consume(b, op, o)
  OBVIOUS
<1>7. Parts(a, op, o, y, x, c)
  BY <1>1, <1>2, <1>4, <1>6, ConsumeParts
<1>8. Parts(b, op, o, y, x, d)
  <2>1. y = Kept(op, b.out, o)
    BY <1>2, <1>5
  <2>2. /\ x.at = b.at /\ x.k = b.k + 1 /\ x.pos = b.pos + 1 /\ x.w = b.w
    BY <1>4, <1>5
  <2> QED BY <1>1, <1>4, <1>6, <2>1, <2>2, ConsumeParts
<1>9. Same(c, d)
  <2>1. Parts(a, op, o, y, x, d)
    BY <1>5, <1>8 DEF Parts
  <2> QED BY <1>7, <2>1 DEF Parts, Same
<1> QED BY <1>6, <1>9

-----------------------------------------------------------------------------
(* How a walk settles a node.                                               *)

WalkFields == {"live", "val", "skipped", "produced", "raised"}
Behind(i) == {order[j] : j \in {l \in 1..Len(order) : l < i}}
Outputs(w) == {n \in DOMAIN w.live : graph.type[n] = "output"}

\* A walk at position i has settled the steps before it, unless it raised; what it
\* made live is what the node may, and at most one output node ran.
WalkOK(w, i) ==
  /\ DOMAIN w = WalkFields
  /\ Walked(w) \subseteq Behind(i) \ Capabilities(graph)
  /\ ~ w.raised => Walked(w) = Behind(i) \ Capabilities(graph)
  /\ w.skipped \cap DOMAIN w.live = {}
  /\ \A n \in DOMAIN w.live : w.live[n] \in Promise!Choices(graph, n)
  /\ \A n, m \in Outputs(w) : n = m
  /\ ~ w.produced => Outputs(w) = {}

Ran(n, w, x) ==
  \/ x = Raise(w)
  \/ /\ graph.type[n] # "output"
     /\ \E H \in Promise!Choices(graph, n) : \E v : x = Bind(n, w, H, v)
  \/ /\ graph.type[n] = "output" /\ ~ w.produced
     /\ x = [Bind(n, w, {}, NoValue) EXCEPT !.produced = TRUE]

WalkStep(n, w, x) ==
  \/ n \in Capabilities(graph) /\ x = w
  \/ n \notin Capabilities(graph) /\ IsSkipped(graph, n, w) /\ x = SkipNode(n, w)
  \/ n \notin Capabilities(graph) /\ ~ IsSkipped(graph, n, w) /\ Ran(n, w, x)

LEMMA SettleRan ==
  ASSUME NEW n, NEW w, NEW o, NEW J, graph.type[n] \notin InlineTypes,
         NEW x, x = SettleWith(n, w, o, J)
  PROVE  Ran(n, w, x)
<1> DEFINE t == graph.type[n]
<1>1. t # "output" /\ t # "router" /\ t # "rule"
  BY DEF InlineTypes
<1>2. CASE t \in {"act", "crawler", "subgraph"}
  <2>1. Promise!Choices(graph, n) = {Success(graph, n), Errors(graph, n)}
    BY <1>2 DEF Promise!Choices, Promise!Success, Promise!Errors, Success, Errors
  <2>2. x = Raise(w) \/ x = BindOutcome(graph, n, w, o.tag = "ok", o.v)
    BY <1>2, Zenon DEF SettleWith
  <2>3. x = Raise(w) \/ x = Bind(n, w, Success(graph, n), o.v) \/ x = Bind(n, w, Errors(graph, n), o.v)
    BY <2>2, Zenon DEF BindOutcome
  <2> QED BY <1>1, <2>1, <2>3 DEF Ran
<1>3. CASE t = "gate"
  <2>1. Promise!Choices(graph, n) = {{"pass"}, {"block"}}
    BY <1>3 DEF Promise!Choices
  <2>2. t \notin {"act", "crawler", "subgraph"}
    BY <1>3
  <2>3. x = Raise(w) \/ x = BindGate(graph, n, w, o.tag = "pass")
    BY <1>3, <2>2, Zenon DEF SettleWith
  <2>4. \/ x = Raise(w) \/ x = Bind(n, w, {"pass"}, SingleIn(graph, n, w))
        \/ x = Bind(n, w, {"block"}, SingleIn(graph, n, w))
    BY <2>3, Zenon DEF BindGate
  <2> QED BY <1>1, <2>1, <2>4 DEF Ran
<1>4. CASE t \notin {"act", "crawler", "subgraph", "gate"}
  <2>1. Promise!Choices(graph, n) = {Success(graph, n)}
    BY <1>1, <1>4 DEF Promise!Choices, Promise!Success, Success
  <2>2. t \notin {"act", "crawler", "subgraph"} /\ t # "gate"
    BY <1>4
  <2>3. x = Raise(w) \/ x = Bind(n, w, Success(graph, n), o.v)
    BY <2>2, Zenon DEF SettleWith
  <2> QED BY <1>1, <2>1, <2>3 DEF Ran
<1> QED BY <1>2, <1>3, <1>4

LEMMA InlineRan ==
  ASSUME NEW n, NEW w, graph.type[n] \in InlineTypes, NEW x, x = WalkInline(graph, n, w, input)
  PROVE  Ran(n, w, x)
<1> DEFINE t == graph.type[n]
<1>1. CASE t = "input"
  <2>1. Promise!Choices(graph, n) = {Success(graph, n)}
    BY <1>1 DEF Promise!Choices, Promise!Success, Success
  <2>2. x = Bind(n, w, Success(graph, n), input)
    BY <1>1 DEF WalkInline, WalkBoundary
  <2> QED BY <1>1, <2>1, <2>2 DEF Ran
<1>2. CASE t = "output"
  <2>1. t # "input"
    BY <1>2
  <2>2. x = WalkBoundary(graph, n, w, input)
    BY <1>2 DEF WalkInline
  <2>3. \/ x = Raise(w)
        \/ ~ w.produced /\ x = [Bind(n, w, {}, NoValue) EXCEPT !.produced = TRUE]
    BY <2>1, <2>2, Zenon DEF WalkBoundary
  <2> QED BY <1>2, <2>3, Zenon DEF Ran
<1>3. CASE t = "router"
  <2>1. Promise!Choices(graph, n) = {{h} : h \in graph.outs[n]}
    BY <1>3 DEF Promise!Choices
  <2>2. x = WalkRouter(graph, n, w)
    BY <1>3 DEF WalkInline
  <2>3. PICK v : v = SingleIn(graph, n, w)
    OBVIOUS
  <2>4. x = Raise(w) \/ (v \in graph.outs[n] /\ x = Bind(n, w, {v}, v))
    BY <2>2, <2>3 DEF WalkRouter
  <2> QED BY <1>3, <2>1, <2>4 DEF Ran
<1>4. CASE t = "transform"
  <2>1. Promise!Choices(graph, n) = {Success(graph, n)}
    BY <1>4 DEF Promise!Choices, Promise!Success, Success
  <2>2. x = WalkTransform(graph, n, w)
    BY <1>4 DEF WalkInline
  <2>3. PICK v : v = SingleIn(graph, n, w)
    OBVIOUS
  <2>4. x = Raise(w) \/ x = Bind(n, w, Success(graph, n), v)
    BY <2>2, <2>3 DEF WalkTransform
  <2> QED BY <1>4, <2>1, <2>4 DEF Ran
<1>5. CASE t = "rule"
  <2>1. Promise!Choices(graph, n) = {{"pass"}, {"block"}}
    BY <1>5 DEF Promise!Choices
  <2>2. x = WalkRule(graph, n, w)
    BY <1>5 DEF WalkInline
  <2>3. \/ x = Raise(w) \/ x = Bind(n, w, {"pass"}, SingleIn(graph, n, w))
        \/ x = Bind(n, w, {"block"}, SingleIn(graph, n, w))
    BY <2>2, Zenon DEF WalkRule, BindGate
  <2> QED BY <1>5, <2>1, <2>3 DEF Ran
<1> QED BY <1>1, <1>2, <1>3, <1>4, <1>5 DEF InlineTypes

\* What the walk x after w has settled more than w.
Grows(w, x) == /\ Walked(w) \subseteq Walked(x)
               /\ \A m \in Walked(w) : FateIn(x, m) = FateIn(w, m)

Settled(n, w, x) ==
  /\ n \in Steps(graph) /\ n \notin Walked(w) /\ Walked(x) = Walked(w) \cup {n}
  /\ FateIn(x, n) \in IF IsSkipped(graph, n, w) THEN {Skipped} ELSE Promise!Choices(graph, n)

More(w, i, x) ==
  /\ Grows(w, x)
  /\ \/ Walked(x) = Walked(w)
     \/ i \in 1..Len(order) /\ ~ w.raised /\ Settled(order[i], w, x)

LEMMA GrowsOn ==
  ASSUME NEW u, NEW w, NEW x, Grows(u, w), Grows(w, x)
  PROVE  Grows(u, x)
BY DEF Grows

LEMMA BehindIs ==
  ASSUME GraphInv, NEW i \in 1..Len(order)
  PROVE  /\ Behind(i + 1) = Behind(i) \cup {order[i]}
         /\ order[i] \notin Behind(i) /\ order[i] \in Nodes(graph)
<1>1. Len(order) \in Nat
  BY GraphFacts
<1>2. \A l \in 1..Len(order) : l < i + 1 <=> l < i \/ l = i
  BY <1>1
<1>3. Behind(i + 1) = Behind(i) \cup {order[i]}
  BY <1>1, <1>2 DEF Behind
<1>4. order[i] \notin Behind(i)
  <2>1. \A l \in 1..Len(order) : l < i => order[l] # order[i]
    BY <1>1, GraphFacts
  <2> QED BY <2>1 DEF Behind
<1> QED BY <1>3, <1>4, GraphFacts

\* Walk x has node n live with handles H besides what w has.
Adds(n, w, H, x) ==
  /\ DOMAIN x = WalkFields /\ x.skipped = w.skipped /\ x.raised = w.raised
  /\ DOMAIN x.live = DOMAIN w.live \cup {n}
  /\ x.live[n] = H /\ \A m \in DOMAIN w.live : m # n => x.live[m] = w.live[m]

LEMMA BindIs ==
  ASSUME NEW n, NEW w, DOMAIN w = WalkFields, NEW H, NEW v
  PROVE  Adds(n, w, H, Bind(n, w, H, v)) /\ Bind(n, w, H, v).produced = w.produced
BY DEF Bind, WalkFields, Adds

\* One more live node.
LEMMA BoundOK ==
  ASSUME GraphInv, NEW i \in 1..Len(order), NEW n, n = order[i], NEW w, WalkOK(w, i),
         ~ w.raised, n \notin Capabilities(graph), ~ IsSkipped(graph, n, w),
         NEW H \in Promise!Choices(graph, n), NEW x, Adds(n, w, H, x), ~ x.raised,
         \/ graph.type[n] # "output" /\ x.produced = w.produced
         \/ graph.type[n] = "output" /\ ~ w.produced /\ x.produced
  PROVE  WalkOK(x, i + 1) /\ More(w, i, x)
<1> USE DEF Adds
<1>1. n \notin Walked(w) /\ n \in Nodes(graph) /\ n \in Steps(graph)
  BY BehindIs DEF WalkOK, Steps
<1>2. Walked(x) = Walked(w) \cup {n}
  BY DEF Walked
<1>3. Walked(x) = Behind(i + 1) \ Capabilities(graph)
  BY <1>2, BehindIs DEF WalkOK
<1>4. x.skipped \cap DOMAIN x.live = {}
  BY <1>1 DEF WalkOK, Walked
<1>5. \A m \in DOMAIN x.live : x.live[m] \in Promise!Choices(graph, m)
  BY DEF WalkOK
<1>6. (\A m, l \in Outputs(x) : m = l) /\ (~ x.produced => Outputs(x) = {})
  BY DEF WalkOK, Outputs
<1>7. WalkOK(x, i + 1)
  BY <1>3, <1>4, <1>5, <1>6 DEF WalkOK
<1>8. \A m \in Walked(w) : FateIn(x, m) = FateIn(w, m)
  BY <1>1 DEF Walked, FateIn
<1>9. FateIn(x, n) = x.live[n]
  BY <1>1 DEF Walked, FateIn
<1>10. Settled(n, w, x)
  BY <1>1, <1>2, <1>9 DEF Settled
<1> QED BY <1>2, <1>7, <1>8, <1>10 DEF More, Grows

LEMMA RaisedOK ==
  ASSUME GraphInv, NEW i \in 0..Last, NEW w, WalkOK(w, i), NEW x, x = Raise(w)
  PROVE  WalkOK(x, i + 1) /\ More(w, i, x)
<1>1. /\ DOMAIN x = WalkFields /\ x.skipped = w.skipped /\ x.live = w.live
      /\ x.produced = w.produced /\ x.raised
  BY DEF Raise, WalkOK, WalkFields
<1>2. Walked(x) = Walked(w) /\ Outputs(x) = Outputs(w)
  BY <1>1 DEF Walked, Outputs
<1>3. Walked(w) \subseteq Behind(i + 1) \ Capabilities(graph)
  BY GraphFacts DEF WalkOK, Behind, Last
<1>4. WalkOK(x, i + 1)
  BY <1>1, <1>2, <1>3 DEF WalkOK
<1> QED BY <1>1, <1>2, <1>4 DEF More, Grows, FateIn

LEMMA StepWalk ==
  ASSUME GraphInv, NEW i \in 1..Len(order), NEW n, n = order[i], NEW w, WalkOK(w, i),
         ~ w.raised, NEW x, WalkStep(n, w, x)
  PROVE  WalkOK(x, i + 1) /\ More(w, i, x)
<1>1. CASE n \in Capabilities(graph) /\ x = w
  <2>1. Behind(i + 1) \ Capabilities(graph) = Behind(i) \ Capabilities(graph)
    BY <1>1, BehindIs
  <2>2. WalkOK(x, i + 1)
    BY <1>1, <2>1 DEF WalkOK
  <2> QED BY <1>1, <2>2 DEF More, Grows
<1>2. CASE n \notin Capabilities(graph) /\ IsSkipped(graph, n, w) /\ x = SkipNode(n, w)
  <2>1. /\ DOMAIN x = WalkFields /\ x.skipped = w.skipped \cup {n} /\ x.live = w.live
        /\ x.produced = w.produced /\ x.raised = w.raised
    BY <1>2 DEF SkipNode, WalkOK, WalkFields
  <2>2. n \notin Walked(w) /\ n \in Nodes(graph) /\ n \in Steps(graph)
    BY <1>2, BehindIs DEF WalkOK, Steps
  <2>3. Walked(x) = Walked(w) \cup {n} /\ Outputs(x) = Outputs(w)
    BY <2>1 DEF Walked, Outputs
  <2>4. Walked(x) = Behind(i + 1) \ Capabilities(graph)
    BY <1>2, <2>3, BehindIs DEF WalkOK
  <2>5. x.skipped \cap DOMAIN x.live = {}
    BY <2>1, <2>2 DEF WalkOK, Walked
  <2>6. WalkOK(x, i + 1)
    BY <2>1, <2>3, <2>4, <2>5 DEF WalkOK
  <2>7. FateIn(x, n) = Skipped /\ \A m \in Walked(w) : FateIn(x, m) = FateIn(w, m)
    BY <2>1, <2>2 DEF FateIn
  <2>8. Settled(n, w, x)
    BY <1>2, <2>2, <2>3, <2>7 DEF Settled
  <2> QED BY <2>3, <2>6, <2>7, <2>8 DEF More, Grows
<1>3. CASE x = Raise(w)
  <2>1. i \in 0..Last
    BY GraphFacts DEF Last
  <2> QED BY <1>3, <2>1, RaisedOK
<1>4. ASSUME n \notin Capabilities(graph), ~ IsSkipped(graph, n, w), graph.type[n] # "output",
             NEW H \in Promise!Choices(graph, n), NEW v, x = Bind(n, w, H, v)
      PROVE  WalkOK(x, i + 1) /\ More(w, i, x)
  <2>1. DOMAIN w = WalkFields
    BY DEF WalkOK
  <2>2. Adds(n, w, H, x) /\ x.produced = w.produced
    BY <1>4, <2>1, BindIs
  <2>3. ~ x.raised /\ H \in Promise!Choices(graph, n)
    BY <1>4, <2>2 DEF Adds
  <2> QED BY <1>4, <2>2, <2>3, BoundOK
<1>5. CASE /\ n \notin Capabilities(graph) /\ ~ IsSkipped(graph, n, w)
           /\ graph.type[n] = "output" /\ ~ w.produced
           /\ x = [Bind(n, w, {}, NoValue) EXCEPT !.produced = TRUE]
  <2>1. DOMAIN w = WalkFields
    BY DEF WalkOK
  <2>2. PICK y : y = Bind(n, w, {}, NoValue)
    OBVIOUS
  <2>3. Adds(n, w, {}, y)
    BY <2>1, <2>2, BindIs
  <2>4. x = [y EXCEPT !.produced = TRUE]
    BY <1>5, <2>2
  <2>5. Adds(n, w, {}, x) /\ x.produced /\ ~ x.raised
    BY <2>3, <2>4 DEF WalkFields, Adds
  <2>6. {} \in Promise!Choices(graph, n)
    BY <1>5 DEF Promise!Choices
  <2> QED BY <1>5, <2>5, <2>6, BoundOK
<1> QED BY <1>1, <1>2, <1>3, <1>4, <1>5 DEF WalkStep, Ran

-----------------------------------------------------------------------------
(* The steps of a course.                                                   *)

ByInline(a, b) ==
  /\ NextOp(a) = NoOp /\ a.at \in 1..Len(order) /\ AllEnded(a)
  /\ Same(b, Onward(a, NextWalk(a)))

ByResult(a, o, b) == NextOp(a) # NoOp /\ Same(b, Consume(a, NextOp(a), o))

LEMMA InlineWalks ==
  ASSUME GraphInv, NEW a, ExecOK(a), WalkOK(a.w, a.at), NEW b, ByInline(a, b)
  PROVE  WalkOK(b.w, b.at) /\ More(a.w, a.at, b.w) /\ b.at = a.at + 1 /\ b.pos = a.pos
<1>1. PICK n, x : n = order[a.at] /\ x = NextWalk(a)
  OBVIOUS
<1>2. b.at = a.at + 1 /\ b.w = x /\ b.pos = a.pos /\ a.at \in 1..Len(order)
  <2>1. PICK d : d = Onward(a, x)
    OBVIOUS
  <2>2. d.at = a.at + 1 /\ d.w = x /\ d.pos = a.pos
    BY <2>1, OnwardIs DEF ExecOK
  <2> QED BY <1>1, <2>1, <2>2 DEF ByInline, Same
<1>3. ~ a.w.raised
  <2>1. a.w.raised /\ a.at \in 1..Len(order) => NextOp(a) = Op("fail", 0, 0)
    BY GraphFacts DEF NextOp
  <2> QED BY <2>1 DEF ByInline, NoOp, Op
<1>4. WalkStep(n, a.w, x)
  <2>1. CASE n \in Capabilities(graph)
    BY <1>1, <2>1 DEF NextWalk, WalkStep
  <2>2. CASE n \notin Capabilities(graph) /\ IsSkipped(graph, n, a.w)
    BY <1>1, <2>2 DEF NextWalk, WalkStep
  <2>3. CASE n \notin Capabilities(graph) /\ ~ IsSkipped(graph, n, a.w)
    <3>1. Ran(n, a.w, x)
      <4>1. CASE graph.type[n] \in InlineTypes
        <5>1. x = WalkInline(graph, n, a.w, input)
          BY <1>1, <2>3, <4>1, Zenon DEF NextWalk
        <5> QED BY <4>1, <5>1, InlineRan
      <4>2. CASE graph.type[n] \notin InlineTypes
        <5>1. x = SettleWith(n, a.w, a.out, Branches(n))
          BY <1>1, <2>3, <4>2, Zenon DEF NextWalk
        <5> QED BY <4>2, <5>1, SettleRan
      <4> QED BY <4>1, <4>2
    <3> QED BY <2>3, <3>1 DEF WalkStep
  <2> QED BY <2>1, <2>2, <2>3
<1>5. WalkOK(x, a.at + 1) /\ More(a.w, a.at, x)
  BY <1>1, <1>2, <1>3, <1>4, StepWalk
<1> QED BY <1>2, <1>5

LEMMA ResultWalks ==
  ASSUME GraphInv, NEW a, ExecOK(a), WalkOK(a.w, a.at), NEW o, NEW b, ByResult(a, o, b)
  PROVE  WalkOK(b.w, b.at) /\ More(a.w, a.at, b.w) /\ b.pos = a.pos + 1
<1>1. PICK op, d : op = NextOp(a) /\ d = Consume(a, op, o)
  OBVIOUS
<1>2. PICK y : y = Kept(op, a.out, o)
  OBVIOUS
<1>3. PICK x : x = [a EXCEPT !.k = a.k + 1, !.out = y, !.pos = a.pos + 1]
  OBVIOUS
<1>4. /\ op # NoOp /\ Same(b, d) /\ DOMAIN a = Fields /\ a.at \in 0..Last
      /\ Len(order) \in Nat /\ Last = Len(order) + 2 /\ a.begun = 0 /\ a.joined = {}
  <2>1. op # NoOp /\ Same(b, d)
    BY <1>1 DEF ByResult
  <2>2. a.begun = 0 /\ a.joined = {}
    BY <1>1, <2>1, NextOpIs
  <2> QED BY <2>1, <2>2, GraphFacts DEF ExecOK, Last
<1>5. /\ DOMAIN x = Fields /\ x.at = a.at /\ x.k = a.k + 1 /\ x.out = y /\ x.pos = a.pos + 1
      /\ x.w = a.w /\ x.begun = 0 /\ x.joined = {}
  BY <1>3, <1>4 DEF Fields
<1>6. Parts(a, op, o, y, x, d)
  BY <1>1, <1>2, <1>4, <1>5, ConsumeParts
<1>7. b.at = d.at /\ b.w = d.w /\ b.pos = d.pos /\ d.pos = a.pos + 1
  BY <1>4, <1>6 DEF Same, Parts
<1>8. SUFFICES WalkOK(d.w, d.at) /\ More(a.w, a.at, d.w)
  BY <1>7
<1>9. ASSUME d.w = a.w, d.at = a.at PROVE WalkOK(d.w, d.at) /\ More(a.w, a.at, d.w)
  BY <1>9 DEF More, Grows
<1>10. /\ a.at <= Len(order) + 1
       /\ \/ a.at = 0 /\ op.kind \in {"resolve", "create"}
          \/ a.w.raised /\ op.kind = "fail"
          \/ ~ a.w.raised /\ op.kind = "finish" /\ a.at = Len(order) + 1
          \/ /\ a.at \in 1..Len(order) /\ ~ a.w.raised /\ op.node = order[a.at]
             /\ order[a.at] \in Nodes(graph) /\ op = NodeOp(op.node, a)
             /\ ~ IsSkipped(graph, op.node, a.w) /\ op.node \notin Capabilities(graph)
  BY <1>1, <1>4, NextOpIs DEF Op
<1>11. CASE op.kind \in {"finish", "fail"}
  <2>1. d.w = a.w /\ d.at = Len(order) + 2
    BY <1>6, <1>11 DEF Parts
  <2>2. Behind(a.at) \subseteq Behind(d.at)
    BY <1>4, <2>1 DEF Behind
  <2>3. ~ a.w.raised => Behind(a.at) = Behind(d.at)
    <3>1. ASSUME ~ a.w.raised PROVE a.at = Len(order) + 1
      <4>1. order[a.at] \in Nodes(graph) /\ op = NodeOp(op.node, a) /\ op.node = order[a.at]
              => op.kind \notin {"finish", "fail"}
        BY <1>1, <1>4, NodeOpIs
      <4> QED BY <1>10, <1>11, <3>1, <4>1
    <3>2. \A l \in 1..Len(order) : l < Len(order) + 1 /\ l < Len(order) + 2
      BY <1>4
    <3> QED BY <2>1, <3>1, <3>2 DEF Behind
  <2>4. WalkOK(d.w, d.at)
    BY <2>1, <2>2, <2>3 DEF WalkOK
  <2> QED BY <2>1, <2>4 DEF More, Grows
<1>12. CASE op.kind = "resolve"
  <2>1. d.at = a.at /\ d.w = Gone(a.w, o)
    BY <1>6, <1>12 DEF Parts
  <2>2. a.at = 0
    <3>1. order[a.at] \in Nodes(graph) /\ op = NodeOp(op.node, a) /\ op.node = order[a.at]
            => op.kind # "resolve"
      BY <1>1, <1>4, NodeOpIs
    <3> QED BY <1>10, <1>12, <3>1
  <2>3. /\ DOMAIN d.w = WalkFields /\ d.w.skipped = a.w.skipped /\ d.w.live = a.w.live
        /\ d.w.produced = a.w.produced
    BY <2>1 DEF Gone, WalkOK, WalkFields
  <2>4. Walked(d.w) = Walked(a.w) /\ Outputs(d.w) = Outputs(a.w)
    BY <2>3 DEF Walked, Outputs
  <2>5. Behind(a.at) = {}
    BY <2>2 DEF Behind
  <2>6. WalkOK(d.w, d.at)
    BY <2>1, <2>3, <2>4, <2>5 DEF WalkOK
  <2> QED BY <2>3, <2>4, <2>6 DEF More, Grows, FateIn
<1>13. CASE op.kind = "create"
  <2>1. a.at = 0
    <3>1. order[a.at] \in Nodes(graph) /\ op = NodeOp(op.node, a) /\ op.node = order[a.at]
            => op.kind # "create"
      BY <1>1, <1>4, NodeOpIs
    <3> QED BY <1>10, <1>13, <3>1
  <2>2. d.w = a.w /\ d.at \in {0, 1}
    BY <1>6, <1>13, Zenon DEF Parts
  <2>3. Behind(0) = {} /\ Behind(1) = {}
    BY DEF Behind
  <2>4. WalkOK(d.w, d.at)
    BY <2>1, <2>2, <2>3 DEF WalkOK
  <2> QED BY <2>2, <2>4 DEF More, Grows
<1>14. CASE op.kind \in {"wait", "go"} /\ o.tag = "raise"
  <2>1. d.at = a.at + 1 /\ d.w = Raise(a.w)
    BY <1>6, <1>14 DEF Parts
  <2> QED BY <1>4, <2>1, RaisedOK
<1>15. CASE /\ op.kind \notin {"finish", "fail", "resolve", "create"}
            /\ ~ (op.kind \in {"wait", "go"} /\ o.tag = "raise")
  <2>1. CASE NodeOp(op.node, x) # NoOp
    BY <1>6, <1>9, <1>15, <2>1 DEF Parts
  <2>2. CASE NodeOp(op.node, x) = NoOp
    <3>1. d.at = a.at + 1 /\ d.w = SettleWith(op.node, a.w, y, Branches(op.node))
      BY <1>6, <1>15, <2>2 DEF Parts
    <3>2. /\ a.at \in 1..Len(order) /\ ~ a.w.raised /\ op.node = order[a.at]
          /\ op = NodeOp(op.node, a)
          /\ ~ IsSkipped(graph, op.node, a.w) /\ op.node \notin Capabilities(graph)
      BY <1>10, <1>15
    <3>3. graph.type[op.node] \notin InlineTypes
      <4>1. graph.type[op.node] \in InlineTypes => NodeOp(op.node, a) = NoOp
        BY DEF InlineTypes, NodeOp
      <4> QED BY <1>4, <3>2, <4>1
    <3>4. Ran(op.node, a.w, d.w)
      BY <3>1, <3>3, SettleRan
    <3>5. WalkStep(op.node, a.w, d.w)
      BY <3>2, <3>4 DEF WalkStep
    <3> QED BY <3>1, <3>2, <3>5, StepWalk
  <2> QED BY <2>1, <2>2
<1> QED BY <1>11, <1>12, <1>13, <1>14, <1>15

-----------------------------------------------------------------------------
(* What a step does to the executions, the journal and the fates.           *)

Rest(w) == \A v \in Workers \ {w} : exec'[v] = exec[v]

Stays(v) ==
  \/ exec'[v].phase = "none"
  \/ /\ Live(v) /\ exec'[v].phase # "none" /\ Same(exec'[v], exec[v])
     /\ exec'[v].phase = "direct" => exec[v].phase = "direct"

\* Nodes the execution at w has settled, and none before it, are noted.
Notes(w) ==
  seen' = [n \in DOMAIN seen \cup Walked(exec'[w].w) |->
             IF n \in DOMAIN seen THEN seen[n] ELSE FateIn(exec'[w].w, n)]

Quiet == (\A v \in Workers : Stays(v)) /\ UNCHANGED <<journal, seen>>

Opens(w) ==
  /\ ~ Live(w) /\ Changed(w, Fresh) /\ UNCHANGED <<journal, seen>>
  /\ outcome = "none" /\ outcome' = "none"
  /\ Durable \/ starts = 0
  /\ starts' = starts + 1

Halts(w) ==
  /\ Live(w) /\ Durable /\ Rest(w)
  /\ \E o \in Outcome : Takes(w, o) /\ Ending(NextOp(exec[w]), o)
  /\ \/ exec'[w].phase = "none" /\ seen' = seen
     \/ Same(exec'[w], exec[w]) /\ exec'[w].phase = "direct" /\ Notes(w)

Walks(w) ==
  /\ Live(w) /\ Rest(w) /\ ByInline(exec[w], exec'[w]) /\ exec'[w].phase = "idle"
  /\ Notes(w) /\ UNCHANGED <<journal, outcome>>

Goes(w) ==
  /\ Live(w) /\ Rest(w) /\ exec'[w].phase = "idle"
  /\ \E o \in Outcome : /\ Takes(w, o) /\ ~ Ending(NextOp(exec[w]), o)
                        /\ ByResult(exec[w], o, exec'[w])
  /\ Notes(w) /\ outcome' = outcome

LEMMA SameSelf ==
  ASSUME NEW e
  PROVE  Same(e, e)
BY DEF Same

LEMMA QuietAt ==
  ASSUME ExecInv, NEW w \in Workers, NEW d, Changed(w, d), UNCHANGED <<journal, seen>>,
         \/ d.phase = "none"
         \/ /\ Live(w) /\ d.phase # "none" /\ Same(d, exec[w])
            /\ d.phase = "direct" => exec[w].phase = "direct"
  PROVE  Quiet
<1>1. Stays(w)
  BY DEF Changed, Stays
<1>2. ASSUME NEW v \in Workers \ {w} PROVE Stays(v)
  <2>1. exec'[v] = exec[v]
    BY DEF Changed
  <2> QED BY <2>1, SameSelf DEF Stays, Live
<1> QED BY <1>1, <1>2 DEF Quiet

LEMMA TakeKinds ==
  ASSUME GraphInv, ExecInv, NEW w \in Workers, Live(w), NEW op, op = NextOp(exec[w]),
         op # NoOp, NEW o \in Outcome, Take(w, op, o), Takes(w, o), Ending(op, o) => Durable
  PROVE  Halts(w) \/ Goes(w)
<1>1. DOMAIN exec = Workers /\ ExecOK(exec[w])
  BY DEF ExecInv
<1>2. CASE Leave(w) /\ Ending(op, o)
  <2>1. Changed(w, NoExec) /\ seen' = seen
    BY <1>1, <1>2, InstallIs DEF Leave
  <2>2. exec'[w].phase = "none" /\ Rest(w)
    BY <2>1 DEF Changed, NoExec, Rest
  <2> QED BY <1>2, <2>1, <2>2 DEF Halts
<1>3. CASE Ending(op, o) /\ Install(w, [exec[w] EXCEPT !.phase = "direct"])
  <2>1. PICK d : d = [exec[w] EXCEPT !.phase = "direct"]
    OBVIOUS
  <2>2. exec[w].begun = 0 /\ "direct" \in Phases
    BY <1>1, NextOpIs DEF Phases
  <2>3. Same(d, exec[w]) /\ d.phase = "direct"
    BY <1>1, <2>1, <2>2, PhaseOK DEF Same
  <2>4. Changed(w, d)
    BY <1>1, <1>3, <2>1, InstallIs
  <2>5. exec'[w] = d /\ Rest(w)
    BY <2>4 DEF Changed, Rest
  <2>6. Notes(w)
    BY <1>3, <2>1, <2>5 DEF Install, Notes
  <2> QED BY <1>3, <2>3, <2>5, <2>6 DEF Halts
<1>4. CASE ~ Ending(op, o) /\ Install(w, Consume(exec[w], op, o)) /\ outcome' = outcome
  <2>1. PICK d : d = Consume(exec[w], op, o)
    OBVIOUS
  <2>2. d.phase = "idle" /\ Same(d, Consume(exec[w], op, o))
    BY <1>1, <2>1, ConsumeIs, SameSelf
  <2>3. Changed(w, d)
    BY <1>1, <1>4, <2>1, InstallIs
  <2>4. exec'[w] = d /\ Rest(w)
    BY <2>3 DEF Changed, Rest
  <2>5. Notes(w)
    BY <1>4, <2>1, <2>4 DEF Install, Notes
  <2>6. ByResult(exec[w], o, exec'[w])
    BY <2>2, <2>4 DEF ByResult
  <2> QED BY <1>4, <2>2, <2>4, <2>5, <2>6 DEF Goes
<1>5. \/ Leave(w) /\ Ending(op, o)
      \/ Ending(op, o) /\ Install(w, [exec[w] EXCEPT !.phase = "direct"])
      \/ ~ Ending(op, o) /\ Install(w, Consume(exec[w], op, o)) /\ outcome' = outcome
  <2>1. CASE /\ o.tag = "raise"
             /\ op.kind \in {"resolve", "create", "finish"} \/ (op.kind = "fail" /\ exec[w].at = 0)
    BY <2>1 DEF Take, Ending
  <2>2. CASE ~ Ending(op, o)
    BY <2>2, Zenon DEF Take, Ending
  <2>3. CASE o.tag = "raise" /\ op.kind = "fail" /\ exec[w].at # 0
    BY <2>3, Zenon DEF Take, Ending
  <2> QED BY <2>1, <2>2, <2>3 DEF Ending
<1> QED BY <1>2, <1>3, <1>4, <1>5

LEMMA CommitKinds ==
  ASSUME GraphInv, ExecInv, JournalInv, NEW w \in Workers, Live(w), NEW op,
         op = NextOp(exec[w]), op # NoOp, NEW o \in Outcome, Commit(w, op, o),
         Ending(op, o) => Durable
  PROVE  (Quiet /\ outcome' = outcome) \/ Halts(w) \/ Goes(w)
<1>1. CASE ~ Durable
  <2>1. Take(w, op, o) /\ journal' = journal
    BY <1>1 DEF Commit
  <2>2. Takes(w, o)
    BY <1>1, <2>1 DEF Takes
  <2> QED BY <2>1, <2>2, TakeKinds
<1>2. CASE Durable /\ exec[w].pos < Len(journal)
  <2>1. Leave(w) /\ journal' = journal /\ outcome' = outcome
    BY <1>2, Zenon DEF Commit
  <2>2. Changed(w, NoExec) /\ seen' = seen
    BY <2>1, InstallIs DEF Leave, ExecInv
  <2>3. NoExec.phase = "none"
    BY DEF NoExec
  <2> QED BY <2>1, <2>2, <2>3, QuietAt
<1>3. CASE Durable /\ ~ exec[w].pos < Len(journal)
  <2>1. Take(w, op, o) /\ journal' = Append(journal, [op |-> op, out |-> o])
    BY <1>3, Zenon DEF Commit
  <2>2. exec[w].pos >= Len(journal)
    BY <1>3 DEF ExecInv, ExecOK, JournalInv
  <2>3. Takes(w, o)
    BY <1>3, <2>1, <2>2 DEF Takes
  <2> QED BY <2>1, <2>3, TakeKinds
<1> QED BY <1>1, <1>2, <1>3

Happens == Quiet \/ \E w \in Workers : Opens(w) \/ Halts(w) \/ Walks(w) \/ Goes(w)

\* The children an execution has joined have ended.
LEMMA JoinedEnded ==
  ASSUME GraphInv, ExecInv, MapInv, NEW w \in Workers, Live(w), NEW n, n = order[exec[w].at],
         exec[w].at \in 1..Len(order), graph.type[n] = "map",
         exec[w].joined = 0..(graph.bound[n] - 1)
  PROVE  \A i \in 0..(graph.bound[n] - 1) : child[ChildId(n, i)].tag \in {"ok", "failed"}
<1>1. n \in Composed /\ graph.bound[n] \in Nat
  BY GraphFacts DEF Composed
<1>2. SUFFICES ASSUME NEW i \in 0..(graph.bound[n] - 1)
               PROVE  child[ChildId(n, i)].tag \in {"ok", "failed"}
  OBVIOUS
<1>3. ChildId(n, i) \in ChildIds
  BY <1>1, ChildIdsAre
<1>4. i \in exec[w].joined /\ i \in 0..(exec[w].begun - 1)
  BY <1>1 DEF ExecInv, ExecOK
<1> QED BY <1>3, <1>4 DEF MapInv

LEMMA InlineKind ==
  ASSUME GraphInv, ExecInv, MapInv, NEW w \in Workers, Inline(w)
  PROVE  Walks(w)
<1>1. PICK n, e : e = exec[w] /\ n = order[e.at]
  OBVIOUS
<1>2. /\ Live(w) /\ e.phase = "idle" /\ e.at \in 1..Len(order) /\ NextOp(e) = NoOp
      /\ DOMAIN exec = Workers /\ DOMAIN e = Fields /\ UNCHANGED <<journal, outcome>>
      /\ (graph.type[n] = "map" /\ ~ IsSkipped(graph, n, e.w) /\ ~ TooDeep(n))
           => e.joined = 0..(graph.bound[n] - 1)
  BY <1>1 DEF Inline, Live, ExecInv, ExecOK
<1>3. PICK x : x = IF n \in Capabilities(graph) THEN e.w
                   ELSE IF IsSkipped(graph, n, e.w) THEN SkipNode(n, e.w)
                   ELSE IF graph.type[n] \in InlineTypes THEN WalkInline(graph, n, e.w, input)
                   ELSE SettleNode(n, e)
  OBVIOUS
<1>4. Install(w, Onward(e, x))
  BY <1>1, <1>3, Zenon DEF Inline
<1>5. x = NextWalk(e)
  <2>1. CASE n \in Capabilities(graph)
    BY <1>1, <1>3, <2>1 DEF NextWalk
  <2>2. CASE n \notin Capabilities(graph) /\ IsSkipped(graph, n, e.w)
    BY <1>1, <1>3, <2>2 DEF NextWalk
  <2>3. CASE /\ n \notin Capabilities(graph) /\ ~ IsSkipped(graph, n, e.w)
             /\ graph.type[n] \in InlineTypes
    BY <1>1, <1>3, <2>3 DEF NextWalk
  <2>4. CASE /\ n \notin Capabilities(graph) /\ ~ IsSkipped(graph, n, e.w)
             /\ graph.type[n] \notin InlineTypes
    <3>1. x = SettleWith(n, e.w, e.out, e.joined)
      <4>1. x = SettleNode(n, e)
        BY <1>3, <2>4
      <4> QED BY <4>1, SettleIs
    <3>2. NextWalk(e) = SettleWith(n, e.w, e.out, Branches(n))
      BY <1>1, <2>4, Zenon DEF NextWalk
    <3>3. CASE graph.type[n] = "map" /\ ~ TooDeep(n)
      BY <1>2, <2>4, <3>1, <3>2, <3>3 DEF Branches
    <3>4. CASE graph.type[n] # "map" \/ TooDeep(n)
      BY <3>1, <3>2, <3>4, SettleAny
    <3> QED BY <3>3, <3>4
  <2> QED BY <2>1, <2>2, <2>3, <2>4
<1>6. AllEnded(e)
  <2>1. ASSUME graph.type[n] = "map", ~ IsSkipped(graph, n, e.w), ~ TooDeep(n)
        PROVE  \A i \in 0..(graph.bound[n] - 1) : child[ChildId(n, i)].tag \in {"ok", "failed"}
    <3>1. exec[w].joined = 0..(graph.bound[n] - 1) /\ n = order[exec[w].at]
      BY <1>1, <1>2, <2>1
    <3> QED BY <1>1, <1>2, <2>1, <3>1, JoinedEnded
  <2> QED BY <1>1, <2>1 DEF AllEnded
<1>7. PICK d : d = Onward(e, x)
  OBVIOUS
<1>8. d.phase = "idle" /\ Same(d, Onward(e, NextWalk(e)))
  BY <1>2, <1>5, <1>7, OnwardIs, SameSelf
<1>9. Changed(w, d)
  BY <1>2, <1>4, <1>7, InstallIs
<1>10. exec'[w] = d /\ Rest(w)
  BY <1>9 DEF Changed, Rest
<1>11. Notes(w)
  BY <1>4, <1>7, <1>10 DEF Install, Notes
<1>12. ByInline(exec[w], exec'[w])
  BY <1>1, <1>2, <1>6, <1>8, <1>10 DEF ByInline
<1> QED BY <1>1, <1>2, <1>8, <1>10, <1>11, <1>12 DEF Walks

LEMMA ResultsEndNothing ==
  ASSUME NEW op, NEW o \in Results(op)
  PROVE  ~ Ending(op, o)
BY DEF Results, Ending, Out

LEMMA ReplayKind ==
  ASSUME GraphInv, ExecInv, JournalInv, NEW w \in Workers, Replay(w)
  PROVE  Halts(w) \/ Goes(w)
<1>1. PICK e, op : e = exec[w] /\ op = NextOp(e)
  OBVIOUS
<1>2. /\ Live(w) /\ op # NoOp /\ Take(w, op, journal[e.pos + 1].out)
      /\ journal' = journal /\ Durable /\ e.pos < Len(journal)
      /\ journal[e.pos + 1].op = op
  BY <1>1 DEF Replay, Live, Recorded
<1>3. journal[e.pos + 1] \in Entry
  <2>1. e.pos + 1 \in 1..Len(journal)
    BY <1>1, <1>2 DEF JournalInv, ExecInv, ExecOK
  <2> QED BY <2>1 DEF JournalInv
<1>4. PICK o \in Outcome : o = journal[e.pos + 1].out
  BY <1>3 DEF Entry
<1>5. journal[e.pos + 1] = [op |-> op, out |-> o]
  BY <1>2, <1>3, <1>4 DEF Entry
<1>6. Takes(w, o)
  BY <1>1, <1>2, <1>5 DEF Takes
<1>7. Take(w, op, o)
  BY <1>2, <1>4
<1> QED BY <1>1, <1>2, <1>6, <1>7, TakeKinds

LEMMA OperationKinds ==
  ASSUME GraphInv, ExecInv, BusyInv, JournalInv, ChildInv, NEW w \in Workers,
         Finish(w) \/ StepFails(w) \/ Receive(w)
  PROVE  (Quiet /\ outcome' = outcome) \/ Halts(w) \/ Goes(w)
<1>1. PICK op : op = NextOp(exec[w])
  OBVIOUS
<1>2. Live(w) /\ op # NoOp
  BY <1>1 DEF Finish, StepFails, Receive, Live, BusyInv
<1>3. CASE Finish(w)
  <2>1. PICK o \in Results(op) : Commit(w, op, o) /\ (op.kind = "child" => o.tag \in {"ok", "failed"})
    BY <1>1, <1>3 DEF Finish
  <2>2. op \in Operation /\ (op.kind = "child" => ChildId(op.node, op.i) \in ChildIds)
    BY <1>1, <1>2, ChildOp DEF ExecInv
  <2>3. o \in Outcome
    BY <2>1, <2>2, ResultsAre
  <2>4. ~ Ending(op, o)
    BY ResultsEndNothing
  <2> QED BY <1>1, <1>2, <2>1, <2>3, <2>4, CommitKinds
<1>4. CASE StepFails(w)
  <2>1. PICK o : o = Out("raise", NoValue)
    OBVIOUS
  <2>2. Commit(w, op, o) /\ Durable
    BY <1>1, <1>4, <2>1 DEF StepFails
  <2>3. o \in Outcome
    BY <2>1 DEF Out, Outcome, Known
  <2> QED BY <1>1, <1>2, <2>2, <2>3, CommitKinds
<1>5. CASE Receive(w)
  <2>1. op.kind = "recv"
    BY <1>1, <1>5 DEF Receive
  <2>2. PICK o \in Outcome : Commit(w, op, o)
    <3>1. \/ \E v \in graph.values : Commit(w, op, Out("answer", v))
          \/ Commit(w, op, Out("timeout", NoValue))
      BY <1>1, <1>5 DEF Receive
    <3>2. Out("timeout", NoValue) \in Outcome /\ \A v \in graph.values : Out("answer", v) \in Outcome
      BY DEF Out, Outcome, Known
    <3> QED BY <3>1, <3>2
  <2>3. ~ Ending(op, o)
    BY <2>1 DEF Ending
  <2> QED BY <1>1, <1>2, <2>2, <2>3, CommitKinds
<1> QED BY <1>3, <1>4, <1>5

\* Steps that leave an execution where it is, or drop it.
LEMMA QuietKinds ==
  ASSUME GraphInv, ExecInv, BusyInv, NEW w \in Workers,
         \/ Begin(w) \/ Write(w) \/ DirectWrite(w) \/ FanOut(w) \/ Join(w) \/ End(w) \/ Crash(w)
         \/ Stream(w) \/ Cancel(w) \/ RequestFails(w)
  PROVE  Quiet
<1>1. PICK e : e = exec[w]
  OBVIOUS
<1>2. Live(w) /\ DOMAIN exec = Workers /\ ExecOK(e) /\ DOMAIN e = Fields
  BY <1>1 DEF Begin, Write, DirectWrite, FanOut, Join, End, Crash, Stream, Cancel, RequestFails,
              Live, ExecInv, ExecOK
<1>3. CASE DirectWrite(w) \/ End(w) \/ Crash(w) \/ Cancel(w) \/ RequestFails(w)
  <2>1. Leave(w) /\ journal' = journal
    BY <1>3 DEF DirectWrite, End, Crash, Cancel, RequestFails
  <2>2. Changed(w, NoExec) /\ seen' = seen
    BY <1>2, <2>1, InstallIs DEF Leave
  <2>3. NoExec.phase = "none"
    BY DEF NoExec
  <2> QED BY <2>1, <2>2, <2>3, QuietAt
<1>4. ASSUME NEW d, exec' = [exec EXCEPT ![w] = d], UNCHANGED <<journal, seen>>,
             DOMAIN d = Fields, d.phase # "none", Same(d, e), d.phase = "direct" => e.phase = "direct"
      PROVE  Quiet
  <2>1. Changed(w, d)
    BY <1>2, <1>4, InstallIs
  <2> QED BY <1>1, <1>2, <1>4, <2>1, QuietAt
<1>5. CASE Begin(w) \/ Write(w)
  <2>1. PICK p \in {"busy", "written"} : exec' = [exec EXCEPT ![w] = [e EXCEPT !.phase = p]]
    BY <1>1, <1>5 DEF Begin, Write
  <2>2. PICK d : d = [e EXCEPT !.phase = p]
    OBVIOUS
  <2>3. DOMAIN d = Fields /\ d.phase = p /\ Same(d, e)
    BY <1>2, <2>2 DEF Fields, Same
  <2>4. UNCHANGED <<journal, seen>>
    BY <1>5 DEF Begin, Write
  <2> QED BY <1>4, <2>1, <2>2, <2>3, <2>4
<1>6. CASE FanOut(w)
  <2>1. PICK d : d = [e EXCEPT !.begun = @ + 1]
    OBVIOUS
  <2>2. DOMAIN d = Fields /\ d.phase = e.phase /\ Same(d, e)
    BY <1>2, <2>1 DEF Fields, Same
  <2>3. exec' = [exec EXCEPT ![w] = d] /\ UNCHANGED <<journal, seen>> /\ e.phase = "idle"
    BY <1>1, <1>6, <2>1 DEF FanOut
  <2> QED BY <1>4, <2>2, <2>3
<1>7. CASE Join(w)
  <2>1. PICK i : exec' = [exec EXCEPT ![w] = [e EXCEPT !.joined = @ \cup {i}]]
    BY <1>1, <1>7 DEF Join
  <2>2. PICK d : d = [e EXCEPT !.joined = @ \cup {i}]
    OBVIOUS
  <2>3. DOMAIN d = Fields /\ d.phase = e.phase /\ Same(d, e)
    BY <1>2, <2>2 DEF Fields, Same
  <2>4. UNCHANGED <<journal, seen>> /\ e.phase = "idle"
    BY <1>1, <1>7 DEF Join
  <2> QED BY <1>4, <2>1, <2>2, <2>3, <2>4
<1>8. CASE Stream(w)
  <2>1. PICK d : d = [e EXCEPT !.streams = TRUE]
    OBVIOUS
  <2>2. DOMAIN d = Fields /\ d.phase = e.phase /\ Same(d, e)
    BY <1>2, <2>1 DEF Fields, Same
  <2>3. exec' = [exec EXCEPT ![w] = d] /\ UNCHANGED <<journal, seen>> /\ e.phase # "none"
    BY <1>1, <1>2, <1>8, <2>1 DEF Stream, Live
  <2> QED BY <1>4, <2>2, <2>3
<1> QED BY <1>3, <1>5, <1>6, <1>7, <1>8

LEMMA StepKinds ==
  ASSUME Base, Next
  PROVE  Happens
<1> USE DEF Base
<1>1. ASSUME NEW w \in Workers, Start(w) PROVE Opens(w)
  <2>1. Changed(w, Fresh)
    BY <1>1, InstallIs DEF Start, ExecInv
  <2> QED BY <1>1, <2>1 DEF Start, Opens
<1>2. ASSUME NEW w \in Workers, Work(w) \/ Crash(w) \/ Stream(w) \/ Cancel(w)
                                \/ RequestFails(w)
      PROVE  Quiet \/ Halts(w) \/ Walks(w) \/ Goes(w)
  BY <1>2, InlineKind, ReplayKind, OperationKinds, QuietKinds DEF Work
<1>3. CASE (\E c \in ChildIds : ChildEnds(c)) \/ (\E c \in Callers : ReadGate(c) \/ Answer(c)) \/ Sweep
  <2>1. exec' = exec /\ UNCHANGED <<journal, seen>>
    BY <1>3 DEF ChildEnds, ReadGate, Answer, Sweep
  <2>2. ASSUME NEW v \in Workers PROVE Stays(v)
    <3>1. exec'[v] = exec[v] /\ Same(exec[v], exec[v])
      BY <2>1, SameSelf
    <3> QED BY <3>1 DEF Stays, Live
  <2> QED BY <2>1, <2>2 DEF Quiet, Happens
<1> QED BY <1>1, <1>2, <1>3 DEF Next, Happens

LEMMA StartsCount ==
  ASSUME Next
  PROVE  starts' = starts \/ \E w \in Workers : Start(w)
<1>1. ASSUME NEW w \in Workers, Work(w) \/ Crash(w) \/ Stream(w) \/ Cancel(w)
                                \/ RequestFails(w)
      PROVE  starts' = starts
  BY <1>1 DEF Work, Inline, Replay, Begin, Write, Finish, StepFails, DirectWrite, Receive,
              FanOut, Join, End, Crash, Stream, Cancel, RequestFails
<1>2. ASSUME NEW c, ChildEnds(c) \/ ReadGate(c) \/ Answer(c) PROVE starts' = starts
  BY <1>2 DEF ChildEnds, ReadGate, Answer
<1>3. Sweep => starts' = starts
  BY DEF Sweep
<1> QED BY <1>1, <1>2, <1>3 DEF Next

-----------------------------------------------------------------------------
(* The course of a run.                                                     *)

\* From a to b: over a node without operations, or with a result that is in the journal.
Link(a, b) ==
  \/ ByInline(a, b)
  \/ \E o \in Outcome :
       /\ ByResult(a, o, b) /\ ~ Ending(NextOp(a), o)
       /\ Durable => /\ a.pos + 1 \in DOMAIN journal
                     /\ journal[a.pos + 1] = [op |-> NextOp(a), out |-> o]

\* The journal ends with a result after which e goes no further.
Halted(e) ==
  /\ Durable /\ NextOp(e) # NoOp /\ Len(journal) = e.pos + 1
  /\ journal[Len(journal)].op = NextOp(e)
  /\ Ending(NextOp(e), journal[Len(journal)].out)

\* Children that have ended keep their results.
EndedKept == \A c \in ChildIds : child[c].tag \in {"ok", "failed"} => child'[c] = child[c]

LEMMA KeepNext ==
  ASSUME UNCHANGED ctl, NEW x
  PROVE  (NextOp(x))' = NextOp(x) /\ (ExecOK(x))' = ExecOK(x)
<1>1. (NextOp(x))' = NextOp(x)
  BY DEF NextOp, ctl, NodeOp, LlmOp, CrawlerOp, HumanOp, LoopOp, HasTools, TooDeep, Composed,
         Prologue, Durable
<1>2. (ExecOK(x))' = ExecOK(x)
  BY DEF ExecOK, ctl, Last, Prologue, Durable
<1> QED BY <1>1, <1>2

LEMMA KeepWalk ==
  ASSUME UNCHANGED ctl, NEW w, NEW i
  PROVE  (WalkOK(w, i))' = WalkOK(w, i)
BY DEF WalkOK, ctl, Walked, Behind, Outputs

LEMMA KeepSettle ==
  ASSUME UNCHANGED ctl, NEW n, NEW w, NEW o, NEW J,
         TooDeep(n) \/ graph.type[n] # "map" \/ (Fails(n, J)' = Fails(n, J))
  PROVE  (SettleWith(n, w, o, J))' = SettleWith(n, w, o, J)
<1>1. (TooDeep(n))' = TooDeep(n) /\ graph' = graph
  BY DEF ctl, TooDeep, Composed
<1>2. CASE TooDeep(n)
  BY <1>1, <1>2, Zenon DEF SettleWith
<1>3. CASE graph.type[n] # "map"
  BY <1>1, <1>3 DEF SettleWith
<1>4. CASE Fails(n, J)' = Fails(n, J)
  BY <1>1, <1>4 DEF SettleWith
<1> QED BY <1>2, <1>3, <1>4

LEMMA KeepConsume ==
  ASSUME GraphInv, UNCHANGED ctl, NEW e, ExecOK(e), NEW op, op = NextOp(e), op # NoOp, NEW o
  PROVE  (Consume(e, op, o))' = Consume(e, op, o)
<1>1. /\ order' = order /\ (Prologue)' = Prologue
      /\ \A n, x : (NodeOp(n, x))' = NodeOp(n, x)
  BY DEF ctl, Prologue, Durable, NodeOp, LlmOp, CrawlerOp, HumanOp, LoopOp, HasTools, TooDeep,
         Composed
<1>2. CASE graph.type[op.node] # "map"
  <2>1. ASSUME NEW x PROVE (SettleNode(op.node, x))' = SettleNode(op.node, x)
    <3>1. SettleNode(op.node, x) = SettleWith(op.node, x.w, x.out, x.joined)
      BY SettleIs
    <3>2. (SettleNode(op.node, x))' = (SettleWith(op.node, x.w, x.out, x.joined))'
      BY Zenon DEF SettleNode, SettleWith, Fails
    <3>3. (SettleWith(op.node, x.w, x.out, x.joined))' = SettleWith(op.node, x.w, x.out, x.joined)
      BY <1>2, KeepSettle
    <3> QED BY <3>1, <3>2, <3>3
  <2> QED BY <1>1, <2>1 DEF Consume
<1>3. CASE op.kind \in {"finish", "fail"} \/ e.at = 0
  BY <1>1, <1>3 DEF Consume
<1>4. \/ graph.type[op.node] # "map"
      \/ op.kind \in {"finish", "fail"} \/ e.at = 0
  <2>1. graph.type[op.node] = "map" => NodeOp(op.node, e) = NoOp
    BY DEF NodeOp
  <2> QED BY <2>1, NextOpIs DEF Op
<1> QED BY <1>2, <1>3, <1>4

LEMMA KeepInline ==
  ASSUME GraphInv, UNCHANGED ctl, EndedKept, NEW a, NEW b, ByInline(a, b)
  PROVE  (ByInline(a, b))'
<1>1. PICK n : n = order[a.at]
  OBVIOUS
<1>2. /\ graph' = graph /\ order' = order /\ input' = input /\ (NoOp)' = NoOp
      /\ (TooDeep(n))' = TooDeep(n) /\ (NextOp(a))' = NextOp(a)
      /\ (Branches(n))' = Branches(n)
  BY KeepNext DEF ctl, TooDeep, Composed, Branches, NoOp
<1>3. n \in Nodes(graph)
  BY <1>1, GraphFacts DEF ByInline
<1>4. ASSUME graph.type[n] = "map", ~ IsSkipped(graph, n, a.w), ~ TooDeep(n),
             NEW i \in 0..(graph.bound[n] - 1)
      PROVE  /\ child[ChildId(n, i)].tag \in {"ok", "failed"}
             /\ child'[ChildId(n, i)] = child[ChildId(n, i)]
  <2>1. n \in Composed
    BY <1>3, <1>4 DEF Composed
  <2>2. ChildId(n, i) \in ChildIds
    BY <1>4, <2>1, ChildIdsAre
  <2>3. child[ChildId(n, i)].tag \in {"ok", "failed"}
    BY <1>1, <1>4 DEF ByInline, AllEnded
  <2> QED BY <2>2, <2>3 DEF EndedKept
<1>5. (AllEnded(a))'
  BY <1>1, <1>2, <1>4 DEF AllEnded, ChildId
<1>6. (NextWalk(a))' = NextWalk(a)
  <2>1. CASE n \in Capabilities(graph) \/ IsSkipped(graph, n, a.w) \/ graph.type[n] \in InlineTypes
    BY <1>1, <1>2, <2>1, Zenon DEF NextWalk
  <2>2. CASE /\ n \notin Capabilities(graph) /\ ~ IsSkipped(graph, n, a.w)
             /\ graph.type[n] \notin InlineTypes
    <3>1. (SettleWith(n, a.w, a.out, Branches(n)))' = SettleWith(n, a.w, a.out, Branches(n))
      <4>1. PICK J : J = Branches(n)
        OBVIOUS
      <4>2. graph.type[n] = "map" /\ ~ TooDeep(n) => Fails(n, J)' = Fails(n, J)
        BY <1>4, <2>2, <4>1 DEF Fails, Branches, ChildId
      <4>3. (SettleWith(n, a.w, a.out, J))' = SettleWith(n, a.w, a.out, J)
        BY <4>2, KeepSettle
      <4> QED BY <1>2, <4>1, <4>3
    <3>2. /\ NextWalk(a) = SettleWith(n, a.w, a.out, Branches(n))
          /\ (NextWalk(a))' = (SettleWith(n, a.w, a.out, Branches(n)))'
      BY <1>1, <1>2, <2>2, Zenon DEF NextWalk
    <3> QED BY <3>1, <3>2
  <2> QED BY <2>1, <2>2
<1> QED BY <1>2, <1>5, <1>6 DEF ByInline, Same, Onward, NoOut

LEMMA KeepLink ==
  ASSUME GraphInv, UNCHANGED ctl, EndedKept, NEW a, ExecOK(a), NEW b, Link(a, b),
         \A i \in DOMAIN journal : i \in DOMAIN journal' /\ journal'[i] = journal[i]
  PROVE  (Link(a, b))'
<1>1. CASE ByInline(a, b)
  BY <1>1, KeepInline DEF Link
<1>2. ASSUME NEW o \in Outcome, ByResult(a, o, b), ~ Ending(NextOp(a), o),
             Durable => /\ a.pos + 1 \in DOMAIN journal
                        /\ journal[a.pos + 1] = [op |-> NextOp(a), out |-> o]
      PROVE  (Link(a, b))'
  <2>1. /\ (NextOp(a))' = NextOp(a) /\ (NoOp)' = NoOp /\ (Outcome)' = Outcome
        /\ (Durable)' = Durable
    BY KeepNext DEF NoOp, Outcome, Known, ctl, Durable
  <2>2. NextOp(a) # NoOp
    BY <1>2 DEF ByResult
  <2>3. PICK op : op = NextOp(a)
    OBVIOUS
  <2>4. (Consume(a, op, o))' = Consume(a, op, o)
    BY <2>2, <2>3, KeepConsume
  <2>5. (ByResult(a, o, b))'
    <3>1. (Consume(a, NextOp(a), o))' = Consume(a, NextOp(a), o)
      <4>1. (Consume(a, NextOp(a), o))' = (Consume(a, op, o))'
        BY <2>1, <2>3
      <4> QED BY <2>3, <2>4, <4>1
    <3> QED BY <1>2, <2>1, <3>1 DEF ByResult, Same
  <2>6. ~ (Ending(NextOp(a), o))'
    BY <1>2, <2>1 DEF Ending
  <2> QED BY <1>2, <2>1, <2>5, <2>6 DEF Link
<1> QED BY <1>1, <1>2 DEF Link

\* h is the course of the run so far: the m places its executions walk through.
Path(m, h) ==
  /\ m \in Nat \ {0} /\ DOMAIN h = 1..m
  /\ \A i \in 1..m : ExecOK(h[i]) /\ WalkOK(h[i].w, h[i].at)
  /\ Same(h[1], Fresh)
  /\ \A i \in 1..(m - 1) : Link(h[i], h[i + 1])
  /\ \A i, j \in 1..m : i <= j => Grows(h[i].w, h[j].w)

\* The fates are those of its last place.
Noted(m, h) == seen = [n \in Walked(h[m].w) |-> FateIn(h[m].w, n)]

\* The journal has what the last place consumed, and perhaps the result that ends it.
Ledger(m, h) == Durable => Len(journal) = h[m].pos \/ Halted(h[m])

\* Every execution is at a place of the course; an interactive one at the last.
Placed(m, h) ==
  \A w \in Workers : Live(w) =>
    \E i \in 1..m : Same(exec[w], h[i]) /\ (~ Durable => i = m)

\* Once the run is over the course is at its end.
Over(m, h) ==
  outcome # "none" => IF Durable THEN h[m].at = Last \/ Halted(h[m])
                      ELSE \A w \in Workers : ~ Live(w)

Directs(m, h) == \A w \in Workers : exec[w].phase = "direct" => Halted(h[m])

\* An interactive run is executed once.
Solo(m) ==
  ~ Durable => /\ \A v, w \in Workers : Live(v) /\ Live(w) => v = w
               /\ starts = 0 => m = 1 /\ \A w \in Workers : ~ Live(w)

Course(m, h) == /\ Path(m, h) /\ Noted(m, h) /\ Ledger(m, h) /\ Placed(m, h) /\ Over(m, h)
                /\ Directs(m, h) /\ Solo(m)

CourseInv == \E m, h : Course(m, h)

LEMMA KeepPath ==
  ASSUME GraphInv, UNCHANGED ctl, EndedKept, NEW m, NEW h, Path(m, h),
         \A i \in DOMAIN journal : i \in DOMAIN journal' /\ journal'[i] = journal[i]
  PROVE  (Path(m, h))'
<1>1. ASSUME NEW i \in 1..m PROVE (ExecOK(h[i]))' /\ (WalkOK(h[i].w, h[i].at))'
  <2>1. PICK x : x = h[i]
    OBVIOUS
  <2>2. ExecOK(x) /\ WalkOK(x.w, x.at)
    BY <2>1 DEF Path
  <2>3. (ExecOK(x))' /\ (WalkOK(x.w, x.at))'
    BY <2>2, KeepNext, KeepWalk
  <2> QED BY <2>1, <2>3
<1>2. ASSUME NEW i \in 1..(m - 1) PROVE (Link(h[i], h[i + 1]))'
  <2>1. i \in 1..m /\ i + 1 \in 1..m
    BY DEF Path
  <2>2. PICK a, b : a = h[i] /\ b = h[i + 1]
    OBVIOUS
  <2>3. ExecOK(a) /\ Link(a, b)
    BY <2>1, <2>2 DEF Path
  <2>4. (Link(a, b))'
    BY <2>3, KeepLink
  <2> QED BY <2>2, <2>4
<1>3. /\ m \in Nat \ {0} /\ DOMAIN h = 1..m
      /\ (Same(h[1], Fresh))'
      /\ \A i, j \in 1..m : i <= j => (Grows(h[i].w, h[j].w))'
  BY DEF Path, Same, Grows, Fresh, NoOut, NewWalk, Walked, FateIn, Skipped
<1> QED BY <1>1, <1>2, <1>3, Zenon DEF Path

\* The nodes an execution settles that is on the course are noted already.
LEMMA NotesNothing ==
  ASSUME NEW m, NEW h, Path(m, h), Noted(m, h), NEW w \in Workers, Notes(w),
         NEW i \in 1..m, exec'[w].w = h[i].w
  PROVE  seen' = seen
<1>1. m \in 1..m
  BY DEF Path
<1>2. Walked(exec'[w].w) \subseteq DOMAIN seen
  <2>1. Grows(h[i].w, h[m].w)
    BY <1>1 DEF Path
  <2> QED BY <2>1 DEF Grows, Noted
<1>3. seen' = [n \in DOMAIN seen |-> IF n \in DOMAIN seen THEN seen[n] ELSE FateIn(exec'[w].w, n)]
  BY <1>2 DEF Notes
<1>4. seen' = [n \in DOMAIN seen |-> seen[n]]
  BY <1>3
<1>5. seen = [n \in DOMAIN seen |-> seen[n]]
  BY DEF Noted
<1> QED BY <1>4, <1>5

\* The course goes one place further.
Further(m, h, d) == [i \in 1..(m + 1) |-> IF i <= m THEN h[i] ELSE d]

LEMMA FurtherPath ==
  ASSUME NEW m, NEW h, (Path(m, h))', NEW d, (ExecOK(d))', (WalkOK(d.w, d.at))',
         Grows(h[m].w, d.w), (Link(h[m], d))'
  PROVE  (Path(m + 1, Further(m, h, d)))'
<1>0. \A u, x : (Grows(u, x))' = Grows(u, x)
  BY DEF Grows, Walked, FateIn, Skipped
<1>1. PICK f : f = Further(m, h, d)
  OBVIOUS
<1>2. /\ m \in Nat \ {0} /\ DOMAIN f = 1..(m + 1) /\ f[m + 1] = d /\ m \in 1..m
      /\ \A i \in 1..m : f[i] = h[i]
  BY <1>1 DEF Further, Path
<1>3. \A i \in 1..(m + 1) : i = m + 1 \/ i \in 1..m
  BY <1>2
<1>4. \A i \in 1..(m + 1) : (ExecOK(f[i]))' /\ (WalkOK(f[i].w, f[i].at))'
  BY <1>2, <1>3 DEF Path
<1>5. (Same(f[1], Fresh))'
  BY <1>2 DEF Path
<1>6. ASSUME NEW i \in 1..(m + 1 - 1) PROVE (Link(f[i], f[i + 1]))'
  <2>1. CASE i = m
    BY <1>2, <2>1
  <2>2. CASE i # m
    <3>1. i \in 1..(m - 1) /\ i \in 1..m /\ i + 1 \in 1..m
      BY <1>2, <2>2
    <3>2. (Link(h[i], h[i + 1]))' /\ f[i] = h[i] /\ f[i + 1] = h[i + 1]
      BY <1>2, <3>1 DEF Path
    <3> QED BY <3>2
  <2> QED BY <2>1, <2>2
<1>7. ASSUME NEW i \in 1..(m + 1), NEW j \in 1..(m + 1), i <= j PROVE Grows(f[i].w, f[j].w)
  <2>1. CASE j \in 1..m
    <3>1. i \in 1..m
      BY <1>2, <1>7, <2>1
    <3> QED BY <1>0, <1>2, <1>7, <2>1, <3>1 DEF Path
  <2>2. CASE j = m + 1 /\ i \in 1..m
    <3>1. Grows(h[i].w, h[m].w)
      BY <1>0, <1>2, <2>2 DEF Path
    <3>2. Grows(h[i].w, d.w)
      BY <3>1, GrowsOn
    <3> QED BY <1>2, <2>2, <3>2
  <2>3. CASE j = m + 1 /\ i = m + 1
    BY <2>3 DEF Grows
  <2> QED BY <1>3, <2>1, <2>2, <2>3
<1>8. m + 1 \in Nat \ {0}
  BY <1>2
<1>9. (Path(m + 1, f))'
  BY <1>0, <1>2, <1>4, <1>5, <1>6, <1>7, <1>8 DEF Path
<1> QED BY <1>1, <1>9

-----------------------------------------------------------------------------
(* The steps of the executions and the course.                              *)

\* An execution that is not at the end of the course: what comes next is known.
LEMMA OnCourse ==
  ASSUME NEW m, NEW h, Path(m, h), NEW i \in 1..m, i # m, NEW e, Same(e, h[i])
  PROVE  /\ i + 1 \in 1..m /\ e.at # Last
         /\ NextOp(e) = NoOp => ByInline(h[i], h[i + 1])
         /\ NextOp(e) # NoOp => \E o \in Outcome :
              /\ ByResult(h[i], o, h[i + 1]) /\ ~ Ending(NextOp(e), o)
              /\ Durable => /\ e.pos + 1 \in DOMAIN journal
                            /\ journal[e.pos + 1] = [op |-> NextOp(e), out |-> o]
<1>1. i \in 1..(m - 1) /\ i + 1 \in 1..m
  BY DEF Path
<1>2. PICK a, b : a = h[i] /\ b = h[i + 1]
  OBVIOUS
<1>3. Link(a, b)
  BY <1>1, <1>2 DEF Path
<1>4. NextOp(a) = NextOp(e) /\ a.pos = e.pos /\ a.at = e.at
  BY <1>2, SameNext DEF Same
<1>5. CASE ByInline(a, b)
  <2>1. Last \notin 1..Len(order)
    <3>1. CASE Len(order) \in Nat
      BY <3>1 DEF Last
    <3>2. CASE Len(order) \notin Nat
      <4>1. e.at \in 1..Len(order)
        BY <1>4, <1>5 DEF ByInline
      <4> QED BY <3>2
    <3> QED BY <3>1, <3>2
  <2>2. e.at \in 1..Len(order) /\ NextOp(e) = NoOp
    BY <1>4, <1>5 DEF ByInline
  <2> QED BY <1>1, <1>2, <1>5, <2>1, <2>2
<1>6. ASSUME NEW o \in Outcome, ByResult(a, o, b), ~ Ending(NextOp(a), o),
             Durable => /\ a.pos + 1 \in DOMAIN journal
                        /\ journal[a.pos + 1] = [op |-> NextOp(a), out |-> o]
      PROVE  /\ e.at # Last /\ NextOp(e) # NoOp
             /\ \E y \in Outcome :
                  /\ ByResult(h[i], y, h[i + 1]) /\ ~ Ending(NextOp(e), y)
                  /\ Durable => /\ e.pos + 1 \in DOMAIN journal
                                /\ journal[e.pos + 1] = [op |-> NextOp(e), out |-> y]
  <2>1. NextOp(a) # NoOp
    BY <1>6 DEF ByResult
  <2>2. a.at = Last => NextOp(a) = NoOp
    BY DEF NextOp, Last
  <2> QED BY <1>2, <1>4, <1>6, <2>1, <2>2
<1> QED BY <1>1, <1>3, <1>5, <1>6 DEF Link

\* What every step leaves alone.
Steady == /\ UNCHANGED ctl /\ EndedKept
          /\ \A i \in DOMAIN journal : i \in DOMAIN journal' /\ journal'[i] = journal[i]

LEMMA KeepHalted ==
  ASSUME UNCHANGED ctl, UNCHANGED journal, NEW x
  PROVE  (Halted(x))' = Halted(x)
<1>1. (NextOp(x))' = NextOp(x) /\ (Durable)' = Durable /\ (NoOp)' = NoOp
  BY KeepNext DEF ctl, Durable, NoOp
<1> QED BY <1>1 DEF Halted, Ending

LEMMA KeepNoted ==
  ASSUME NEW m, NEW h, Noted(m, h), seen' = seen
  PROVE  (Noted(m, h))'
BY DEF Noted, Walked, FateIn, Skipped

LEMMA KeepCourse ==
  ASSUME GraphInv, Steady, NEW m, NEW h, Course(m, h), seen' = seen,
         (Ledger(m, h))', (Placed(m, h))', (Over(m, h))', (Directs(m, h))', (Solo(m))'
  PROVE  (Course(m, h))'
<1>1. (Path(m, h))'
  BY KeepPath DEF Steady, Course
<1>2. (Noted(m, h))'
  BY KeepNoted DEF Course
<1> QED BY <1>1, <1>2 DEF Course

\* The execution at w goes where none was before.
Lengthens(w, m, h) ==
  /\ Walks(w) \/ Goes(w)
  /\ Same(exec[w], h[m]) /\ ~ Halted(h[m])
  /\ \E f : f = Further(m, h, exec'[w]) /\ (Course(m + 1, f))'

LEMMA Extend ==
  ASSUME GraphInv, Steady, NEW m, NEW h, Course(m, h), NEW w \in Workers, Live(w),
         Same(exec[w], h[m]), Rest(w), Notes(w), UNCHANGED <<outcome, starts>>,
         NEW d, d = exec'[w], d.phase = "idle", (ExecOK(d))', WalkOK(d.w, d.at),
         Grows(h[m].w, d.w), (Link(h[m], d))', ~ Halted(h[m]), h[m].at # Last,
         Durable => Len(journal') = d.pos
  PROVE  \E f : f = Further(m, h, d) /\ (Course(m + 1, f))'
<1>1. PICK f : f = Further(m, h, d)
  OBVIOUS
<1>2. m \in Nat \ {0} /\ f[m + 1] = d /\ \A i \in 1..m : f[i] = h[i] /\ i \in 1..(m + 1)
  BY <1>1 DEF Further, Course, Path
<1>3. (Path(m + 1, f))'
  <2>1. (Path(m, h))'
    BY KeepPath DEF Steady, Course
  <2>2. (WalkOK(d.w, d.at))'
    BY KeepWalk DEF Steady
  <2> QED BY <1>1, <2>1, <2>2, FurtherPath
<1>4. (Noted(m + 1, f))'
  <2>1. DOMAIN seen = Walked(h[m].w) /\ \A n \in Walked(h[m].w) : seen[n] = FateIn(h[m].w, n)
    BY DEF Course, Noted
  <2>2. seen' = [n \in DOMAIN seen \cup Walked(d.w) |->
                   IF n \in DOMAIN seen THEN seen[n] ELSE FateIn(d.w, n)]
    BY DEF Notes
  <2>3. DOMAIN seen \cup Walked(d.w) = Walked(d.w)
    BY <2>1 DEF Grows
  <2>4. \A n \in Walked(d.w) : (IF n \in DOMAIN seen THEN seen[n] ELSE FateIn(d.w, n)) = FateIn(d.w, n)
    BY <2>1 DEF Grows
  <2>5. seen' = [n \in Walked(d.w) |-> FateIn(d.w, n)]
    BY <2>2, <2>3, <2>4
  <2> QED BY <1>2, <2>5 DEF Noted, Walked, FateIn, Skipped
<1>5. (Durable)' = Durable
  BY DEF Steady, ctl, Durable
<1>6. (Ledger(m + 1, f))'
  BY <1>2, <1>5 DEF Ledger
<1>7. ~ Durable => \A v \in Workers \ {w} : ~ Live(v)
  BY DEF Course, Solo
<1>8. (Placed(m + 1, f))'
  <2>1. SUFFICES ASSUME NEW v \in Workers, exec'[v].phase # "none"
                 PROVE  \E i \in 1..(m + 1) : Same(exec'[v], f[i]) /\ (~ Durable => i = m + 1)
    BY <1>5 DEF Placed, Live, Same
  <2>2. CASE v = w
    BY <1>2, <2>2, SameSelf
  <2>3. CASE v # w
    <3>1. exec'[v] = exec[v] /\ Live(v) /\ Durable
      BY <1>7, <2>1, <2>3 DEF Rest, Live
    <3>2. PICK i \in 1..m : Same(exec[v], h[i])
      BY <3>1 DEF Course, Placed
    <3>3. Same(exec'[v], f[i]) /\ i \in 1..(m + 1)
      BY <1>2, <3>1, <3>2
    <3> QED BY <3>1, <3>3
  <2> QED BY <2>2, <2>3
<1>9. (Over(m + 1, f))'
  <2>1. outcome = "none"
    BY DEF Course, Over
  <2> QED BY <2>1 DEF Over
<1>10. (Directs(m + 1, f))'
  <2>1. \A v \in Workers : exec'[v].phase # "direct"
    BY DEF Course, Directs, Rest
  <2> QED BY <2>1 DEF Directs
<1>11. (Solo(m + 1))'
  <2>1. ~ Durable => starts # 0
    BY DEF Course, Solo
  <2>2. ~ Durable => \A v \in Workers : exec'[v].phase # "none" => v = w
    BY <1>7 DEF Rest, Live
  <2> QED BY <1>5, <2>1, <2>2 DEF Solo, Live
<1>12. (Course(m + 1, f))'
  BY <1>3, <1>4, <1>6, <1>8, <1>9, <1>10, <1>11 DEF Course
<1> QED BY <1>1, <1>12

\* The execution at w goes where one has been.
LEMMA Rejoin ==
  ASSUME GraphInv, Steady, NEW m, NEW h, Course(m, h), NEW w \in Workers, Live(w), Durable,
         Rest(w), Notes(w), UNCHANGED <<journal, outcome>>, exec'[w].phase = "idle",
         NEW i \in 1..m, Same(exec'[w], h[i])
  PROVE  (Course(m, h))'
<1>1. seen' = seen
  BY NotesNothing DEF Course, Same
<1>2. (Halted(h[m]))' = Halted(h[m]) /\ (Durable)' = Durable /\ (Last)' = Last
  BY KeepHalted DEF Steady, ctl, Durable, Last
<1>3. (Ledger(m, h))'
  BY <1>2 DEF Course, Ledger
<1>4. (Placed(m, h))'
  <2>1. SUFFICES ASSUME NEW v \in Workers, exec'[v].phase # "none"
                 PROVE  \E j \in 1..m : Same(exec'[v], h[j])
    BY <1>2 DEF Placed, Live, Same
  <2>2. CASE v # w
    BY <2>1, <2>2 DEF Rest, Course, Placed, Live
  <2> QED BY <2>2
<1>5. (Over(m, h))'
  BY <1>2 DEF Course, Over
<1>6. (Directs(m, h))'
  BY <1>2 DEF Course, Directs, Rest
<1>7. (Solo(m))'
  BY <1>2 DEF Solo
<1> QED BY <1>1, <1>3, <1>4, <1>5, <1>6, <1>7, KeepCourse

LEMMA StepsSteady ==
  ASSUME Base, Next
  PROVE  Steady
<1>1. Records /\ UNCHANGED ctl /\ ChildMoves
  BY Moves, ChildrenMove DEF Base
<1>2. EndedKept
  BY <1>1, ChildrenGrow DEF Base, EndedKept
<1>3. \A i \in DOMAIN journal : i \in DOMAIN journal' /\ journal'[i] = journal[i]
  BY <1>1, JournalGrows DEF Base
<1> QED BY <1>1, <1>2, <1>3 DEF Steady

\* Where an execution goes: to the next place of the course, or past its end.
Onto(w, m, h, i) ==
  IF i # m THEN i + 1 \in 1..m /\ Same(exec'[w], h[i + 1])
  ELSE ~ Halted(h[m]) /\ h[m].at # Last

LEMMA WalksFrom ==
  ASSUME Base, NEW m, NEW h, Course(m, h), NEW w \in Workers, Walks(w),
         NEW i \in 1..m, Same(exec[w], h[i])
  PROVE  Onto(w, m, h, i) /\ (i = m => ByInline(h[m], exec'[w]))
<1> USE DEF Base
<1>1. PICK e, d : e = exec[w] /\ d = exec'[w]
  OBVIOUS
<1>2. ByInline(e, d) /\ ExecOK(e) /\ NextOp(e) = NoOp /\ e.at \in 1..Len(order)
  BY <1>1 DEF Walks, ByInline, ExecInv
<1>3. PICK g : g = h[i]
  OBVIOUS
<1>4. ExecOK(g) /\ Path(m, h) /\ Same(e, g)
  BY <1>1, <1>3 DEF Course, Path
<1>5. ASSUME NEW x, ByInline(g, x) PROVE Same(d, x)
  <2>1. PICK y : y = NextWalk(e)
    OBVIOUS
  <2>2. y = NextWalk(g)
    BY <1>4, <2>1, SameWalk
  <2>3. Same(Onward(e, y), Onward(g, y))
    BY <1>2, <1>4, SameOnward DEF ExecOK
  <2>4. Same(d, Onward(e, y)) /\ Same(x, Onward(g, y))
    BY <1>2, <1>5, <2>1, <2>2 DEF ByInline
  <2> QED BY <2>3, <2>4 DEF Same
<1>6. CASE i # m
  <2>1. NextOp(e) = NoOp => ByInline(h[i], h[i + 1])
    BY <1>3, <1>4, <1>6, OnCourse
  <2>2. i + 1 \in 1..m
    BY <1>3, <1>4, <1>6, OnCourse
  <2>3. Same(d, h[i + 1])
    BY <1>2, <1>3, <1>5, <2>1
  <2> QED BY <1>1, <1>6, <2>2, <2>3 DEF Onto
<1>7. CASE i = m
  <2>1. ByInline(g, d)
    <3>1. PICK y : y = NextWalk(e)
      OBVIOUS
    <3>2. y = NextWalk(g) /\ AllEnded(g)
      BY <1>2, <1>4, <3>1, SameWalk DEF ByInline
    <3>3. Same(Onward(e, y), Onward(g, y))
      BY <1>2, <1>4, SameOnward DEF ExecOK
    <3>4. Same(d, Onward(g, y))
      BY <1>2, <3>1, <3>3 DEF ByInline, Same
    <3>5. NextOp(g) = NoOp /\ g.at \in 1..Len(order)
      BY <1>2, <1>4, SameNext DEF Same
    <3> QED BY <3>2, <3>4, <3>5 DEF ByInline
  <2>2. ~ Halted(g) /\ g.at # Last
    <3>1. NextOp(g) = NoOp /\ g.at \in 1..Len(order)
      BY <2>1 DEF ByInline
    <3>2. Last \notin 1..Len(order)
      BY GraphFacts DEF Last
    <3> QED BY <3>1, <3>2 DEF Halted
  <2> QED BY <1>1, <1>3, <1>7, <2>1, <2>2 DEF Onto
<1> QED BY <1>6, <1>7

LEMMA WalksNext ==
  ASSUME Base, Steady, NEW m, NEW h, Course(m, h), NEW w \in Workers, Walks(w), starts' = starts,
         ExecInv'
  PROVE  (Course(m, h))' \/ Lengthens(w, m, h)
<1> USE DEF Base
<1>1. PICK d : d = exec'[w]
  OBVIOUS
<1>2. Live(w) /\ Rest(w) /\ Notes(w) /\ UNCHANGED <<journal, outcome>> /\ d.phase = "idle"
  BY <1>1 DEF Walks
<1>3. PICK i \in 1..m : Same(exec[w], h[i]) /\ (~ Durable => i = m)
  BY <1>2 DEF Course, Placed
<1>4. Onto(w, m, h, i) /\ (i = m => ByInline(h[m], d))
  BY <1>1, <1>3, WalksFrom
<1>5. CASE i # m
  BY <1>1, <1>2, <1>3, <1>4, <1>5, Rejoin DEF Onto
<1>6. CASE i = m
  <2>1. PICK g : g = h[m]
    OBVIOUS
  <2>2. ExecOK(g) /\ WalkOK(g.w, g.at) /\ ByInline(g, d)
    BY <1>3, <1>4, <1>6, <2>1 DEF Course, Path
  <2>3. WalkOK(d.w, d.at) /\ Grows(g.w, d.w) /\ d.pos = g.pos
    BY <2>2, InlineWalks DEF More
  <2>4. (Link(g, d))'
    <3>1. (ByInline(g, d))'
      BY <2>2, KeepInline DEF Steady
    <3> QED BY <3>1 DEF Link
  <2>5. ~ Halted(g) /\ g.at # Last
    BY <1>4, <1>6, <2>1 DEF Onto
  <2>6. Durable => Len(journal') = d.pos
    BY <1>2, <2>1, <2>3, <2>5 DEF Course, Ledger
  <2>7. (ExecOK(d))'
    BY <1>1, <1>2 DEF ExecInv, Live
  <2>8. \E f : f = Further(m, h, d) /\ (Course(m + 1, f))'
    BY <1>1, <1>2, <1>3, <1>6, <2>1, <2>3, <2>4, <2>5, <2>6, <2>7, Extend
  <2> QED BY <1>1, <1>3, <1>6, <2>1, <2>5, <2>8 DEF Lengthens
<1> QED BY <1>5, <1>6

LEMMA GoesFrom ==
  ASSUME Base, NEW m, NEW h, Course(m, h), NEW w \in Workers, Goes(w),
         NEW i \in 1..m, Same(exec[w], h[i]), ~ Durable => i = m
  PROVE  /\ Onto(w, m, h, i)
         /\ i # m => journal' = journal
         /\ \E o \in Outcome : /\ Takes(w, o) /\ ~ Ending(NextOp(exec[w]), o)
                               /\ ByResult(h[i], o, exec'[w])
<1> USE DEF Base
<1>1. PICK e, d : e = exec[w] /\ d = exec'[w]
  OBVIOUS
<1>2. ExecOK(e)
  BY <1>1 DEF Goes, ExecInv
<1>3. PICK op : op = NextOp(e)
  OBVIOUS
<1>4. PICK o \in Outcome : Takes(w, o) /\ ~ Ending(op, o) /\ ByResult(e, o, d)
  BY <1>1, <1>3 DEF Goes
<1>5. op # NoOp /\ Same(d, Consume(e, op, o))
  BY <1>3, <1>4 DEF ByResult
<1>7. PICK g : g = h[i]
  OBVIOUS
<1>8. ExecOK(g) /\ WalkOK(g.w, g.at) /\ Path(m, h) /\ Same(e, g) /\ g.pos = e.pos
  BY <1>1, <1>7 DEF Course, Path, Same
<1>9. op = NextOp(g) /\ Same(Consume(e, op, o), Consume(g, op, o))
  BY <1>2, <1>3, <1>5, <1>8, SameNext, SameConsume
<1>10. ByResult(g, o, d)
  BY <1>5, <1>9 DEF ByResult, Same
<1>11. g.pos \in Nat
  BY <1>8 DEF ExecOK
<1>12. g.at # Last
  <2>1. g.at = Last => NextOp(g) = NoOp
    BY GraphFacts DEF NextOp, Last
  <2> QED BY <1>5, <1>9, <2>1
<1>13. CASE i # m
  <2>1. PICK y \in Outcome : /\ ByResult(g, y, h[i + 1])
                             /\ Durable => /\ e.pos + 1 \in DOMAIN journal
                                           /\ journal[e.pos + 1] = [op |-> op, out |-> y]
    <3>1. NextOp(e) # NoOp => \E y \in Outcome :
            /\ ByResult(h[i], y, h[i + 1]) /\ ~ Ending(NextOp(e), y)
            /\ Durable => /\ e.pos + 1 \in DOMAIN journal
                          /\ journal[e.pos + 1] = [op |-> NextOp(e), out |-> y]
      BY <1>1, <1>8, <1>13, OnCourse
    <3> QED BY <1>3, <1>5, <1>7, <3>1
  <2>2. Durable /\ i + 1 \in 1..m
    BY <1>1, <1>8, <1>13, OnCourse
  <2>3. e.pos < Len(journal)
    BY <1>8, <1>11, <2>1, <2>2 DEF JournalInv
  <2>4. journal' = journal /\ journal[e.pos + 1] = [op |-> op, out |-> o]
    BY <1>1, <1>3, <1>4, <1>8, <1>11, <2>2, <2>3 DEF Takes, JournalInv
  <2>5. y = o
    BY <2>1, <2>2, <2>4
  <2>6. Same(d, h[i + 1])
    BY <1>10, <2>1, <2>5 DEF ByResult, Same
  <2>7. Onto(w, m, h, i)
    BY <1>1, <1>13, <2>2, <2>6 DEF Onto
  <2> QED BY <1>1, <1>3, <1>4, <1>7, <1>10, <1>13, <2>4, <2>7
<1>14. CASE i = m
  <2>1. ~ Halted(g)
    <3>1. SUFFICES ASSUME Halted(g) PROVE FALSE
      OBVIOUS
    <3>2. Durable /\ e.pos < Len(journal) /\ Len(journal) = e.pos + 1
      BY <1>8, <1>11, <3>1 DEF Halted
    <3>3. journal[e.pos + 1] = [op |-> op, out |-> o]
      BY <1>1, <1>3, <1>4, <1>8, <1>11, <3>2 DEF Takes, JournalInv
    <3> QED BY <1>4, <1>9, <3>1, <3>2, <3>3 DEF Halted
  <2>2. Onto(w, m, h, i)
    BY <1>7, <1>12, <1>14, <2>1 DEF Onto
  <2> QED BY <1>1, <1>3, <1>4, <1>7, <1>10, <1>14, <2>2
<1> QED BY <1>13, <1>14

LEMMA GoesNext ==
  ASSUME Base, Steady, NEW m, NEW h, Course(m, h), NEW w \in Workers, Goes(w), starts' = starts,
         ExecInv'
  PROVE  (Course(m, h))' \/ Lengthens(w, m, h)
<1> USE DEF Base
<1>1. PICK e, d : e = exec[w] /\ d = exec'[w]
  OBVIOUS
<1>2. /\ Live(w) /\ Rest(w) /\ Notes(w) /\ outcome' = outcome /\ d.phase = "idle" /\ ExecOK(e)
  BY <1>1 DEF Goes, ExecInv
<1>3. PICK i \in 1..m : Same(e, h[i]) /\ (~ Durable => i = m)
  BY <1>1, <1>2 DEF Course, Placed
<1>4. Onto(w, m, h, i) /\ (i # m => journal' = journal)
  BY <1>1, <1>3, GoesFrom
<1>5. PICK o \in Outcome : Takes(w, o) /\ ~ Ending(NextOp(e), o) /\ ByResult(h[i], o, d)
  BY <1>1, <1>3, GoesFrom
<1>6. CASE i # m
  BY <1>1, <1>2, <1>3, <1>4, <1>6, Rejoin DEF Onto
<1>7. CASE i = m
  <2>1. PICK g, op : g = h[m] /\ op = NextOp(g)
    OBVIOUS
  <2>2. ExecOK(g) /\ WalkOK(g.w, g.at) /\ Same(e, g) /\ g.pos = e.pos /\ g.pos \in Nat
    BY <1>3, <1>7, <2>1 DEF Course, Path, Same, ExecOK
  <2>3. op = NextOp(e) /\ op # NoOp /\ ByResult(g, o, d)
    BY <1>5, <1>7, <2>1, <2>2, SameNext DEF ByResult
  <2>4. WalkOK(d.w, d.at) /\ Grows(g.w, d.w) /\ d.pos = g.pos + 1
    BY <2>2, <2>3, ResultWalks DEF More
  <2>5. ~ Halted(g) /\ g.at # Last
    BY <1>4, <1>7, <2>1 DEF Onto
  <2>6. Durable => e.pos = Len(journal)
    BY <2>1, <2>2, <2>5 DEF Course, Ledger
  <2>7. Durable => journal' = Append(journal, [op |-> op, out |-> o])
    BY <1>1, <1>5, <2>2, <2>3, <2>6 DEF Takes
  <2>8. Durable => /\ Len(journal') = d.pos /\ g.pos + 1 \in DOMAIN journal'
                   /\ journal'[g.pos + 1] = [op |-> op, out |-> o]
    BY <2>2, <2>4, <2>6, <2>7 DEF JournalInv
  <2>9. (Link(g, d))'
    <3>1. /\ (NextOp(g))' = op /\ (NoOp)' = NoOp /\ (Durable)' = Durable /\ (Outcome)' = Outcome
      BY <2>1, KeepNext DEF Steady, NoOp, ctl, Durable, Outcome, Known
    <3>2. (Consume(g, NextOp(g), o))' = Consume(g, op, o)
      <4>1. (Consume(g, op, o))' = Consume(g, op, o)
        BY <2>1, <2>2, <2>3, KeepConsume DEF Steady
      <4>2. (Consume(g, NextOp(g), o))' = (Consume(g, op, o))'
        BY <3>1
      <4> QED BY <4>1, <4>2
    <3>3. (ByResult(g, o, d))'
      BY <2>1, <2>3, <3>1, <3>2 DEF ByResult, Same
    <3>4. ~ (Ending(NextOp(g), o))'
      BY <1>5, <2>3, <3>1 DEF Ending
    <3> QED BY <2>8, <3>1, <3>3, <3>4 DEF Link
  <2>10. (ExecOK(d))'
    BY <1>1, <1>2 DEF ExecInv, Live
  <2>11. Durable => Len(journal') = d.pos
    BY <2>8
  <2>12. Same(exec[w], h[m]) /\ exec'[w] = d
    BY <1>1, <1>3, <1>7
  <2>13. \E f : f = Further(m, h, d) /\ (Course(m + 1, f))'
    BY <1>2, <2>1, <2>4, <2>5, <2>9, <2>10, <2>11, <2>12, Extend
  <2> QED BY <2>1, <2>5, <2>12, <2>13 DEF Lengthens
<1> QED BY <1>6, <1>7

\* The result an execution takes ends it: it is at the end of the course.
LEMMA HaltsNext ==
  ASSUME Base, Steady, NEW m, NEW h, Course(m, h), NEW w \in Workers, Halts(w), starts' = starts
  PROVE  (Course(m, h))'
<1> USE DEF Base
<1>1. PICK e, op : e = exec[w] /\ op = NextOp(e)
  OBVIOUS
<1>2. Live(w) /\ Durable /\ Rest(w) /\ ExecOK(e) /\ e.pos \in Nat
  BY <1>1 DEF Halts, ExecInv, ExecOK
<1>3. PICK o \in Outcome : Takes(w, o) /\ Ending(op, o)
  BY <1>1 DEF Halts
<1>4. PICK i \in 1..m : Same(e, h[i])
  BY <1>1, <1>2 DEF Course, Placed
<1>5. Path(m, h) /\ op # NoOp
  BY <1>1, <1>3 DEF Course, Takes
<1>6. i = m
  <2>1. SUFFICES ASSUME i # m PROVE FALSE
    OBVIOUS
  <2>2. NextOp(e) # NoOp => \E y \in Outcome :
          /\ ByResult(h[i], y, h[i + 1]) /\ ~ Ending(NextOp(e), y)
          /\ Durable => /\ e.pos + 1 \in DOMAIN journal
                        /\ journal[e.pos + 1] = [op |-> NextOp(e), out |-> y]
    BY <1>4, <1>5, <2>1, OnCourse
  <2>3. PICK y \in Outcome : /\ ~ Ending(op, y) /\ e.pos + 1 \in DOMAIN journal
                             /\ journal[e.pos + 1] = [op |-> op, out |-> y]
    BY <1>1, <1>2, <1>5, <2>2
  <2>4. e.pos < Len(journal)
    BY <1>2, <2>3 DEF JournalInv
  <2>5. journal[e.pos + 1] = [op |-> op, out |-> o]
    BY <1>1, <1>2, <1>3, <2>4 DEF Takes, JournalInv
  <2> QED BY <1>3, <2>3, <2>5
<1>7. PICK g : g = h[m]
  OBVIOUS
<1>8. NextOp(g) = op /\ g.pos = e.pos
  BY <1>1, <1>4, <1>6, <1>7, SameNext DEF Same
<1>9. /\ (NextOp(g))' = op /\ (NoOp)' = NoOp /\ (Durable)' = Durable
  BY <1>8, KeepNext DEF Steady, NoOp, ctl, Durable
<1>10. (Halted(g))'
  <2>1. /\ Len(journal') = e.pos + 1
        /\ journal'[Len(journal')] = [op |-> op, out |-> o]
    <3>1. CASE journal' = journal /\ e.pos < Len(journal) /\ journal[e.pos + 1] = [op |-> op, out |-> o]
      BY <1>2, <1>7, <1>8, <3>1 DEF Course, Ledger, Halted
    <3>2. CASE e.pos >= Len(journal) /\ journal' = Append(journal, [op |-> op, out |-> o])
      <4>1. e.pos = Len(journal)
        BY <1>2, <1>7, <1>8, <3>2 DEF Course, Ledger, Halted
      <4> QED BY <3>2, <4>1 DEF JournalInv
    <3> QED BY <1>1, <1>2, <1>3, <3>1, <3>2 DEF Takes
  <2>2. Ending(op, journal'[Len(journal')].out) /\ journal'[Len(journal')].op = op
    BY <1>3, <2>1
  <2>3. (Ending(NextOp(g), journal[Len(journal)].out))'
    BY <1>9, <2>2 DEF Ending
  <2> QED BY <1>2, <1>5, <1>8, <1>9, <2>1, <2>2, <2>3 DEF Halted
<1>11. seen' = seen
  BY <1>1, <1>4, <1>5, <1>6, NotesNothing DEF Halts, Course, Same
<1>12. (Ledger(m, h))'
  BY <1>7, <1>10 DEF Ledger
<1>13. (Placed(m, h))'
  <2>1. SUFFICES ASSUME NEW v \in Workers, exec'[v].phase # "none"
                 PROVE  \E j \in 1..m : Same(exec'[v], h[j])
    BY <1>2, <1>9 DEF Placed, Live, Same
  <2>2. CASE v # w
    BY <2>1, <2>2 DEF Rest, Course, Placed, Live, Halts
  <2>3. CASE v = w
    BY <1>1, <1>4, <2>1, <2>3 DEF Halts, Same
  <2> QED BY <2>2, <2>3
<1>14. (Over(m, h))' /\ (Directs(m, h))'
  BY <1>2, <1>7, <1>9, <1>10 DEF Over, Directs
<1>15. (Solo(m))'
  BY <1>2, <1>9 DEF Solo
<1> QED BY <1>11, <1>12, <1>13, <1>14, <1>15, KeepCourse

LEMMA OpensNext ==
  ASSUME Base, Steady, NEW m, NEW h, Course(m, h), NEW w \in Workers, Opens(w)
  PROVE  (Course(m, h))'
<1> USE DEF Base
<1>1. /\ exec'[w] = Fresh /\ Rest(w) /\ UNCHANGED <<journal, seen>> /\ outcome' = "none"
      /\ Durable \/ starts = 0
      /\ starts' = starts + 1 /\ ~ Live(w)
  BY DEF Opens, Changed, Rest
<1>2. (Halted(h[m]))' = Halted(h[m]) /\ (Durable)' = Durable
  BY <1>1, KeepHalted DEF Steady, ctl, Durable
<1>3. Same(h[1], Fresh) /\ 1 \in 1..m
  BY DEF Course, Path
<1>4. ~ Durable => m = 1 /\ \A v \in Workers : ~ Live(v)
  BY <1>1 DEF Course, Solo
<1>5. (Ledger(m, h))'
  BY <1>1, <1>2 DEF Course, Ledger
<1>6. (Placed(m, h))'
  <2>1. SUFFICES ASSUME NEW v \in Workers, exec'[v].phase # "none"
                 PROVE  \E j \in 1..m : Same(exec'[v], h[j]) /\ (~ Durable => j = m)
    BY <1>2 DEF Placed, Live, Same
  <2>2. CASE v # w
    BY <1>1, <2>1, <2>2 DEF Rest, Course, Placed, Live
  <2>3. CASE v = w
    BY <1>1, <1>3, <1>4, <2>3 DEF Same
  <2> QED BY <2>2, <2>3
<1>7. (Over(m, h))'
  BY <1>1 DEF Over
<1>8. (Directs(m, h))'
  <2>1. exec'[w].phase = "idle"
    BY <1>1 DEF Fresh
  <2> QED BY <1>1, <1>2, <2>1 DEF Course, Directs, Rest
<1>9. (Solo(m))'
  <2>1. starts' # 0
    BY <1>1 DEF RowInv
  <2>2. ~ Durable => \A v \in Workers : exec'[v].phase # "none" => v = w
    BY <1>1, <1>4 DEF Rest, Live
  <2> QED BY <1>2, <2>1, <2>2 DEF Solo, Live
<1> QED BY <1>1, <1>5, <1>6, <1>7, <1>8, <1>9, KeepCourse

\* How the workflow comes to its end.
EndsAt(w) ==
  /\ Live(w)
  /\ \/ Halts(w)
     \/ /\ exec'[w].phase = "none" /\ Rest(w)
        /\ Durable => exec[w].phase = "direct" \/ exec[w].at = Last

LEMMA OutcomeSteps ==
  ASSUME Base, Next
  PROVE  outcome' = outcome \/ \E w \in Workers : EndsAt(w)
<1> USE DEF Base
<1>1. ASSUME NEW w \in Workers, Replay(w) \/ Finish(w) \/ StepFails(w) \/ Receive(w)
      PROVE  outcome' = outcome \/ EndsAt(w)
  <2>1. (Quiet /\ outcome' = outcome) \/ Halts(w) \/ Goes(w)
    BY <1>1, ReplayKind, OperationKinds
  <2> QED BY <2>1 DEF Goes, Halts, EndsAt
<1>2. ASSUME NEW w \in Workers, Leave(w) PROVE exec'[w].phase = "none" /\ Rest(w)
  <2>1. Changed(w, NoExec)
    BY <1>2, InstallIs DEF Leave, ExecInv
  <2> QED BY <2>1 DEF Changed, NoExec, Rest
<1>3. ASSUME NEW w \in Workers, DirectWrite(w) \/ End(w) \/ Cancel(w) \/ RequestFails(w)
      PROVE  EndsAt(w)
  <2>1. Leave(w) /\ Live(w)
    BY <1>3 DEF DirectWrite, End, Cancel, RequestFails, Live
  <2>2. Durable => exec[w].phase = "direct" \/ exec[w].at = Last
    BY <1>3 DEF DirectWrite, End, Cancel, RequestFails, Last
  <2> QED BY <1>2, <2>1, <2>2 DEF EndsAt
<1>4. ASSUME NEW w \in Workers,
             \/ Inline(w) \/ Begin(w) \/ Write(w) \/ FanOut(w) \/ Join(w) \/ Crash(w) \/ Stream(w)
             \/ Start(w)
      PROVE  outcome' = outcome
  BY <1>4 DEF Inline, Begin, Write, FanOut, Join, Crash, Stream, Start
<1>5. ASSUME NEW c, ChildEnds(c) \/ ReadGate(c) \/ Answer(c) PROVE outcome' = outcome
  BY <1>5 DEF ChildEnds, ReadGate, Answer
<1>6. Sweep => outcome' = outcome
  BY DEF Sweep
<1> QED BY <1>1, <1>3, <1>4, <1>5, <1>6 DEF Next, Work

LEMMA QuietNext ==
  ASSUME Base, Steady, NEW m, NEW h, Course(m, h), Quiet, starts' = starts,
         outcome' = outcome \/ \E w \in Workers : EndsAt(w) /\ ~ Halts(w)
  PROVE  (Course(m, h))'
<1> USE DEF Base
<1>1. UNCHANGED <<journal, seen>> /\ \A v \in Workers : Stays(v)
  BY DEF Quiet
<1>2. (Halted(h[m]))' = Halted(h[m]) /\ (Durable)' = Durable /\ (Last)' = Last
  BY <1>1, KeepHalted DEF Steady, ctl, Durable, Last
<1>3. (Ledger(m, h))'
  BY <1>1, <1>2 DEF Course, Ledger
<1>4. (Placed(m, h))'
  <2>1. SUFFICES ASSUME NEW v \in Workers, exec'[v].phase # "none"
                 PROVE  \E j \in 1..m : Same(exec'[v], h[j]) /\ (~ Durable => j = m)
    BY <1>2 DEF Placed, Live, Same
  <2>2. Live(v) /\ Same(exec'[v], exec[v])
    BY <1>1, <2>1 DEF Stays
  <2>3. PICK j \in 1..m : Same(exec[v], h[j]) /\ (~ Durable => j = m)
    BY <2>2 DEF Course, Placed
  <2> QED BY <2>2, <2>3 DEF Same
<1>5. (Directs(m, h))'
  <2>1. \A v \in Workers : exec'[v].phase = "direct" => exec[v].phase = "direct"
    BY <1>1 DEF Stays
  <2> QED BY <1>2, <2>1 DEF Course, Directs
<1>6. (Solo(m))'
  <2>1. \A v \in Workers : exec'[v].phase # "none" => Live(v)
    BY <1>1 DEF Stays
  <2> QED BY <1>2, <2>1 DEF Course, Solo, Live
<1>7. (Over(m, h))'
  <2>1. CASE outcome' = outcome
    <3>1. \A v \in Workers : exec'[v].phase # "none" => Live(v)
      BY <1>1 DEF Stays
    <3> QED BY <1>2, <2>1, <3>1 DEF Course, Over, Live
  <2>2. ASSUME NEW w \in Workers, EndsAt(w), ~ Halts(w) PROVE (Over(m, h))'
    <3>1. /\ Live(w) /\ exec'[w].phase = "none" /\ Rest(w)
          /\ Durable => exec[w].phase = "direct" \/ exec[w].at = Last
      BY <2>2 DEF EndsAt
    <3>2. CASE ~ Durable
      <4>1. \A v \in Workers : exec'[v].phase = "none"
        BY <3>1, <3>2 DEF Rest, Course, Solo, Live
      <4> QED BY <1>2, <3>2, <4>1 DEF Over, Live
    <3>3. CASE Durable /\ exec[w].phase = "direct"
      BY <1>2, <3>3 DEF Course, Directs, Over
    <3>4. CASE Durable /\ exec[w].at = Last
      <4>1. PICK i \in 1..m : Same(exec[w], h[i])
        BY <3>1 DEF Course, Placed
      <4>2. i = m
        BY <3>4, <4>1, OnCourse DEF Course
      <4> QED BY <1>2, <3>4, <4>1, <4>2 DEF Over, Same
    <3> QED BY <3>1, <3>2, <3>3, <3>4
  <2> QED BY <2>1, <2>2
<1> QED BY <1>1, <1>3, <1>4, <1>5, <1>6, <1>7, KeepCourse

LEMMA StartOpens ==
  ASSUME Base, NEW w \in Workers, Start(w)
  PROVE  Opens(w)
<1>1. Changed(w, Fresh)
  BY InstallIs DEF Start, ExecInv, Base
<1> QED BY <1>1 DEF Start, Opens

\* The course stays as it is, or an execution makes it longer.
LEMMA CourseMoves ==
  ASSUME Base, Next, NEW m, NEW h, Course(m, h)
  PROVE  (Course(m, h))' \/ \E w \in Workers : Lengthens(w, m, h)
<1>1. Steady /\ ExecInv'
  BY StepsSteady, BaseNext DEF Base
<1>2. CASE \E w \in Workers : Opens(w)
  BY <1>1, <1>2, OpensNext
<1>3. CASE starts' = starts
  <2>1. CASE \E w \in Workers : Halts(w)
    BY <1>1, <1>3, <2>1, HaltsNext
  <2>2. CASE \E w \in Workers : Walks(w)
    BY <1>1, <1>3, <2>2, WalksNext
  <2>3. CASE \E w \in Workers : Goes(w)
    BY <1>1, <1>3, <2>3, GoesNext
  <2>4. CASE Quiet /\ ~ \E w \in Workers : Halts(w)
    <3>1. outcome' = outcome \/ \E w \in Workers : EndsAt(w) /\ ~ Halts(w)
      BY <2>4, OutcomeSteps
    <3> QED BY <1>1, <1>3, <2>4, <3>1, QuietNext
  <2> QED BY <1>2, <2>1, <2>2, <2>3, <2>4, StepKinds DEF Happens
<1> QED BY <1>2, <1>3, StartsCount, StartOpens

LEMMA CourseNext ==
  ASSUME Base, Next, CourseInv
  PROVE  CourseInv'
<1>1. \E m, h : Course(m, h)
  BY DEF CourseInv
<1>2. PICK m, h : Course(m, h)
  BY <1>1
<1>3. ASSUME NEW w \in Workers, Lengthens(w, m, h) PROVE CourseInv'
  <2>1. \E f : (Course(m + 1, f))'
    BY <1>3 DEF Lengthens
  <2> QED BY <2>1 DEF CourseInv
<1>4. (Course(m, h))' => CourseInv'
  BY DEF CourseInv
<1> QED BY <1>2, <1>3, <1>4, CourseMoves

LEMMA CourseStill ==
  ASSUME Base, UNCHANGED vars, NEW m, NEW h, Course(m, h)
  PROVE  (Course(m, h))'
<1>1. /\ UNCHANGED <<ctl, journal, child, exec, outcome, starts, seen>>
      /\ Durable' = Durable /\ Last' = Last
  BY DEF vars, ctl, Durable, Last
<1>2. Steady
  BY <1>1 DEF Steady, EndedKept
<1>3. Quiet
  BY <1>1, SameSelf DEF Quiet, Stays, Live
<1> QED BY <1>1, <1>2, <1>3, QuietNext

LEMMA CourseStays ==
  ASSUME Base, UNCHANGED vars, CourseInv
  PROVE  CourseInv'
<1>1. \E m, h : Course(m, h)
  BY DEF CourseInv
<1>2. \E m, h : (Course(m, h))'
  BY <1>1, CourseStill
<1> QED BY <1>2 DEF CourseInv

\* At first the course is where an execution begins.
LEMMA CourseFirst ==
  ASSUME Init
  PROVE  \E h : Course(1, h)
<1>0. GraphInv
  BY BaseInit DEF Base
<1>1. PICK f : f = Fresh
  OBVIOUS
<1>2. ExecOK(f) /\ f.pos = 0 /\ f.at = 0 /\ f.w = NewWalk
  BY <1>0, <1>1, FreshOK
<1>3. DOMAIN <<>> = {} /\ Behind(0) = {}
  BY GraphFacts DEF Behind
<1>4. PICK h : h = [i \in 1..1 |-> f]
  OBVIOUS
<1>5. h[1] = f /\ DOMAIN h = 1..1
  BY <1>4
<1>6. /\ DOMAIN NewWalk = WalkFields /\ NewWalk.skipped = {} /\ NewWalk.live = <<>>
  BY DEF NewWalk, WalkFields
<1>7. Walked(NewWalk) = {} /\ DOMAIN NewWalk.live = {}
  BY <1>3, <1>6, Zenon DEF Walked
<1>8. WalkOK(f.w, f.at)
  BY <1>2, <1>3, <1>6, <1>7 DEF WalkOK, Outputs
<1>9. Path(1, h)
  <2>1. Grows(f.w, f.w) /\ Same(f, Fresh)
    BY <1>1, SameSelf DEF Grows
  <2> QED BY <1>2, <1>5, <1>8, <2>1 DEF Path
<1>10. Noted(1, h)
  <2>1. seen = <<>>
    BY DEF Init
  <2>2. [n \in Walked(NewWalk) |-> FateIn(NewWalk, n)] = <<>>
    BY <1>7
  <2> QED BY <1>2, <1>5, <2>1, <2>2 DEF Noted
<1>11. /\ \A w \in Workers : ~ Live(w) /\ exec[w].phase # "direct"
       /\ Len(journal) = 0 /\ outcome = "none" /\ starts = 0
  BY DEF Init, Live, NoExec
<1>12. Ledger(1, h) /\ Placed(1, h) /\ Over(1, h) /\ Directs(1, h) /\ Solo(1)
  BY <1>2, <1>5, <1>11 DEF Ledger, Placed, Over, Directs, Solo
<1>13. Course(1, h)
  BY <1>9, <1>10, <1>12 DEF Course
<1> QED BY <1>13

LEMMA CourseInit ==
  ASSUME Init
  PROVE  CourseInv
BY CourseFirst DEF CourseInv

LEMMA CourseAgrees ==
  ASSUME Base, CourseInv
  PROVE  ReplayAgrees
<1>1. \E m, h : Course(m, h)
  BY DEF CourseInv
<1>2. PICK m, h : Course(m, h)
  BY <1>1
<1>3. /\ Path(m, h) /\ Noted(m, h) /\ Ledger(m, h) /\ Placed(m, h)
      /\ m \in Nat \ {0}
  BY <1>2 DEF Course, Path
<1> SUFFICES ASSUME NEW w \in Workers, Live(w)
             PROVE  /\ \A n \in Walked(exec[w].w) : FateIn(exec[w].w, n) = seen[n]
                    /\ Recorded(exec[w]) /\ NextOp(exec[w]) # NoOp
                         => journal[exec[w].pos + 1].op = NextOp(exec[w])
  BY DEF ReplayAgrees
<1>4. PICK i \in 1..m : Same(exec[w], h[i])
  BY <1>3 DEF Placed
<1>5. ASSUME NEW n \in Walked(exec[w].w) PROVE FateIn(exec[w].w, n) = seen[n]
  <2>1. exec[w].w = h[i].w /\ Grows(h[i].w, h[m].w)
    BY <1>3, <1>4 DEF Same, Path
  <2>2. n \in Walked(h[m].w) /\ FateIn(h[m].w, n) = FateIn(exec[w].w, n)
    BY <2>1 DEF Grows
  <2> QED BY <1>3, <2>2 DEF Noted
<1>6. ASSUME Recorded(exec[w]), NextOp(exec[w]) # NoOp
      PROVE  journal[exec[w].pos + 1].op = NextOp(exec[w])
  <2>1. CASE i # m
    <3>1. \E o \in Outcome : journal[exec[w].pos + 1] = [op |-> NextOp(exec[w]), out |-> o]
      <4>1. Durable
        BY <1>6 DEF Recorded
      <4>2. PICK e : e = exec[w]
        OBVIOUS
      <4>3. Same(e, h[i]) /\ NextOp(e) # NoOp
        BY <1>4, <1>6, <4>2
      <4>4. \E o \in Outcome :
              Durable => journal[e.pos + 1] = [op |-> NextOp(e), out |-> o]
        BY <1>3, <2>1, <4>3, OnCourse
      <4> QED BY <4>1, <4>2, <4>4
    <3> QED BY <3>1
  <2>2. CASE i = m
    <3>1. exec[w].pos = h[m].pos /\ NextOp(exec[w]) = NextOp(h[m])
      BY <1>4, <2>2, SameNext DEF Same
    <3>2. Halted(h[m])
      BY <1>3, <1>6, <3>1 DEF Ledger, Recorded, ExecOK, Path
    <3>3. Len(journal) = h[m].pos + 1
      BY <3>2 DEF Halted
    <3> QED BY <3>1, <3>2, <3>3 DEF Halted
  <2> QED BY <2>1, <2>2
<1> QED BY <1>5, <1>6

\* An execution that replays meets the recorded operations in their order, and
\* settles every node as the first execution that came to it did, whatever crashed,
\* failed or overlapped: this is what lets a workflow be recovered from its journal.
THEOREM Replays == Spec => []ReplayAgrees
<1>1. Init => Base /\ CourseInv
  BY BaseInit, CourseInit
<1>2. Base /\ CourseInv /\ [Next]_vars => (Base /\ CourseInv)'
  BY BaseNext, BaseStays, CourseNext, CourseStays
<1>3. Base /\ CourseInv => ReplayAgrees
  BY CourseAgrees
<1> QED BY <1>1, <1>2, <1>3, PTL DEF Spec

=============================================================================
