------------------------------ MODULE FlowGraph ------------------------------
(***************************************************************************)
(* The agent graph and the rules of its walk, shared by the interactive    *)
(* walker and the durable workflow (which "mirrors walker.walk exactly"). *)
(*                                                                         *)
(* A graph is a record: for each node its type, its in-ports, the ones     *)
(* that are required, its out-handles, and the numbers of its              *)
(* configuration; the list of edges; the values its activities may return. *)
(* Nodes are numbers in the order sorted() gives their identifiers.  The   *)
(* handle "err" is the error-typed one.                                    *)
(*                                                                         *)
(* A walk is a record: the live out-handles and the value of each node     *)
(* that ran, the nodes that were skipped, whether an output node ran and   *)
(* whether an exception ends the walk.                                     *)
(*                                                                         *)
(* Payloads are the values a router, a rule or a condition tells apart.    *)
(***************************************************************************)
EXTENDS Naturals, Sequences, FiniteSets, Functions

NodeTypes == {"input", "output", "human", "subgraph", "llm", "act", "crawler",
              "gate", "router", "transform", "rule", "loop", "map"}

NoValue == "none"
Holds(v) == v = "a"            \* a rule's predicate, a loop's condition
Resolves(v) == v # "bad"       \* a reference into v finds its field

Nodes(g) == DOMAIN g.type
EdgeSet(g) == Range(g.edges)
Success(g, n) == g.outs[n] \ {"err"}
Errors(g, n) == g.outs[n] \cap {"err"}

Capabilities(g) == {e.from : e \in {f \in EdgeSet(g) : f.channel = "tool"}}
ToolsOf(g, n) == {e.from : e \in {f \in EdgeSet(g) : f.channel = "tool" /\ f.to = n}}
Steps(g) == Nodes(g) \ Capabilities(g)
DataInto(g, n) == {e \in EdgeSet(g) : e.to = n /\ e.channel = "data"}
Before(g, n) == {e.from : e \in {f \in EdgeSet(g) : f.to = n /\ f.channel # "tool"}}

-----------------------------------------------------------------------------
(* Order and validation. *)

\* Kahn's algorithm: the order itself is the queue, node i of it releases, in
\* the order of the edge list, the successors that have no other node to wait for.
TopologicalOrder(g) ==
  LET size == Len(g.type)
      es == SelectSeq(g.edges, LAMBDA e : e.channel # "tool")
      Done(q, i) == {q[j] : j \in 1..i}
      Last(j, n) == /\ es[j].from = n
                    /\ \A l \in (j + 1)..Len(es) :
                         ~ (es[l].from = n /\ es[l].to = es[j].to)
      Released(q, i) ==
        LET js == SelectSeq([j \in 1..Len(es) |-> j],
                            LAMBDA j : Last(j, q[i]) /\ Before(g, es[j].to) \subseteq Done(q, i))
        IN [l \in 1..Len(js) |-> es[js[l]].to]
      start == SelectSeq([n \in 1..size |-> n], LAMBDA n : Before(g, n) = {})
      queue[i \in 0..size] ==
        IF i = 0 THEN start
        ELSE LET q == queue[i - 1]
             IN IF i > Len(q) THEN q ELSE q \o Released(q, i)
  IN queue[size]

\* What an order of the nodes is for: each node once, and every edge points forward.
IsOrder(g, o) ==
  /\ o \in [1..Len(g.type) -> Nodes(g)]
  /\ \A i, j \in DOMAIN o : o[i] = o[j] => i = j
  /\ \A i, j \in DOMAIN o : o[i] \in Before(g, o[j]) => i < j

\* Edges join declared handles and ports; a data edge feeds a port alone.
EdgesDeclared(g) ==
  /\ \A e \in EdgeSet(g) :
       /\ {e.from, e.to} \subseteq Nodes(g)
       /\ e.handle \in g.outs[e.from]
       /\ e.port \in g.ins[e.to]
  /\ \A i, j \in DOMAIN g.edges :
       LET e == g.edges[i]
           f == g.edges[j]
       IN e.channel = "data" /\ f.channel = "data" /\ e.to = f.to /\ e.port = f.port => i = j

\* A tool edge offers a tool node, that is no step, to the tools port of an llm.
CapabilitiesApart(g) ==
  \A e \in EdgeSet(g) :
    IF e.channel = "tool"
    THEN /\ g.type[e.from] \in {"act", "crawler"}
         /\ g.type[e.to] = "llm" /\ e.port = "tools"
         /\ \A f \in EdgeSet(g) : f.from = e.from => f.channel = "tool"
    ELSE e.port # "tools"

\* Every required in-port of a step is fed.
PortsFed(g) ==
  \A n \in Steps(g) : g.type[n] # "input" =>
    \A p \in g.req[n] : \E e \in DataInto(g, n) : e.port = p

\* Bounds of a configuration.  Those of an llm are checked where its configuration
\* names tools; the ones that edges offer it may come with none.
ConfigSound(g) ==
  /\ g.type \in Seq(NodeTypes)
  /\ g.bound \in [Nodes(g) -> Nat] /\ g.width \in [Nodes(g) -> Nat \ {0}]
  /\ \A n \in Nodes(g) : g.req[n] \subseteq g.ins[n]
  /\ \A n \in Nodes(g) : g.type[n] \in {"loop", "subgraph"} => g.bound[n] >= 1

Valid(g) ==
  /\ ConfigSound(g) /\ EdgesDeclared(g) /\ CapabilitiesApart(g) /\ PortsFed(g)
  /\ Len(TopologicalOrder(g)) = Len(g.type)

DurableOnly(g) == \E n \in Nodes(g) : g.type[n] \in {"human", "subgraph", "loop", "map"}

-----------------------------------------------------------------------------
(* The walk. *)

NewWalk == [live |-> <<>>, val |-> <<>>, skipped |-> {}, produced |-> FALSE, raised |-> FALSE]

Raise(w) == [w EXCEPT !.raised = TRUE]

EdgeLive(e, w) ==
  /\ e.from \notin w.skipped
  /\ e.from \in DOMAIN w.live
  /\ e.handle \in w.live[e.from]

\* MUTANT: one dead edge is enough.
IsSkippedByOne(g, n, w) ==
  g.type[n] # "input" /\ \E e \in DataInto(g, n) : ~ EdgeLive(e, w)

\* A node that has inbound data edges is skipped when all of them are dead.
IsSkipped(g, n, w) ==
  /\ g.type[n] # "input"
  /\ DataInto(g, n) # {}
  /\ \A e \in DataInto(g, n) : ~ EdgeLive(e, w)

SkipNode(n, w) == [w EXCEPT !.skipped = @ \cup {n}]

\* The values of the live inbound data edges, by port.
InPorts(g, n, w) ==
  LET fed == {e \in DataInto(g, n) : EdgeLive(e, w)}
  IN [p \in {e.port : e \in fed} |-> w.val[(CHOOSE e \in fed : e.port = p).from]]

\* What a consumer of one value takes; several declared ports are an error.
Ambiguous(g, n) == Cardinality(g.ins[n]) > 1
SingleIn(g, n, w) ==
  LET ports == InPorts(g, n, w)
  IN IF DOMAIN ports = {} THEN NoValue ELSE ports[CHOOSE p \in DOMAIN ports : TRUE]

\* The node ran: these of its out-handles are live and carry v.
Bind(n, w, handles, v) ==
  LET put(f, x) == [m \in DOMAIN f \cup {n} |-> IF m = n THEN x ELSE f[m]]
  IN [w EXCEPT !.live = put(w.live, handles), !.val = put(w.val, v)]

BindOutcome(g, n, w, ok, v) == Bind(n, w, IF ok THEN Success(g, n) ELSE Errors(g, n), v)

BindGate(g, n, w, pass) ==
  IF Ambiguous(g, n) THEN Raise(w)
  ELSE Bind(n, w, {IF pass THEN "pass" ELSE "block"}, SingleIn(g, n, w))

\* The input binds the run's input; a second output that runs is an error.
WalkBoundary(g, n, w, input) ==
  IF g.type[n] = "input" THEN Bind(n, w, Success(g, n), input)
  ELSE IF w.produced \/ Ambiguous(g, n) THEN Raise(w)
  ELSE [Bind(n, w, {}, NoValue) EXCEPT !.produced = TRUE]

\* A router makes live the one handle its value names.
WalkRouter(g, n, w) ==
  LET v == SingleIn(g, n, w)
  IN IF Ambiguous(g, n) \/ v \notin g.outs[n] THEN Raise(w) ELSE Bind(n, w, {v}, v)

WalkTransform(g, n, w) ==
  LET v == SingleIn(g, n, w)
  IN IF Resolves(v) THEN Bind(n, w, Success(g, n), v) ELSE Raise(w)

WalkRule(g, n, w) == BindGate(g, n, w, Holds(SingleIn(g, n, w)))

\* The nodes the walk runs without I/O.
InlineTypes == {"input", "output", "router", "transform", "rule"}

WalkInline(g, n, w, input) ==
  IF g.type[n] \in {"input", "output"} THEN WalkBoundary(g, n, w, input)
  ELSE IF g.type[n] = "router" THEN WalkRouter(g, n, w)
  ELSE IF g.type[n] = "transform" THEN WalkTransform(g, n, w)
  ELSE WalkRule(g, n, w)

=============================================================================
