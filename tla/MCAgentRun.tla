----------------------------- MODULE MCAgentRun -----------------------------
(* Small graphs, one per feature of the walk, and the instance of AgentRun. *)
EXTENDS AgentRun

CONSTANTS w1, w2, c1, c2

E(from, handle, to, port) ==
  [from |-> from, handle |-> handle, to |-> to, port |-> port, channel |-> "data"]

\* Defaults of the configuration's numbers, for a graph of these nodes.
Graph(types, ins, outs, edges) ==
  LET size == Len(types)
  IN [type |-> types, ins |-> ins, req |-> ins, outs |-> outs, edges |-> edges,
      bound |-> [n \in 1..size |-> 1], width |-> [n \in 1..size |-> 1],
      policy |-> [n \in 1..size |-> "fail"], timed |-> [n \in 1..size |-> TRUE],
      values |-> {"a"}, inputs |-> {"a"}]

\* An llm with a tool, between the input and the output.
ToolLoop ==
  [Graph(<<"act", "input", "llm", "output">>,
         <<{"in"}, {}, {"in", "tools"}, {"in"}>>,
         <<{"ok"}, {"out"}, {"out"}, {}>>,
         <<[from |-> 1, handle |-> "ok", to |-> 3, port |-> "tools", channel |-> "tool"],
           E(2, "out", 3, "in"), E(3, "out", 4, "in")>>)
    EXCEPT !.req[3] = {"in"}]

\* A router whose branches rejoin at a tool with two optional ports; a value
\* the router has no handle for fails the run.
Routed ==
  [Graph(<<"input", "llm", "router", "act", "transform", "act", "output">>,
         <<{}, {"in"}, {"in"}, {"in"}, {"in"}, {"p", "q"}, {"in"}>>,
         <<{"out"}, {"out"}, {"a", "b"}, {"ok", "err"}, {"out"}, {"ok"}, {}>>,
         <<E(1, "out", 2, "in"), E(2, "out", 3, "in"), E(3, "a", 4, "in"), E(3, "b", 5, "in"),
           E(4, "ok", 6, "p"), E(5, "out", 6, "q"), E(6, "ok", 7, "in")>>)
    EXCEPT !.values = {"a", "b", "bad"}]

\* Two branches with an output each, told apart by a rule on the input; a
\* control edge runs a side task after one that failed.
TwoOutputs ==
  [Graph(<<"input", "rule", "output", "act", "output", "act">>,
         <<{}, {"in"}, {"in"}, {"in"}, {"in"}, {"after"}>>,
         <<{"out"}, {"pass", "block"}, {}, {"ok", "err"}, {}, {"ok"}>>,
         <<E(1, "out", 2, "in"), E(2, "pass", 3, "in"), E(2, "block", 4, "in"),
           E(4, "ok", 5, "in"),
           [from |-> 4, handle |-> "err", to |-> 6, port |-> "after", channel |-> "control"]>>)
    EXCEPT !.inputs = {"a", "b"}, !.req[6] = {}]

\* Both outputs run: the run must fail.
Doubled ==
  Graph(<<"input", "gate", "output", "output">>,
        <<{}, {"in"}, {"in"}, {"in"}>>,
        <<{"out"}, {"pass", "block"}, {}, {}>>,
        <<E(1, "out", 2, "in"), E(2, "pass", 3, "in"), E(1, "out", 4, "in")>>)

\* Two gates in a row, the first with a time limit that fails the run.
Approval ==
  [Graph(<<"human", "human", "input", "output">>,
         <<{"in"}, {"in"}, {}, {"in"}>>,
         <<{"out"}, {"out"}, {"out"}, {}>>,
         <<E(3, "out", 1, "in"), E(1, "out", 2, "in"), E(2, "out", 4, "in")>>)
    EXCEPT !.timed[2] = FALSE]

\* A gate that takes a default when its time is up.
Deadline ==
  [Graph(<<"input", "human", "output">>,
         <<{}, {"in"}, {"in"}>>, <<{"out"}, {"out"}, {}>>,
         <<E(1, "out", 2, "in"), E(2, "out", 3, "in")>>)
    EXCEPT !.policy[2] = "default"]

\* A subgraph with an error branch, and one nested too deep on it.
Nested ==
  [Graph(<<"input", "subgraph", "output", "subgraph">>,
         <<{}, {"in"}, {"in"}, {"in"}>>,
         <<{"out"}, {"ok", "err"}, {}, {"ok"}>>,
         <<E(1, "out", 2, "in"), E(2, "ok", 3, "in"), E(2, "err", 4, "in")>>)
    EXCEPT !.policy[4] = "deep"]

\* A loop of at most two iterations.
Looped ==
  [Graph(<<"input", "loop", "output">>,
         <<{}, {"in"}, {"in"}>>, <<{"out"}, {"out"}, {}>>,
         <<E(1, "out", 2, "in"), E(2, "out", 3, "in")>>)
    EXCEPT !.bound[2] = 2, !.values = {"a", "b", "bad"}]

\* A map over three elements, two at a time, that collects or fails fast.
Mapped(policy) ==
  [Graph(<<"input", "map", "output">>,
         <<{}, {"in"}, {"in"}>>, <<{"out"}, {"out"}, {}>>,
         <<E(1, "out", 2, "in"), E(2, "out", 3, "in")>>)
    EXCEPT !.bound[2] = 3, !.width[2] = 2, !.policy[2] = policy]

\* A crawler polled at most twice.
Crawled ==
  [Graph(<<"crawler", "input", "output">>,
         <<{"in"}, {}, {"in"}>>, <<{"ok"}, {"out"}, {}>>,
         <<E(2, "out", 1, "in"), E(1, "ok", 3, "in")>>)
    EXCEPT !.bound[1] = 2]

MCGraphs == {ToolLoop, Routed, TwoOutputs, Doubled, Approval, Deadline, Nested, Looped,
              Mapped("collect"), Mapped("fail_fast"), Crawled}

=============================================================================
