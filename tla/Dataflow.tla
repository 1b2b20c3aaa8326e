------------------------------- MODULE Dataflow -------------------------------
(***************************************************************************)
(* What a run of a graph promises, whatever order its nodes are taken in,  *)
(* however often it is interrupted and whichever runtime carries it: every *)
(* node settles once, after all the nodes it is sequenced after; it is     *)
(* skipped exactly if it has inbound data edges and all of them are dead;  *)
(* the run completes only when every node has settled, at most one output  *)
(* node among those that ran.                                              *)
(***************************************************************************)
EXTENDS FlowGraph

CONSTANTS Graphs

VARIABLES graph,    \* the graph that is run
          fate,     \* live handles of the nodes that settled; Skipped for a skipped one
          outcome   \* "none" until the run completes or fails

Skipped == {"skipped"}

\* The sets of handles a node of each type may make live.
Choices(g, n) ==
  IF g.type[n] = "output" THEN {{}}
  ELSE IF g.type[n] \in {"act", "crawler", "subgraph"} THEN {Success(g, n), Errors(g, n)}
  ELSE IF g.type[n] \in {"gate", "rule"} THEN {{"pass"}, {"block"}}
  ELSE IF g.type[n] = "router" THEN {{h} : h \in g.outs[n]}
  ELSE {Success(g, n)}

Dead(g, n) ==
  /\ g.type[n] # "input" /\ DataInto(g, n) # {}
  /\ \A e \in DataInto(g, n) : fate[e.from] = Skipped \/ e.handle \notin fate[e.from]

Ran(n) == n \in DOMAIN fate /\ fate[n] # Skipped

Init ==
  /\ graph \in Graphs
  /\ fate = <<>>
  /\ outcome = "none"

Settle(n) ==
  /\ outcome = "none"
  /\ n \notin DOMAIN fate
  /\ Before(graph, n) \subseteq DOMAIN fate
  /\ \E f \in IF Dead(graph, n) THEN {Skipped} ELSE Choices(graph, n) :
       fate' = [m \in DOMAIN fate \cup {n} |-> IF m = n THEN f ELSE fate[m]]
  /\ UNCHANGED <<graph, outcome>>

Complete ==
  /\ outcome = "none"
  /\ DOMAIN fate = Steps(graph)
  /\ Cardinality({n \in Steps(graph) : graph.type[n] = "output" /\ Ran(n)}) <= 1
  /\ outcome' = "completed"
  /\ UNCHANGED <<graph, fate>>

Fail ==
  /\ outcome = "none"
  /\ outcome' = "failed"
  /\ UNCHANGED <<graph, fate>>

Next == Complete \/ Fail \/ \E n \in Steps(graph) : Settle(n)

Spec == Init /\ [][Next]_<<graph, fate, outcome>>

=============================================================================
