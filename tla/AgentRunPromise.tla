-------------------------- MODULE AgentRunPromise ---------------------------
(* A run implements the dataflow, whatever crashes, fails or overlaps: the  *)
(* proof by refinement, from the course of the run.                         *)
EXTENDS AgentRunReplay

-----------------------------------------------------------------------------
(* The graph. *)

\* The order has every node.
LEMMA OrderOnto ==
  ASSUME GraphInv
  PROVE  \A n \in Nodes(graph) : \E j \in 1..Len(order) : order[j] = n
<1>1. /\ order \in [1..Len(order) -> Nodes(graph)] /\ Nodes(graph) = 1..Len(order)
      /\ Len(order) \in Nat
      /\ \A i, j \in 1..Len(order) : order[i] = order[j] => i = j
  BY GraphFacts
<1>2. PICK S : S = 1..Len(order)
  OBVIOUS
<1>3. IsFiniteSet(S)
  BY <1>1, <1>2, FS_Interval
<1>4. order \in Injection(S, S)
  BY <1>1, <1>2 DEF Injection, IsInjective
<1>5. order \in Surjection(S, S)
  BY <1>3, <1>4, FS_Injection
<1> QED BY <1>1, <1>2, <1>5 DEF Surjection

\* What a step is sequenced after has been walked when the walk is at it.
LEMMA BeforeWalked ==
  ASSUME GraphInv, NEW i \in 1..Len(order), NEW n, n = order[i], NEW w, WalkOK(w, i), ~ w.raised
  PROVE  Before(graph, n) \subseteq Walked(w)
<1>1. Walked(w) = Behind(i) \ Capabilities(graph)
  BY DEF WalkOK
<1>2. Valid(graph)
  BY GraphsAssumption DEF GraphInv
<1>3. SUFFICES ASSUME NEW f \in EdgeSet(graph), f.to = n, f.channel # "tool"
               PROVE  f.from \in Behind(i) \ Capabilities(graph)
  BY <1>1 DEF Before
<1>4. f.from \in Nodes(graph) /\ f.from \in Before(graph, n)
  BY <1>2, <1>3 DEF Valid, EdgesDeclared, Before
<1>5. PICK j \in 1..Len(order) : order[j] = f.from
  BY <1>4, OrderOnto
<1>6. j < i
  BY <1>4, <1>5, GraphFacts
<1>7. f.from \in Behind(i)
  BY <1>5, <1>6 DEF Behind
<1>8. f.from \notin Capabilities(graph)
  <2>1. SUFFICES ASSUME NEW t \in EdgeSet(graph), t.channel = "tool", t.from = f.from PROVE FALSE
    BY DEF Capabilities
  <2>2. f.channel = "tool"
    BY <1>2, <1>3, <2>1 DEF Valid, CapabilitiesApart
  <2> QED BY <1>3, <2>2
<1> QED BY <1>7, <1>8

\* At the end every step has been walked.
LEMMA AllWalked ==
  ASSUME GraphInv, NEW i \in Nat, i > Len(order), NEW w, WalkOK(w, i), ~ w.raised
  PROVE  Walked(w) = Steps(graph)
<1>1. Walked(w) = Behind(i) \ Capabilities(graph)
  BY DEF WalkOK
<1>2. Behind(i) = Nodes(graph)
  <2>1. \A j \in 1..Len(order) : j < i /\ order[j] \in Nodes(graph)
    BY GraphFacts
  <2> QED BY <2>1, OrderOnto DEF Behind
<1> QED BY <1>1, <1>2 DEF Steps

-----------------------------------------------------------------------------
(* The promise. *)

\* The outcome that is promised: an error is a failure.
Ended == IF outcome = "error" THEN "failed" ELSE outcome

LEMMA SameGraph ==
  ASSUME NEW n
  PROVE  /\ Promise!DataInto(graph, n) = DataInto(graph, n)
         /\ Promise!Before(graph, n) = Before(graph, n)
         /\ Promise!Steps(graph) = Steps(graph)
         /\ Promise!Skipped = Skipped
BY DEF Promise!DataInto, DataInto, Promise!Before, Before, Promise!Steps, Steps, Promise!EdgeSet,
       EdgeSet, Promise!Nodes, Nodes, Promise!Capabilities, Capabilities, Promise!Skipped, Skipped,
       Promise!Range, Range

LEMMA SameCount ==
  ASSUME NEW S
  PROVE  Promise!Cardinality(S) = Cardinality(S)
BY Zenon DEF Promise!Cardinality, Cardinality

\* A node is skipped where the dataflow has it dead.
LEMMA SkippedIsDead ==
  ASSUME GraphInv, NEW i \in 1..Len(order), NEW n, n = order[i], NEW w, WalkOK(w, i), ~ w.raised,
         \A m \in Walked(w) : seen[m] = FateIn(w, m)
  PROVE  IsSkipped(graph, n, w) <=> Promise!Dead(graph, n)
<1>1. ASSUME NEW e \in DataInto(graph, n)
      PROVE  ~ EdgeLive(e, w) <=> (seen[e.from] = Skipped \/ e.handle \notin seen[e.from])
  <2>1. e \in EdgeSet(graph) /\ e.from \in Before(graph, n)
    BY <1>1 DEF DataInto, Before
  <2>2. e.from \in Walked(w) /\ seen[e.from] = FateIn(w, e.from)
    BY <2>1, BeforeWalked
  <2>3. e.handle # "skipped"
    <3>1. Valid(graph) /\ graph \in Graphs
      BY GraphsAssumption DEF GraphInv
    <3>2. e.from \in Nodes(graph) /\ e.handle \in graph.outs[e.from]
      BY <2>1, <3>1 DEF Valid, EdgesDeclared
    <3> QED BY <3>1, <3>2, HandlesAssumption
  <2>4. CASE e.from \in w.skipped
    BY <2>2, <2>4 DEF FateIn, EdgeLive
  <2>5. CASE e.from \notin w.skipped
    <3>1. e.from \in DOMAIN w.live /\ seen[e.from] = w.live[e.from]
      BY <2>2, <2>5 DEF Walked, FateIn
    <3>2. EdgeLive(e, w) <=> e.handle \in seen[e.from]
      BY <2>5, <3>1 DEF EdgeLive
    <3>3. seen[e.from] = Skipped => e.handle \notin seen[e.from]
      BY <2>3 DEF Skipped
    <3> QED BY <3>2, <3>3
  <2> QED BY <2>4, <2>5
<1>2. Promise!Dead(graph, n) <=>
        /\ graph.type[n] # "input" /\ DataInto(graph, n) # {}
        /\ \A e \in DataInto(graph, n) : seen[e.from] = Skipped \/ e.handle \notin seen[e.from]
  BY SameGraph, Zenon DEF Promise!Dead
<1> QED BY <1>1, <1>2 DEF IsSkipped

-----------------------------------------------------------------------------
(* The steps. *)

\* What has been settled before, as the invariant has it.
LEMMA SeenOn ==
  ASSUME NEW m, NEW h, Course(m, h), NEW i \in 1..m
  PROVE  /\ DOMAIN seen = Walked(h[m].w) /\ Walked(h[i].w) \subseteq DOMAIN seen
         /\ \A n \in Walked(h[i].w) : seen[n] = FateIn(h[i].w, n)
<1>1. Path(m, h) /\ Noted(m, h) /\ m \in Nat \ {0}
  BY DEF Course, Path
<1>2. Grows(h[i].w, h[m].w)
  BY <1>1 DEF Path
<1>3. DOMAIN seen = Walked(h[m].w)
  BY <1>1 DEF Noted
<1>4. \A n \in Walked(h[m].w) : seen[n] = FateIn(h[m].w, n)
  BY <1>1 DEF Noted
<1> QED BY <1>2, <1>3, <1>4 DEF Grows

\* The execution at w, at the end of the course, settles one more node.
LEMMA SettlesOne ==
  ASSUME GraphInv, NEW m, NEW h, Course(m, h), NEW w \in Workers, Notes(w), outcome = "none",
         NEW d, d = exec'[w], UNCHANGED <<graph, outcome>>,
         NEW i \in 1..Len(order), i = h[m].at, ~ h[m].w.raised, WalkOK(h[m].w, i),
         NEW n, n = order[i], Grows(h[m].w, d.w), Settled(n, h[m].w, d.w)
  PROVE  Promise!Next
<1>1. PICK v : v = h[m].w
  OBVIOUS
<1>2. m \in 1..m
  BY DEF Course, Path
<1>3. DOMAIN seen = Walked(v) /\ \A j \in Walked(v) : seen[j] = FateIn(v, j)
  BY <1>1, <1>2, SeenOn
<1>4. /\ n \in Steps(graph) /\ n \notin Walked(v) /\ Walked(d.w) = Walked(v) \cup {n}
      /\ FateIn(d.w, n) \in IF IsSkipped(graph, n, v) THEN {Skipped} ELSE Promise!Choices(graph, n)
  BY <1>1 DEF Settled
<1>5. IsSkipped(graph, n, v) <=> Promise!Dead(graph, n)
  BY <1>1, <1>3, SkippedIsDead
<1>6. PICK f : f = FateIn(d.w, n)
  OBVIOUS
<1>7. f \in IF Promise!Dead(graph, n) THEN {Promise!Skipped} ELSE Promise!Choices(graph, n)
  BY <1>4, <1>5, <1>6, SameGraph
<1>8. seen' = [j \in DOMAIN seen \cup {n} |-> IF j = n THEN f ELSE seen[j]]
  <2>1. DOMAIN seen \cup Walked(d.w) = DOMAIN seen \cup {n}
    BY <1>3, <1>4
  <2>2. seen' = [j \in DOMAIN seen \cup {n} |->
                   IF j \in DOMAIN seen THEN seen[j] ELSE FateIn(d.w, j)]
    BY <2>1 DEF Notes
  <2> QED BY <1>3, <1>4, <1>6, <2>2
<1>9. Promise!Before(graph, n) \subseteq DOMAIN seen /\ n \in Promise!Steps(graph)
  BY <1>1, <1>3, <1>4, BeforeWalked, SameGraph
<1>10. Promise!Settle(n)
  BY <1>3, <1>4, <1>7, <1>8, <1>9, Zenon DEF Promise!Settle
<1> QED BY <1>9, <1>10 DEF Promise!Next

\* An execution that walks notes nothing, or settles one node before the run is over.
LEMMA WalkPromise ==
  ASSUME Base, NEW m, NEW h, Course(m, h), NEW w \in Workers, Notes(w), Live(w),
         UNCHANGED <<graph, outcome>>, NEW i \in 1..m, Same(exec[w], h[i]), Onto(w, m, h, i),
         i = m => More(h[m].w, h[m].at, exec'[w].w)
  PROVE  Promise!Next \/ seen' = seen
<1>1. GraphInv /\ Path(m, h) /\ Noted(m, h) /\ m \in 1..m
  BY DEF Base, Course, Path
<1>2. CASE i # m
  BY <1>1, <1>2, NotesNothing DEF Onto, Same
<1>3. CASE i = m
  <2>1. PICK d, a : d = exec'[w] /\ a = h[m].at
    OBVIOUS
  <2>2. outcome = "none"
    BY <1>3 DEF Course, Over, Onto
  <2>3. CASE Walked(d.w) = Walked(h[m].w)
    <3>1. DOMAIN seen = Walked(d.w)
      BY <1>1, <2>3, SeenOn
    <3>2. seen' = [n \in DOMAIN seen |-> seen[n]] /\ seen = [n \in DOMAIN seen |-> seen[n]]
      <4>1. DOMAIN seen \cup Walked(d.w) = DOMAIN seen
        BY <3>1
      <4> QED BY <1>1, <2>1, <4>1 DEF Notes, Noted
    <3> QED BY <3>2
  <2>4. CASE a \in 1..Len(order) /\ ~ h[m].w.raised /\ Settled(order[a], h[m].w, d.w)
    <3>1. Grows(h[m].w, d.w)
      BY <1>3, <2>1 DEF More
    <3>2. WalkOK(h[m].w, a)
      BY <1>1, <2>1 DEF Path
    <3> QED BY <1>1, <2>1, <2>2, <2>4, <3>1, <3>2, SettlesOne
  <2> QED BY <1>3, <2>1, <2>3, <2>4 DEF More
<1> QED BY <1>2, <1>3

\* The course has come to its end without an exception: the promise is complete.
LEMMA Completes ==
  ASSUME GraphInv, NEW m, NEW h, Course(m, h), h[m].at > Len(order), ~ h[m].w.raised,
         outcome = "none", outcome' = "completed", UNCHANGED <<graph, seen>>
  PROVE  Promise!Next
<1>1. PICK v, a : v = h[m].w /\ a = h[m].at
  OBVIOUS
<1>2. m \in 1..m /\ WalkOK(v, a) /\ a \in Nat /\ a > Len(order) /\ ~ v.raised
  BY <1>1, GraphFacts DEF Course, Path, ExecOK, Last
<1>3. DOMAIN seen = Steps(graph) /\ \A n \in Walked(v) : seen[n] = FateIn(v, n)
  BY <1>1, <1>2, AllWalked, SeenOn
<1>4. PICK R : R = {n \in Promise!Steps(graph) : graph.type[n] = "output" /\ Promise!Ran(n)}
  OBVIOUS
<1>5. \A n \in R : n \in Outputs(v)
  <2>1. SUFFICES ASSUME NEW n \in R PROVE n \in Outputs(v)
    OBVIOUS
  <2>2. graph.type[n] = "output" /\ n \in DOMAIN seen /\ seen[n] # Skipped
    BY <1>4, <2>1, SameGraph DEF Promise!Ran
  <2>3. n \in Walked(v) /\ n \notin v.skipped
    BY <1>1, <1>2, <1>3, <2>2, SeenOn DEF FateIn
  <2> QED BY <2>2, <2>3 DEF Walked, Outputs
<1>6. \A n, k \in R : n = k
  BY <1>2, <1>5 DEF WalkOK
<1>7. Cardinality(R) <= 1
  <2>1. CASE R = {}
    BY <2>1, FS_EmptySet
  <2>2. ASSUME NEW n \in R PROVE Cardinality(R) <= 1
    <3>1. R = {n}
      BY <1>6, <2>2
    <3>2. Cardinality({n}) = 1
      BY FS_Singleton
    <3> QED BY <3>1, <3>2
  <2> QED BY <2>1, <2>2
<1>8. Promise!Cardinality({n \in Promise!Steps(graph) :
                            graph.type[n] = "output" /\ Promise!Ran(n)}) <= 1
  BY <1>4, <1>7, SameCount
<1>9. DOMAIN seen = Promise!Steps(graph)
  BY <1>3, SameGraph
<1>10. Promise!Complete
  BY <1>8, <1>9 DEF Promise!Complete
<1> QED BY <1>10 DEF Promise!Next

\* Any other end is a failure of the promise.
LEMMA Fails1 ==
  ASSUME outcome = "none", outcome' \in {"failed", "error"}, UNCHANGED <<graph, seen>>
  PROVE  Promise!Next
<1>1. Promise!Fail
  BY DEF Promise!Fail
<1> QED BY <1>1 DEF Promise!Next

-----------------------------------------------------------------------------
(* The row of an interactive run, which a cancelled request takes its       *)
(* outcome from.                                                            *)

\* The row is completed only when the walk has ended well.
DoneInv ==
  ~ Durable =>
    /\ \A w \in Workers : Live(w) /\ row.status = "completed" =>
         exec[w].at > Len(order) /\ ~ exec[w].w.raised
    /\ starts = 0 => row.status # "completed"

\* The execution at w completes the row.
Completing(w) ==
  /\ Live(w) /\ exec[w].at > Len(order) /\ ~ exec[w].w.raised
  /\ Same(exec'[w], exec[w]) /\ Rest(w) /\ starts' = starts

LEMMA RowWrites ==
  ASSUME Base, Next, row'.status = "completed"
  PROVE  row.status = "completed" \/ \E w \in Workers : Completing(w)
<1> USE DEF Base
<1>1. ASSUME NEW w \in Workers, Write(w) PROVE row' = row \/ Completing(w)
  <2>1. PICK e, d, op : e = exec[w] /\ d = [e EXCEPT !.phase = "written"] /\ op = NextOp(e)
    OBVIOUS
  <2>2. /\ Live(w) /\ ExecOK(e) /\ op # NoOp /\ row' = RowAfter(op) /\ starts' = starts
        /\ exec' = [exec EXCEPT ![w] = d]
    BY <1>1, <2>1 DEF Write, Live, ExecInv, BusyInv
  <2>3. e.begun = 0
    BY <2>1, <2>2, NextOpIs
  <2>4. Same(d, e)
    BY <2>1, <2>2, <2>3, PhaseOK DEF Phases, Same
  <2>5. Changed(w, d)
    BY <2>2, InstallIs DEF ExecInv
  <2>6. op.kind = "finish" \/ row' = row
    BY <1>1, <2>1, <2>2 DEF RowAfter, Write, RowOps
  <2>7. op.kind = "finish" => e.at > Len(order) /\ ~ e.w.raised
    <3>1. Len(order) \in Nat
      BY GraphFacts
    <3>2. e.at \in 1..Len(order) /\ order[e.at] \in Nodes(graph) /\ op = NodeOp(order[e.at], e)
            => op.kind # "finish"
      BY <2>2, NodeOpIs
    <3> QED BY <2>1, <2>2, <3>1, <3>2, NextOpIs DEF Op
  <2> QED BY <2>1, <2>2, <2>4, <2>5, <2>6, <2>7 DEF Completing, Changed, Rest
<1>2. ASSUME NEW w \in Workers,
             \/ Inline(w) \/ Replay(w) \/ Begin(w) \/ Finish(w) \/ StepFails(w) \/ Receive(w)
             \/ FanOut(w) \/ Join(w) \/ End(w) \/ Crash(w) \/ Start(w)
      PROVE  row' = row
  BY <1>2 DEF Inline, Replay, Begin, Finish, StepFails, Receive, FanOut, Join, End, Crash, Start
<1>3. ASSUME NEW w \in Workers, DirectWrite(w) PROVE row' = row
  BY <1>3 DEF DirectWrite
<1>4. ASSUME NEW w \in Workers, Stream(w) PROVE row' = row
  BY <1>4 DEF Stream, RowInv
<1>5. ASSUME NEW w \in Workers, Cancel(w) PROVE row' = row
  BY <1>5 DEF Cancel, FailIfActive, RowInv
<1>6. ASSUME NEW c, ChildEnds(c) \/ ReadGate(c) \/ Answer(c) \/ RequestFails(c) PROVE row' = row
  BY <1>6 DEF ChildEnds, ReadGate, Answer, RequestFails
<1>7. Sweep => row' = row
  BY DEF Sweep, FailIfActive, RowInv
<1> QED BY <1>1, <1>2, <1>3, <1>4, <1>5, <1>6, <1>7 DEF Next, Work

\* The last operation of a walk that ended well leaves it as it is.
LEMMA FinishGoes ==
  ASSUME GraphInv, NEW e, ExecOK(e), e.at > Len(order), ~ e.w.raised, NEW o, NEW d, ByResult(e, o, d)
  PROVE  d.at > Len(order) /\ ~ d.w.raised
<1>1. PICK op : op = NextOp(e)
  OBVIOUS
<1>2. PICK x : x = Consume(e, op, o)
  OBVIOUS
<1>3. op # NoOp /\ Same(d, x)
  BY <1>1, <1>2 DEF ByResult
<1>4. Len(order) \in Nat /\ e.at \in Nat /\ DOMAIN e = Fields
  BY GraphFacts DEF ExecOK, Last
<1>5. op.kind = "finish"
  BY <1>1, <1>3, <1>4, NextOpIs DEF Op
<1>6. PICK b : b = [e EXCEPT !.k = @ + 1, !.out = o, !.pos = @ + 1, !.phase = "idle"]
  OBVIOUS
<1>7. x = [b EXCEPT !.at = Len(order) + 2]
  BY <1>2, <1>5, <1>6 DEF Consume
<1>8. DOMAIN b = Fields /\ b.w = e.w
  BY <1>4, <1>6 DEF Fields
<1>9. x.at = Len(order) + 2 /\ x.w = e.w
  BY <1>7, <1>8 DEF Fields
<1> QED BY <1>3, <1>4, <1>9 DEF Same

LEMMA DoneNext ==
  ASSUME Base, CourseInv, DoneInv, Next
  PROVE  DoneInv'
<1> USE DEF Base
<1>1. \E m, h : Course(m, h)
  BY DEF CourseInv
<1>2. PICK m, h : Course(m, h)
  BY <1>1
<1>3. Durable' = Durable /\ Len(order)' = Len(order)
  BY StepsSteady DEF Steady, ctl, Durable
<1> SUFFICES ASSUME ~ Durable, row'.status = "completed"
             PROVE  /\ \A v \in Workers : exec'[v].phase # "none" =>
                         exec'[v].at > Len(order) /\ ~ exec'[v].w.raised
                    /\ starts' # 0
  BY <1>3 DEF DoneInv, Live
<1>4. CASE \E w \in Workers : Completing(w)
  <2>1. PICK w \in Workers : Completing(w)
    BY <1>4
  <2>2. ASSUME NEW v \in Workers, exec'[v].phase # "none" PROVE v = w
    <3>1. v # w => Live(v) /\ Live(w)
      BY <2>1, <2>2 DEF Completing, Rest, Live
    <3> QED BY <1>2, <3>1 DEF Course, Solo
  <2>3. starts' # 0
    BY <1>2, <2>1 DEF Completing, Course, Solo
  <2> QED BY <2>1, <2>2, <2>3 DEF Completing, Same
<1>5. CASE row.status = "completed" /\ ~ \E w \in Workers : Completing(w)
  <2>1. /\ starts # 0
        /\ \A v \in Workers : Live(v) => exec[v].at > Len(order) /\ ~ exec[v].w.raised
    BY <1>5 DEF DoneInv
  <2>2. starts' = starts /\ \A w \in Workers : ~ Opens(w)
    BY <2>1, StartsCount, StartOpens DEF Opens
  <2>3. ASSUME NEW w \in Workers, Walks(w) PROVE FALSE
    BY <2>1, <2>3, GraphFacts DEF Walks, ByInline
  <2>4. ASSUME NEW w \in Workers, Goes(w), NEW v \in Workers, exec'[v].phase # "none"
        PROVE  exec'[v].at > Len(order) /\ ~ exec'[v].w.raised
    <3>1. CASE v = w
      <4>1. PICK o \in Outcome : ByResult(exec[w], o, exec'[w])
        BY <2>4 DEF Goes
      <4>2. ExecOK(exec[w]) /\ exec[w].at > Len(order) /\ ~ exec[w].w.raised
        BY <2>1, <2>4 DEF Goes, ExecInv
      <4> QED BY <3>1, <4>1, <4>2, FinishGoes
    <3>2. CASE v # w
      BY <2>1, <2>4, <3>2 DEF Goes, Rest, Live
    <3> QED BY <3>1, <3>2
  <2>5. ASSUME Quiet, NEW v \in Workers, exec'[v].phase # "none"
        PROVE  exec'[v].at > Len(order) /\ ~ exec'[v].w.raised
    BY <2>1, <2>5 DEF Quiet, Stays, Same
  <2>6. \A w \in Workers : ~ Halts(w)
    BY DEF Halts
  <2> QED BY <2>1, <2>2, <2>3, <2>4, <2>5, <2>6, StepKinds DEF Happens
<1> QED BY <1>4, <1>5, RowWrites

-----------------------------------------------------------------------------
(* The end of the run. *)

\* The run is over after this step: with a failure, or because the walk of the
\* execution at w has ended well.
Finishes(w) == /\ Live(w) /\ exec[w].at > Len(order) /\ ~ exec[w].w.raised
               /\ Durable => exec[w].at = Last
Stops ==
  /\ outcome = "none" /\ seen' = seen
  /\ \/ outcome' \in {"failed", "error"}
     \/ outcome' = "completed" /\ \E w \in Workers : Finishes(w)

LEMMA CommitStops ==
  ASSUME NEW w \in Workers, NEW op, NEW o, Take(w, op, o) \/ Commit(w, op, o)
  PROVE  outcome' = outcome \/ Stops
<1>1. Take(w, op, o) => outcome' = outcome \/ Stops
  BY DEF Take, Leave, Ends, Stops
<1>2. Commit(w, op, o) => Take(w, op, o) \/ outcome' = outcome
  BY DEF Commit
<1> QED BY <1>1, <1>2

LEMMA OutcomeStops ==
  ASSUME Base, DoneInv, Next
  PROVE  outcome' = outcome \/ Stops
<1> USE DEF Base
<1>1. ASSUME NEW w \in Workers, Replay(w) \/ Finish(w) \/ StepFails(w) \/ Receive(w)
      PROVE  outcome' = outcome \/ Stops
  <2>1. \E op, o : Take(w, op, o) \/ Commit(w, op, o)
    BY <1>1 DEF Replay, Finish, StepFails, Receive
  <2> QED BY <2>1, CommitStops
<1>2. ASSUME NEW w \in Workers, DirectWrite(w) \/ RequestFails(w)
      PROVE  outcome' = outcome \/ Stops
  BY <1>2 DEF DirectWrite, RequestFails, Leave, Ends, Stops
<1>3. ASSUME NEW w \in Workers, End(w) PROVE outcome' = outcome \/ Stops
  <2>1. /\ Live(w) /\ exec[w].at = Last /\ exec[w].at > Len(order) /\ seen' = seen
    BY <1>3, GraphFacts DEF End, Leave, Live, Last
  <2>2. outcome' = outcome \/ (outcome = "none" /\ outcome' \in {"failed", "completed"})
    BY <1>3 DEF End, Ends
  <2>3. outcome' # outcome /\ outcome' = "completed" => ~ exec[w].w.raised
    BY <1>3 DEF End, Ends
  <2> QED BY <2>1, <2>2, <2>3 DEF Stops, Finishes
<1>4. ASSUME NEW w \in Workers, Cancel(w) PROVE outcome' = outcome \/ Stops
  <2>1. Live(w) /\ ~ Durable /\ seen' = seen /\ FailIfActive
    BY <1>4 DEF Cancel, Leave
  <2>2. outcome' = outcome \/ (outcome = "none" /\ outcome' = row'.status)
    BY <1>4 DEF Cancel, Ends
  <2>3. row.status # "waiting"
    <3>1. row.status = "waiting" => row.at \in Gates
      BY DEF RowInv
    <3>2. Gates # {} => DurableOnly(graph)
      BY DEF Gates, DurableOnly
    <3> QED BY <2>1, <3>1, <3>2 DEF GraphInv
  <2>4. \/ row'.status \in {"failed", "none"}
        \/ row'.status = "completed" /\ row.status = "completed"
    BY <2>1, <2>3 DEF FailIfActive, Active, Terminal, RowInv
  <2>5. row.status = "completed" => Finishes(w)
    BY <2>1 DEF DoneInv, Finishes
  <2> QED BY <2>1, <2>2, <2>4, <2>5 DEF Stops
<1>5. ASSUME NEW w \in Workers,
             \/ Inline(w) \/ Begin(w) \/ Write(w) \/ FanOut(w) \/ Join(w) \/ Crash(w) \/ Stream(w)
             \/ Start(w)
      PROVE  outcome' = outcome
  BY <1>5 DEF Inline, Begin, Write, FanOut, Join, Crash, Stream, Start
<1>6. ASSUME NEW c, ChildEnds(c) \/ ReadGate(c) \/ Answer(c) PROVE outcome' = outcome
  BY <1>6 DEF ChildEnds, ReadGate, Answer
<1>7. Sweep => outcome' = outcome
  BY DEF Sweep
<1> QED BY <1>1, <1>2, <1>3, <1>4, <1>5, <1>6, <1>7 DEF Next, Work

LEMMA StopsPromise ==
  ASSUME GraphInv, NEW m, NEW h, Course(m, h), Stops, graph' = graph
  PROVE  Promise!Next
<1>1. CASE outcome' \in {"failed", "error"}
  BY <1>1, Fails1 DEF Stops
<1>2. ASSUME NEW w \in Workers, Finishes(w), outcome' = "completed" PROVE Promise!Next
  <2>1. PICK i \in 1..m : Same(exec[w], h[i]) /\ (~ Durable => i = m)
    BY <1>2 DEF Finishes, Course, Placed
  <2>2. i = m
    BY <1>2, <2>1, OnCourse DEF Finishes, Course
  <2>3. h[m].at > Len(order) /\ ~ h[m].w.raised
    BY <1>2, <2>1, <2>2 DEF Finishes, Same
  <2> QED BY <1>2, <2>3, Completes DEF Stops
<1> QED BY <1>1, <1>2 DEF Stops

-----------------------------------------------------------------------------
(* The refinement. *)

LEMMA PromiseNext ==
  ASSUME Base, CourseInv, DoneInv, Next
  PROVE  Promise!Next \/ UNCHANGED <<graph, seen, outcome>>
<1> USE DEF Base
<1>1. \E m, h : Course(m, h)
  BY DEF CourseInv
<1>2. PICK m, h : Course(m, h)
  BY <1>1
<1>3. graph' = graph /\ Path(m, h) /\ Noted(m, h) /\ m \in 1..m
  BY <1>2, StepsSteady DEF Steady, ctl, Course, Path
<1>4. CASE Stops
  BY <1>2, <1>3, <1>4, StopsPromise
<1>5. CASE outcome' = outcome
  <2>1. CASE Quiet \/ \E w \in Workers : Opens(w)
    BY <1>3, <1>5, <2>1 DEF Quiet, Opens
  <2>2. ASSUME NEW w \in Workers, Live(w)
        PROVE  \E i \in 1..m : Same(exec[w], h[i]) /\ (~ Durable => i = m)
    BY <1>2, <2>2 DEF Course, Placed
  <2>3. ASSUME NEW w \in Workers, Halts(w) PROVE seen' = seen
    <3>1. CASE Notes(w) /\ Same(exec'[w], exec[w])
      <4>1. PICK i \in 1..m : Same(exec[w], h[i])
        BY <2>2, <2>3 DEF Halts
      <4>2. exec'[w].w = h[i].w
        BY <3>1, <4>1 DEF Same
      <4> QED BY <1>3, <3>1, <4>2, NotesNothing
    <3> QED BY <2>3, <3>1 DEF Halts
  <2>4. ASSUME NEW w \in Workers, Walks(w) PROVE Promise!Next \/ seen' = seen
    <3>1. PICK i \in 1..m : Same(exec[w], h[i]) /\ (~ Durable => i = m)
      BY <2>2, <2>4 DEF Walks
    <3>2. Onto(w, m, h, i) /\ (i = m => ByInline(h[m], exec'[w]))
      BY <1>2, <2>4, <3>1, WalksFrom
    <3>3. i = m => More(h[m].w, h[m].at, exec'[w].w)
      BY <1>3, <3>2, InlineWalks DEF Path
    <3> QED BY <1>2, <1>3, <1>5, <2>4, <3>1, <3>2, <3>3, WalkPromise DEF Walks
  <2>5. ASSUME NEW w \in Workers, Goes(w) PROVE Promise!Next \/ seen' = seen
    <3>1. PICK i \in 1..m : Same(exec[w], h[i]) /\ (~ Durable => i = m)
      BY <2>2, <2>5 DEF Goes
    <3>2. Onto(w, m, h, i) /\ \E o \in Outcome : ByResult(h[i], o, exec'[w])
      BY <1>2, <2>5, <3>1, GoesFrom
    <3>3. i = m => More(h[m].w, h[m].at, exec'[w].w)
      BY <1>3, <3>2, ResultWalks DEF Path
    <3> QED BY <1>2, <1>3, <1>5, <2>5, <3>1, <3>2, <3>3, WalkPromise DEF Goes
  <2> QED BY <1>3, <1>5, <2>1, <2>3, <2>4, <2>5, StepKinds DEF Happens
<1> QED BY <1>4, <1>5, OutcomeStops

\* Whatever crashes, fails, overlaps or is cancelled, the run implements the
\* dataflow: each node settles once, after all it is sequenced after, skipped
\* exactly if its inputs are dead, and a run completes only when all have settled.
THEOREM Implements == Spec => KeepsPromise
<1> DEFINE Inv == Base /\ CourseInv /\ DoneInv
<1>1. Init => Inv
  <2>1. Init => DoneInv
    BY DEF Init, DoneInv
  <2> QED BY <2>1, BaseInit, CourseInit
<1>2. Inv /\ [Next]_vars => Inv'
  <2>1. DoneInv /\ UNCHANGED vars => DoneInv'
    BY DEF vars, ctl, DoneInv, Durable, Live
  <2> QED BY <2>1, BaseNext, BaseStays, CourseNext, CourseStays, DoneNext
<1>3. Init => Promise!Init
  BY DEF Init, Promise!Init
<1>4. Inv /\ [Next]_vars => [Promise!Next]_<<graph, seen, Ended>>
  <2>1. Inv /\ Next => Promise!Next \/ UNCHANGED <<graph, seen, outcome>>
    BY PromiseNext
  <2>2. UNCHANGED vars => UNCHANGED <<graph, seen, outcome>>
    BY DEF vars, ctl
  <2>3. UNCHANGED <<graph, seen, outcome>> => UNCHANGED <<graph, seen, Ended>>
    BY DEF Ended
  <2> QED BY <2>1, <2>2, <2>3
<1>5. Spec => []Inv
  BY <1>1, <1>2, PTL DEF Spec
<1> QED BY <1>3, <1>4, <1>5, PTL DEF Spec, KeepsPromise, Promise!Spec, Ended

=============================================================================
