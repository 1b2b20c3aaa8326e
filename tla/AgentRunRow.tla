---------------------------- MODULE AgentRunRow -----------------------------
(* What the row of a run says, as long as no two processes have acted on    *)
(* the run at once: proofs from the course of the run.                      *)
EXTENDS AgentRunPromise

-----------------------------------------------------------------------------
(* The row and the course. *)

\* A walk that has ended well, and one that is about to fail the run or has.
Finishing(e) == e.at > Len(order) /\ ~ e.w.raised
Failing(e) == e.w.raised /\ (e.at = Last \/ NextOp(e).kind = "fail")

\* The row as an operation that writes it leaves it.
Shown(op) ==
  /\ op.kind = "wait" => row = [status |-> "waiting", at |-> op.node]
  /\ op.kind = "finish" => row.status = "completed"
  /\ op.kind = "fail" => row.status = "failed"

\* What the row says of e, the last place of the course.
Tells(e) ==
  /\ row.status = "completed" => Finishing(e)
  /\ row.status = "failed" => Failing(e) \/ (~ Durable /\ \A w \in Workers : ~ Live(w))
  /\ NextOp(e).kind = "recv" => row = [status |-> "waiting", at |-> NextOp(e).node]
  /\ ~ Unwritten /\ e.at = Last => row.status = IF e.w.raised THEN "failed" ELSE "completed"

\* One execution at a time: it acts only past the journal's end.
Single ==
  /\ \A v, w \in Workers : Live(v) /\ Live(w) => v = w
  /\ \A w \in Workers : exec[w].phase \in {"busy", "written"} /\ Durable
                          => exec[w].pos = Len(journal)
  /\ \A w \in Workers : exec[w].phase = "written" => Shown(NextOp(exec[w]))

\* Once the run is over nothing executes it, and the row says how it ended.
Closed ==
  outcome # "none" => /\ \A w \in Workers : ~ Live(w)
                      /\ outcome # "error" /\ ~ Unwritten => row.status = outcome

\* An interactive run whose row has an outcome has nothing left to do.
Rested ==
  ~ Durable => /\ starts = 0 => row.status = "none"
               /\ row.status \in Terminal =>
                    \A w \in Workers : Live(w) => exec[w].phase = "written" \/ exec[w].at = Last

RowIs == row \in [status : {"none", "created", "streaming", "waiting"} \cup Terminal,
                  at : Gates \cup {0}]

RowCourse == \E m, h : Course(m, h) /\ (~ lapped => Tells(h[m]))
Alone == RowIs /\ (~ lapped => Single /\ Closed /\ Rested)

\* A state in which no two processes have acted on the run.
Here(m, h) == Base /\ Course(m, h) /\ RowIs /\ Single /\ Closed /\ Rested /\ Tells(h[m])

-----------------------------------------------------------------------------
(* Steps. *)

LEMMA LapsStay ==
  ASSUME Next, ~ lapped', RowInv
  PROVE  ~ lapped
<1>1. lapped \in BOOLEAN
  BY DEF RowInv
<1>2. ASSUME NEW w \in Workers, Work(w) \/ Crash(w) \/ Stream(w) \/ Cancel(w)
                                \/ RequestFails(w)
      PROVE  lapped' = lapped
  BY <1>2 DEF Work, Inline, Replay, Begin, Write, Finish, StepFails, DirectWrite, Receive,
              FanOut, Join, End, Crash, Stream, Cancel, RequestFails
<1>3. ASSUME NEW w \in Workers, Start(w) PROVE ~ lapped
  BY <1>3 DEF Start
<1>4. ASSUME NEW c, ChildEnds(c) \/ ReadGate(c) \/ Answer(c) PROVE lapped' = lapped
  BY <1>4 DEF ChildEnds, ReadGate, Answer
<1>5. Sweep => ~ lapped
  BY DEF Sweep
<1> QED BY <1>2, <1>3, <1>4, <1>5 DEF Next

\* Steps that write the row leave every execution where it is.
Writes(w) == Write(w) \/ DirectWrite(w) \/ Stream(w) \/ Cancel(w)

LEMMA RowChanges ==
  ASSUME Base, Next
  PROVE  row' = row \/ Sweep \/ \E w \in Workers : Writes(w)
<1>1. ASSUME NEW w \in Workers,
             \/ Inline(w) \/ Replay(w) \/ Begin(w) \/ Finish(w) \/ StepFails(w) \/ Receive(w)
             \/ FanOut(w) \/ Join(w) \/ End(w) \/ Crash(w) \/ Start(w)
      PROVE  row' = row
  BY <1>1 DEF Inline, Replay, Begin, Finish, StepFails, Receive, FanOut, Join, End, Crash, Start
<1>2. ASSUME NEW c, ChildEnds(c) \/ ReadGate(c) \/ Answer(c) \/ RequestFails(c)
      PROVE  row' = row
  BY <1>2 DEF ChildEnds, ReadGate, Answer, RequestFails
<1> QED BY <1>1, <1>2 DEF Next, Work, Writes

LEMMA StaysStill ==
  ASSUME GraphInv, ExecInv, NEW w \in Workers, Stays(w) \/ exec'[w] = exec[w]
  PROVE  ~ Walks(w) /\ ~ Goes(w)
<1>1. SUFFICES ASSUME Walks(w) \/ Goes(w) PROVE FALSE
  OBVIOUS
<1>2. Live(w) /\ exec'[w].phase = "idle" /\ ExecOK(exec[w])
  BY <1>1 DEF Walks, Goes, ExecInv
<1>3. Same(exec'[w], exec[w])
  BY <1>2, SameSelf DEF Stays
<1>4. exec[w].at \in Nat /\ exec[w].pos \in Nat
  BY <1>2 DEF ExecOK, Last
<1>5. CASE Walks(w)
  <2>1. PICK x : x = Onward(exec[w], NextWalk(exec[w]))
    OBVIOUS
  <2>2. Same(exec'[w], x)
    BY <1>5, <2>1 DEF Walks, ByInline
  <2>3. x.at = exec[w].at + 1
    BY <1>2, <2>1, OnwardIs DEF ExecOK
  <2> QED BY <1>3, <1>4, <2>2, <2>3 DEF Same
<1>6. CASE Goes(w)
  <2>1. PICK o \in Outcome : ByResult(exec[w], o, exec'[w])
    BY <1>6 DEF Goes
  <2>2. PICK op, x : op = NextOp(exec[w]) /\ x = Consume(exec[w], op, o)
    OBVIOUS
  <2>3. op # NoOp /\ Same(exec'[w], x)
    BY <2>1, <2>2 DEF ByResult
  <2>4. x.pos = exec[w].pos + 1
    BY <1>2, <2>2, <2>3, ConsumeIs
  <2> QED BY <1>3, <1>4, <2>3, <2>4 DEF Same
<1> QED BY <1>1, <1>5, <1>6

\* What writes the row, or settles nothing, keeps the course.
LEMMA WritesQuiet ==
  ASSUME Base, NEW w \in Workers, Writes(w)
  PROVE  Quiet
BY QuietKinds DEF Writes, Base

\* An execution acts at the end of the course.
LEMMA ActsAtEnd ==
  ASSUME Base, NEW m, NEW h, Course(m, h), Single, NEW w \in Workers,
         exec[w].phase \in {"busy", "written"}
  PROVE  Same(exec[w], h[m])
<1>1. Live(w) /\ NextOp(exec[w]) # NoOp
  BY DEF Live, Base, BusyInv
<1>2. PICK i \in 1..m : Same(exec[w], h[i]) /\ (~ Durable => i = m)
  BY <1>1 DEF Course, Placed
<1>3. CASE i # m
  <2>1. Durable /\ exec[w].pos = Len(journal)
    BY <1>2, <1>3 DEF Single
  <2>2. PICK e : e = exec[w]
    OBVIOUS
  <2>3. NextOp(e) # NoOp => \E o \in Outcome : Durable => e.pos + 1 \in DOMAIN journal
    BY <1>2, <1>3, <2>2, OnCourse DEF Course
  <2> QED BY <1>1, <2>1, <2>2, <2>3 DEF Base, JournalInv
<1> QED BY <1>2, <1>3

\* So does one that fails the run directly.
LEMMA DirectAtEnd ==
  ASSUME Base, NEW m, NEW h, Course(m, h), NEW w \in Workers, exec[w].phase = "direct"
  PROVE  Durable /\ Halted(h[m]) /\ NextOp(h[m]).kind = "fail" /\ Failing(h[m])
<1>1. Live(w) /\ NextOp(exec[w]).kind = "fail" /\ NextOp(exec[w]) # NoOp
  BY DEF Live, Base, BusyInv
<1>2. Halted(h[m]) /\ Durable /\ NextOp(h[m]) # NoOp
  BY DEF Course, Directs, Halted
<1>3. Path(m, h) /\ GraphInv
  BY DEF Base, Course
<1>4. PICK i \in 1..m : Same(exec[w], h[i])
  BY <1>1 DEF Course, Placed
<1>5. ExecOK(h[i]) /\ NextOp(h[i]).kind = "fail" /\ NextOp(h[i]) # NoOp
  BY <1>1, <1>3, <1>4, SameNext DEF Path
<1>6. CASE i # m
  <2>1. PICK e : e = exec[w]
    OBVIOUS
  <2>2. NextOp(e) # NoOp => \E o \in Outcome : ByResult(h[i], o, h[i + 1])
    BY <1>3, <1>4, <1>6, <2>1, OnCourse
  <2>3. PICK o \in Outcome : ByResult(h[i], o, h[i + 1])
    BY <1>1, <2>1, <2>2
  <2>4. h[i + 1].at = Last
    <3>1. PICK x : x = Consume(h[i], NextOp(h[i]), o)
      OBVIOUS
    <3>2. x.at = Last
      <4>1. DOMAIN h[i] = Fields
        BY <1>5 DEF ExecOK
      <4> QED BY <1>5, <3>1, <4>1 DEF Consume, Fields, Last
    <3> QED BY <2>3, <3>1, <3>2 DEF ByResult, Same
  <2>5. i + 1 \in 1..m
    BY <1>3, <1>4, <1>6, <2>1, OnCourse
  <2>6. i + 1 = m
    <3>1. i + 1 # m => h[i + 1].at # Last
      <4>1. PICK j : j = i + 1
        OBVIOUS
      <4>2. j \in 1..m /\ (j # m => h[j].at # Last)
        BY <1>3, <2>5, <4>1, OnCourse, SameSelf
      <4> QED BY <4>1, <4>2
    <3> QED BY <2>4, <3>1
  <2>7. NextOp(h[m]) = NoOp
    BY <2>4, <2>6, GraphFacts, <1>3 DEF NextOp, Last
  <2> QED BY <1>2, <2>7
<1>7. CASE i = m
  <2>1. PICK g, op : g = h[m] /\ op = NextOp(g)
    OBVIOUS
  <2>2. ExecOK(g) /\ op.kind = "fail" /\ op # NoOp
    BY <1>5, <1>7, <2>1
  <2>3. g.w.raised
    <3>1. g.at \in 1..Len(order) /\ order[g.at] \in Nodes(graph) /\ op = NodeOp(order[g.at], g)
            => op.kind # "fail"
      BY <1>3, <2>2, NodeOpIs
    <3> QED BY <1>3, <2>1, <2>2, <3>1, NextOpIs DEF Op
  <2> QED BY <1>2, <2>1, <2>2, <2>3 DEF Failing
<1> QED BY <1>6, <1>7

\* The operations that write the row by what the walk is.
LEMMA OpTells ==
  ASSUME GraphInv, NEW e, ExecOK(e), NEW op, op = NextOp(e), op # NoOp
  PROVE  /\ op.kind = "finish" => Finishing(e)
         /\ op.kind = "fail" => Failing(e)
         /\ Finishing(e) => op.kind = "finish"
         /\ e.at # Last
         /\ op.kind = "wait" => op.node \in Gates
<1>1. Len(order) \in Nat /\ e.at \in Nat
  BY GraphFacts DEF ExecOK, Last
<1>2. e.at \in 1..Len(order) /\ order[e.at] \in Nodes(graph) /\ op = NodeOp(order[e.at], e)
        => op.kind \notin {"fail", "finish"}
  BY NodeOpIs
<1>3. e.at # Last
  BY <1>1 DEF NextOp, Last
<1> QED BY <1>1, <1>2, <1>3, NextOpIs, ChildOp DEF Op, Finishing, Failing

\* The step that makes the course longer writes no row; if it takes the result of
\* an operation that does, the row has been written, unless the step failed.
LEMMA LengthensRow ==
  ASSUME Base, Next, NEW m, NEW h, Course(m, h), NEW w \in Workers, Lengthens(w, m, h)
  PROVE  /\ row' = row
         /\ Goes(w) /\ NextOp(exec[w]).kind \in RowOps =>
              \/ exec[w].phase = "written"
              \/ /\ NextOp(exec[w]).kind \in {"wait", "go"}
                 /\ \E o : o.tag = "raise" /\ ByResult(exec[w], o, exec'[w])
<1> USE DEF Base
<1>1. (Walks(w) \/ Goes(w)) /\ Same(exec[w], h[m]) /\ ~ Halted(h[m])
  BY DEF Lengthens
<1>2. ~ Stays(w) /\ exec'[w] # exec[w] /\ ~ Quiet
  BY <1>1, StaysStill DEF Quiet
<1>3. row' = row
  BY <1>2, RowChanges, WritesQuiet DEF Sweep
<1>4. ASSUME Goes(w), NextOp(exec[w]).kind \in RowOps
      PROVE  \/ exec[w].phase = "written"
             \/ /\ NextOp(exec[w]).kind \in {"wait", "go"}
                /\ \E o : o.tag = "raise" /\ ByResult(exec[w], o, exec'[w])
  <2>1. PICK op : op = NextOp(exec[w])
    OBVIOUS
  <2>2. Live(w) /\ exec'[w].phase = "idle" /\ op # NoOp
    BY <1>4, <2>1 DEF Goes, ByResult
  <2>3. ~ Recorded(exec[w])
    BY <1>1 DEF Recorded, Same, Course, Ledger
  <2>4. Finish(w) \/ StepFails(w) \/ Receive(w)
    <3>1. ASSUME NEW v \in Workers, Walks(v) \/ Halts(v) \/ Goes(v) PROVE v = w
      BY <1>2, <3>1 DEF Walks, Halts, Goes, Rest
    <3>2. ASSUME NEW v \in Workers, Start(v) PROVE FALSE
      BY <1>2, <2>2, <3>2, StartOpens DEF Opens, Changed
    <3>3. ASSUME NEW v \in Workers, Inline(v) PROVE FALSE
      <4>1. Walks(v) /\ v = w
        BY <3>1, <3>3, InlineKind
      <4> QED BY <2>1, <2>2, <4>1 DEF Walks, ByInline
    <3>4. ASSUME NEW v \in Workers, Replay(v) PROVE FALSE
      <4>1. v = w
        BY <3>1, <3>4, ReplayKind
      <4> QED BY <2>3, <3>4, <4>1 DEF Replay
    <3>5. ASSUME NEW v \in Workers, Finish(v) \/ StepFails(v) \/ Receive(v) PROVE v = w
      BY <1>2, <3>1, <3>5, OperationKinds
    <3>6. ASSUME NEW v \in Workers,
                 \/ Begin(v) \/ Write(v) \/ DirectWrite(v) \/ FanOut(v) \/ Join(v) \/ End(v)
                 \/ Crash(v) \/ Stream(v) \/ Cancel(v) \/ RequestFails(v)
          PROVE  FALSE
      BY <1>2, <3>6, QuietKinds
    <3>7. ASSUME NEW c, ChildEnds(c) \/ ReadGate(c) \/ Answer(c) PROVE FALSE
      BY <1>2, <3>7 DEF ChildEnds, ReadGate, Answer
    <3>8. ~ Sweep
      BY <1>2 DEF Sweep
    <3> QED BY <3>2, <3>3, <3>4, <3>5, <3>6, <3>7, <3>8 DEF Next, Work
  <2>5. CASE Finish(w)
    BY <1>4, <2>1, <2>5 DEF Finish
  <2>6. CASE Receive(w)
    BY <1>4, <2>1, <2>6 DEF Receive, RowOps
  <2>7. CASE StepFails(w)
    <3>1. PICK o, x : o = Out("raise", NoValue) /\ x = Consume(exec[w], op, o)
      OBVIOUS
    <3>2. o.tag = "raise" /\ Commit(w, op, o) /\ Durable
      BY <2>1, <2>7, <3>1 DEF StepFails, Out
    <3>3. Take(w, op, o)
      BY <2>3, <3>2 DEF Commit, Recorded
    <3>4. ~ Leave(w)
      BY <2>2 DEF Leave, NoExec, ExecInv
    <3>5. op.kind # "fail"
      <4>1. SUFFICES ASSUME op.kind = "fail" PROVE FALSE
        OBVIOUS
      <4>2. Install(w, [exec[w] EXCEPT !.phase = "direct"])
        BY <3>2, <3>3, <3>4, <4>1 DEF Take
      <4>3. exec'[w] = [exec[w] EXCEPT !.phase = "direct"]
        BY <4>2, InstallIs DEF Changed, ExecInv
      <4>4. DOMAIN exec[w] = Fields
        BY <2>2 DEF ExecInv, ExecOK
      <4> QED BY <2>2, <4>3, <4>4 DEF Fields
    <3>6. op.kind \in {"wait", "go"} /\ Install(w, x)
      BY <1>4, <2>1, <3>1, <3>2, <3>3, <3>4, <3>5 DEF Take, RowOps
    <3>7. exec'[w] = x
      BY <3>6, InstallIs DEF Changed, ExecInv
    <3>8. ByResult(exec[w], o, exec'[w])
      BY <2>1, <2>2, <3>1, <3>7, SameSelf DEF ByResult
    <3> QED BY <2>1, <3>2, <3>6, <3>8
  <2> QED BY <2>4, <2>5, <2>6, <2>7
<1> QED BY <1>3, <1>4

\* The places a result leads to that the row is about.
LEMMA ResultTells ==
  ASSUME GraphInv, NEW e, ExecOK(e), NEW o, NEW d, ExecOK(d), ByResult(e, o, d),
         NEW op, op = NextOp(e)
  PROVE  /\ d.at = Last => op.kind \in {"finish", "fail"} /\ d.w = e.w
         /\ op.kind \in {"finish", "fail"} => d.at = Last /\ d.w = e.w
         /\ NextOp(d).kind = "recv" =>
              op.kind = "wait" /\ op.node = NextOp(d).node /\ o.tag # "raise"
<1> DEFINE c == [e EXCEPT !.k = @ + 1, !.out = IF op.kind \in {"wait", "go"} THEN e.out ELSE o,
                          !.pos = @ + 1, !.phase = "idle"]
<1>1. PICK x : x = Consume(e, op, o)
  OBVIOUS
<1>2. op # NoOp /\ Same(d, x)
  BY <1>1 DEF ByResult
<1>3. /\ DOMAIN e = Fields /\ Len(order) \in Nat /\ Last = Len(order) + 2 /\ e.k \in Nat
      /\ e.at \in Nat /\ e.at <= Len(order) + 1
  <2>1. Len(order) \in Nat
    BY GraphFacts
  <2>2. e.at <= Len(order) + 1
    BY <1>2, NextOpIs
  <2>3. DOMAIN e = Fields /\ e.k \in Nat /\ e.at \in 0..Last
    BY DEF ExecOK
  <2> QED BY <2>1, <2>2, <2>3 DEF Last
<1>4. DOMAIN c = Fields /\ c.at = e.at /\ c.k = e.k + 1 /\ c.w = e.w
  BY <1>3 DEF Fields
<1>5. x = IF op.kind \in {"finish", "fail"} THEN [c EXCEPT !.at = Len(order) + 2]
          ELSE IF op.kind \in {"wait", "go"} /\ o.tag = "raise" THEN Onward(c, Raise(e.w))
          ELSE IF op.kind = "resolve" THEN [c EXCEPT !.w.raised = (o.tag = "gone")]
          ELSE IF e.at = 0 THEN IF c.k = Len(Prologue) /\ ~ c.w.raised THEN Onward(c, c.w) ELSE c
          ELSE IF NodeOp(op.node, c) = NoOp THEN Onward(c, SettleNode(op.node, c))
          ELSE c
  BY <1>1, Zenon DEF Consume
<1> HIDE DEF c
<1>6. CASE op.kind \in {"finish", "fail"}
  <2>1. x = [c EXCEPT !.at = Len(order) + 2]
    BY <1>5, <1>6
  <2>2. x.at = Last /\ x.w = e.w
    BY <1>3, <1>4, <2>1 DEF Fields
  <2>3. NextOp(d) = NoOp
    BY <1>2, <1>3, <2>2 DEF Same, NextOp
  <2> QED BY <1>2, <1>6, <2>2, <2>3 DEF Same, NoOp, Op
<1>7. CASE op.kind \notin {"finish", "fail"}
  <2>1. e.at <= Len(order)
    BY <1>2, <1>3, <1>7, NextOpIs DEF Op
  <2>2. /\ \/ x.at = e.at /\ x.k = e.k + 1
           \/ x.at = e.at + 1 /\ x.k = 0
        /\ op.kind \in {"wait", "go"} /\ o.tag = "raise" => x.k = 0
    <3>1. ASSUME NEW y PROVE Onward(c, y).at = e.at + 1 /\ Onward(c, y).k = 0
      BY <1>4, OnwardIs
    <3>2. CASE op.kind = "resolve"
      <4>1. x = [c EXCEPT !.w.raised = (o.tag = "gone")]
        BY <1>5, <3>2
      <4> QED BY <1>4, <3>2, <4>1 DEF Fields
    <3>3. CASE op.kind # "resolve"
      <4>1. x = c \/ \E y : x = Onward(c, y)
        BY <1>5, <1>7, <3>3
      <4>2. op.kind \in {"wait", "go"} /\ o.tag = "raise" => \E y : x = Onward(c, y)
        BY <1>5, <1>7
      <4> QED BY <1>4, <3>1, <4>1, <4>2
    <3> QED BY <3>2, <3>3
  <2>3. d.at # Last
    BY <1>2, <1>3, <2>1, <2>2 DEF Same
  <2>4. ASSUME NextOp(d).kind = "recv"
        PROVE  op.kind = "wait" /\ op.node = NextOp(d).node /\ o.tag # "raise"
    <3>1. PICK r : r = NextOp(d)
      OBVIOUS
    <3>2. r # NoOp /\ r.kind = "recv"
      BY <2>4, <3>1 DEF NoOp, Op
    <3>3. r.node \in Gates /\ d.k = 1 /\ d.at \in 1..Len(order) /\ r.node = order[d.at]
      BY <3>1, <3>2, ChildOp
    <3>4. e.at = d.at /\ e.k = 0 /\ x.k # 0
      BY <1>2, <1>3, <2>2, <3>3 DEF Same
    <3>5. op = NodeOp(r.node, e)
      BY <1>2, <1>7, <3>3, <3>4, NextOpIs DEF Op
    <3>6. graph.type[r.node] = "human" /\ ~ TooDeep(r.node)
      BY <3>3 DEF Gates, TooDeep, Composed
    <3>7. op = Op("wait", r.node, 0)
      BY <3>4, <3>5, <3>6 DEF NodeOp, HumanOp
    <3>8. op.kind = "wait" /\ op.node = r.node
      BY <3>7 DEF Op
    <3> QED BY <2>2, <3>1, <3>4, <3>8
  <2> QED BY <1>7, <2>3, <2>4
<1> QED BY <1>6, <1>7

-----------------------------------------------------------------------------
(* What the row says of the course, after a step. *)

\* What is said of an execution's place depends on the graph alone.
LEMMA KeepSaid ==
  ASSUME UNCHANGED ctl, NEW e
  PROVE  (Finishing(e))' = Finishing(e) /\ (Failing(e))' = Failing(e)
<1>1. (NextOp(e))' = NextOp(e)
  BY KeepNext
<1>2. order' = order /\ Last' = Last
  BY DEF ctl, Last
<1>3. (Finishing(e))' = Finishing(e)
  BY <1>2 DEF Finishing
<1>4. (Failing(e))' = Failing(e)
  BY <1>1, <1>2 DEF Failing
<1> QED BY <1>3, <1>4

\* An interactive execution, and one that has ended its walk, is at the end of the
\* course.
LEMMA LatestAt ==
  ASSUME NEW m, NEW h, Course(m, h), NEW w \in Workers, Live(w), ~ Durable \/ exec[w].at = Last
  PROVE  Same(exec[w], h[m])
<1>1. PICK i \in 1..m : Same(exec[w], h[i]) /\ (~ Durable => i = m)
  BY DEF Course, Placed
<1>2. PICK e : e = exec[w]
  OBVIOUS
<1>3. i # m => e.at # Last
  BY <1>1, <1>2, OnCourse DEF Course
<1> QED BY <1>1, <1>2, <1>3

\* An interactive run that has been executed is not taken up again.
LEMMA NobodyStarts ==
  ASSUME Base, Next, ~ Durable, starts # 0, \A w \in Workers : ~ Live(w), NEW w \in Workers
  PROVE  exec'[w].phase = "none"
<1>1. Happens
  BY StepKinds
<1>2. Quiet
  BY <1>1 DEF Happens, Opens, Halts, Walks, Goes
<1> QED BY <1>2 DEF Quiet, Stays

\* Results that end a run stay in the journal.
LEMMA UnwrittenStays ==
  ASSUME Base, Next, Unwritten
  PROVE  Unwritten'
<1>1. Steady
  BY StepsSteady
<1>2. PICK i \in DOMAIN journal : /\ journal[i].out.tag = "raise"
                                  /\ journal[i].op.kind \in {"resolve", "create", "finish", "fail"}
  BY DEF Unwritten
<1>3. i \in DOMAIN journal' /\ journal'[i] = journal[i]
  BY <1>1, <1>2 DEF Steady
<1>4. \E j \in DOMAIN journal' : /\ journal'[j].out.tag = "raise"
                                 /\ journal'[j].op.kind \in {"resolve", "create", "finish", "fail"}
  BY <1>2, <1>3
<1> QED BY <1>4 DEF Unwritten

\* The course gets longer: the row says of its new end what it said of the old one.
LEMMA TellsOn ==
  ASSUME NEW m, NEW h, Here(m, h), Next, NEW w \in Workers, Lengthens(w, m, h),
         NEW d, d = exec'[w], ExecOK(d)
  PROVE  (Tells(d))'
<1> DEFINE e == h[m]
<1> USE DEF Here
<1>1. /\ GraphInv /\ UNCHANGED ctl /\ ExecOK(e) /\ Live(w) /\ Same(exec[w], e)
      /\ Walks(w) \/ Goes(w)
  <2>1. UNCHANGED ctl
    BY StepsSteady DEF Steady
  <2>2. Path(m, h) /\ m \in 1..m
    BY DEF Course, Path
  <2> QED BY <2>1, <2>2 DEF Base, Lengthens, Walks, Goes, Path
<1>2. NextOp(exec[w]) = NextOp(e)
  BY <1>1, SameNext
<1>3. row' = row
  BY LengthensRow
<1>4. PICK p : p = NextOp(e)
  OBVIOUS
<1>5. CASE Walks(w)
  <2>1. ByInline(exec[w], d) /\ e.at \in 1..Len(order) /\ p = NoOp
    BY <1>1, <1>2, <1>4, <1>5 DEF Walks, ByInline, Same
  <2>2. Len(order) \in Nat
    BY <1>1, GraphFacts
  <2>3. d.k = 0 /\ d.at = e.at + 1
    <3>1. PICK x : x = Onward(exec[w], NextWalk(exec[w]))
      OBVIOUS
    <3>2. ExecOK(exec[w])
      BY <1>1 DEF Base, ExecInv
    <3>3. x.k = 0 /\ x.at = exec[w].at + 1 /\ Same(d, x)
      BY <2>1, <3>1, <3>2, OnwardIs DEF ExecOK, ByInline
    <3> QED BY <1>1, <3>3 DEF Same
  <2>4. ~ Finishing(e) /\ ~ Failing(e)
    BY <1>4, <2>1, <2>2 DEF Finishing, Failing, Last, NoOp, Op
  <2>5. row.status \notin {"completed", "failed"}
    BY <1>1, <2>4 DEF Tells
  <2>6. NextOp(d).kind # "recv"
    <3>1. PICK r : r = NextOp(d)
      OBVIOUS
    <3>2. r.kind = "recv" => r # NoOp /\ d.k = 1
      BY <1>1, <3>1, ChildOp DEF NoOp, Op
    <3> QED BY <2>3, <3>1, <3>2
  <2>7. d.at # Last
    BY <2>1, <2>2, <2>3 DEF Last
  <2>8. (NextOp(d))' = NextOp(d) /\ Last' = Last
    BY <1>1, KeepNext DEF ctl, Last
  <2> QED BY <1>3, <2>5, <2>6, <2>7, <2>8 DEF Tells
<1>6. CASE Goes(w)
  <2>1. PICK o \in Outcome : ByResult(exec[w], o, d)
    BY <1>6 DEF Goes
  <2>2. PICK g : g = exec[w]
    OBVIOUS
  <2>3. /\ ByResult(g, o, d) /\ ExecOK(g) /\ p = NextOp(g) /\ p # NoOp /\ Same(g, e)
        /\ g.phase = exec[w].phase
    BY <1>1, <1>2, <1>4, <2>1, <2>2 DEF ByResult, Base, ExecInv
  <2>4. /\ p.kind \in RowOps =>
             \/ g.phase = "written"
             \/ p.kind \in {"wait", "go"} /\ \E r : r.tag = "raise" /\ ByResult(g, r, d)
        /\ g.phase = "written" => Shown(p)
    BY <1>2, <1>4, <1>6, <2>2, LengthensRow DEF Single
  <2>5. /\ p.kind = "finish" => Finishing(g)
        /\ p.kind = "fail" => Failing(g)
        /\ Finishing(g) => p.kind = "finish"
        /\ g.at # Last
    BY <1>1, <2>3, OpTells
  <2>6. /\ d.at = Last => p.kind \in {"finish", "fail"} /\ d.w = g.w
        /\ p.kind \in {"finish", "fail"} => d.at = Last /\ d.w = g.w
        /\ NextOp(d).kind = "recv" => p.kind = "wait" /\ p.node = NextOp(d).node
    BY <1>1, <2>3, ResultTells
  <2>7. ASSUME NEW r, r.tag = "raise", ByResult(g, r, d)
        PROVE  NextOp(d).kind # "recv"
    BY <1>1, <2>3, <2>7, ResultTells
  <2>8. /\ Finishing(e) <=> Finishing(g)
        /\ Failing(e) <=> Failing(g)
    BY <1>4, <2>3 DEF Same, Finishing, Failing
  <2>9. row.status = "completed" => Finishing(d)
    <3>1. SUFFICES ASSUME Finishing(g) PROVE Finishing(d)
      BY <2>8 DEF Tells
    <3>2. g.at > Len(order) /\ ~ g.w.raised
      BY <3>1 DEF Finishing
    <3>3. d.at > Len(order) /\ ~ d.w.raised
      BY <1>1, <2>3, <3>2, FinishGoes
    <3> QED BY <3>3 DEF Finishing
  <2>10. row.status = "failed" => Failing(d)
    <3>1. SUFFICES ASSUME Failing(g) PROVE Failing(d)
      BY <1>1, <2>8 DEF Tells
    <3>2. g.w.raised /\ p.kind = "fail"
      BY <2>3, <2>5, <3>1 DEF Failing
    <3> QED BY <2>6, <3>2 DEF Failing
  <2>11. NextOp(d).kind = "recv" => row = [status |-> "waiting", at |-> NextOp(d).node]
    BY <2>4, <2>6, <2>7 DEF Shown, RowOps
  <2>12. d.at = Last => row.status = IF d.w.raised THEN "failed" ELSE "completed"
    BY <2>4, <2>5, <2>6 DEF Shown, RowOps, Finishing, Failing
  <2>13. /\ (NextOp(d))' = NextOp(d) /\ Last' = Last
         /\ (Finishing(d))' = Finishing(d) /\ (Failing(d))' = Failing(d)
    BY <1>1, KeepNext, KeepSaid DEF ctl, Last
  <2> QED BY <1>3, <2>9, <2>10, <2>11, <2>12, <2>13 DEF Tells
<1> QED BY <1>1, <1>5, <1>6

\* What the row may say of a place e that the course has come to, from its parts.
Said(e, r, dead) ==
  /\ r.status = "completed" => Finishing(e)
  /\ r.status = "failed" => Failing(e) \/ dead
  /\ NextOp(e).kind = "recv" => r = [status |-> "waiting", at |-> NextOp(e).node]
  /\ e.at = Last => r.status = IF e.w.raised THEN "failed" ELSE "completed"

LEMMA SaidNext ==
  ASSUME UNCHANGED ctl, NEW e, NEW dead \in BOOLEAN, Said(e, row', dead),
         dead => ~ Durable /\ \A w \in Workers : exec'[w].phase = "none"
  PROVE  (Tells(e))'
<1>1. /\ (NextOp(e))' = NextOp(e) /\ Last' = Last
      /\ (Finishing(e))' = Finishing(e) /\ (Failing(e))' = Failing(e)
  BY KeepNext, KeepSaid DEF ctl, Last
<1>2. dead => (~ Durable)' /\ \A w \in Workers : (~ Live(w))'
  BY DEF ctl, Durable, Live
<1> QED BY <1>1, <1>2 DEF Tells, Said

\* The steps of the executions that write the row.
LEMMA WriteTells ==
  ASSUME NEW m, NEW h, Here(m, h), NEW w \in Workers, Write(w)
  PROVE  (Tells(h[m]))'
<1> USE DEF Here
<1>1. PICK e, op : e = h[m] /\ op = NextOp(e)
  OBVIOUS
<1>2. UNCHANGED ctl /\ GraphInv /\ ExecOK(e) /\ op = NextOp(exec[w]) /\ op # NoOp
  <2>1. Same(exec[w], e) /\ exec[w].phase = "busy"
    BY <1>1, ActsAtEnd DEF Write
  <2>2. NextOp(exec[w]) = op
    BY <1>1, <2>1, SameNext
  <2>3. Path(m, h) /\ m \in 1..m
    BY DEF Course, Path
  <2> QED BY <1>1, <2>1, <2>2, <2>3 DEF Write, Base, BusyInv, Path
<1>3. op.kind \in RowOps /\ row' = RowAfter(op)
  BY <1>2 DEF Write
<1>4. /\ op.kind = "finish" => Finishing(e)
      /\ op.kind = "fail" => Failing(e)
      /\ e.at # Last
  BY <1>1, <1>2, OpTells
<1>5. /\ row'.status = "completed" => op.kind = "finish" \/ (op.kind = "create" /\ row' = row)
      /\ row'.status = "failed" => op.kind = "fail" \/ (op.kind = "create" /\ row' = row)
  BY <1>3 DEF RowAfter, RowOps
<1>6. op.kind # "recv"
  BY <1>3 DEF RowOps
<1>7. Live(w)
  BY DEF Write, Live
<1>8. Said(e, row', FALSE)
  BY <1>1, <1>4, <1>5, <1>6, <1>7 DEF Said, Tells
<1> QED BY <1>1, <1>2, <1>8, SaidNext

LEMMA DirectTells ==
  ASSUME NEW m, NEW h, Here(m, h), NEW w \in Workers, DirectWrite(w)
  PROVE  (Tells(h[m]))'
<1> USE DEF Here
<1>1. PICK e : e = h[m]
  OBVIOUS
<1>2. Durable /\ NextOp(e).kind = "fail" /\ Failing(e) /\ UNCHANGED ctl
  BY <1>1, DirectAtEnd DEF DirectWrite
<1>3. row' = row \/ row' = [status |-> "failed", at |-> 0]
  BY DEF DirectWrite
<1>4. Len(order) \in Nat
  BY GraphFacts DEF Base
<1>5. e.at # Last
  BY <1>2, <1>4 DEF NextOp, Last, NoOp, Op
<1>6. Said(e, row', FALSE)
  BY <1>1, <1>2, <1>3, <1>5 DEF Said, Tells
<1> QED BY <1>1, <1>2, <1>6, SaidNext

\* An interactive run has no gates, and what ends it is not recorded.
LEMMA Interactive ==
  ASSUME Base, ~ Durable, NEW e, ExecOK(e)
  PROVE  NextOp(e).kind # "recv" /\ ~ Unwritten
<1>1. journal = <<>> /\ Gates = {} /\ GraphInv
  BY GatesAre DEF Base, JournalInv
<1>2. NextOp(e) # NoOp /\ NextOp(e).kind = "recv" => NextOp(e).node \in Gates
  BY <1>1, ChildOp
<1> QED BY <1>1, <1>2 DEF Unwritten, NoOp, Op

LEMMA StreamTells ==
  ASSUME NEW m, NEW h, Here(m, h), NEW w \in Workers, Stream(w)
  PROVE  (Tells(h[m]))'
<1> USE DEF Here
<1>1. PICK e : e = h[m]
  OBVIOUS
<1>2. ~ Durable /\ Live(w) /\ exec[w].at \in 1..(Len(order) + 1) /\ UNCHANGED ctl
  BY DEF Stream
<1>3. Same(exec[w], e)
  BY <1>1, <1>2, LatestAt
<1>4. ExecOK(e) /\ Len(order) \in Nat
  <2>1. Path(m, h) /\ m \in 1..m
    BY DEF Course, Path
  <2> QED BY <1>1, <2>1, GraphFacts DEF Path, Base
<1>5. NextOp(e).kind # "recv" /\ e.at # Last
  BY <1>2, <1>3, <1>4, Interactive DEF Same, Last
<1>6. row'.status = "streaming"
  BY DEF Stream, RowIs
<1>7. Said(e, row', FALSE)
  BY <1>5, <1>6 DEF Said
<1> QED BY <1>1, <1>2, <1>7, SaidNext

\* An interactive run that is failed from outside.
LEMMA FailedTells ==
  ASSUME NEW m, NEW h, Here(m, h), UNCHANGED ctl, ~ Durable, FailIfActive,
         \A w \in Workers : exec'[w].phase = "none"
  PROVE  (Tells(h[m]))'
<1> USE DEF Here
<1>1. PICK e : e = h[m]
  OBVIOUS
<1>2. ExecOK(e) /\ m \in 1..m
  BY <1>1 DEF Course, Path
<1>3. NextOp(e).kind # "recv" /\ ~ Unwritten
  BY <1>2, Interactive
<1>4. /\ row.status = "completed" => Finishing(e)
      /\ e.at = Last => row.status \in Terminal
      /\ e.at = Last => row.status = IF e.w.raised THEN "failed" ELSE "completed"
  BY <1>1, <1>3 DEF Tells, Terminal
<1>5. IF row.status \in Active THEN row'.status = "failed" ELSE row' = row
  BY DEF FailIfActive, RowIs
<1>6. "completed" \notin Active /\ "failed" \notin Active
  BY DEF Active
<1>7. Said(e, row', TRUE)
  <2>1. CASE row.status \in Active
    BY <1>3, <1>4, <1>5, <1>6, <2>1 DEF Said, Terminal
  <2>2. CASE row.status \notin Active
    BY <1>3, <1>4, <1>5, <2>2 DEF Said
  <2> QED BY <2>1, <2>2
<1> QED BY <1>1, <1>7, SaidNext

LEMMA OnlyLeaves ==
  ASSUME NEW m, NEW h, Here(m, h), NEW w \in Workers, Live(w), Leave(w), NEW v \in Workers
  PROVE  exec'[v].phase = "none"
<1>1. DOMAIN exec = Workers
  BY DEF Here, Base, ExecInv
<1>2. exec'[w] = NoExec /\ (v # w => exec'[v] = exec[v])
  BY <1>1 DEF Leave
<1>3. v # w => ~ Live(v)
  BY DEF Here, Single
<1> QED BY <1>2, <1>3 DEF Live, NoExec

\* A step that writes no row: what it said it says.
LEMMA StillTells ==
  ASSUME NEW m, NEW h, Here(m, h), Next, row' = row
  PROVE  (Tells(h[m]))'
<1> USE DEF Here
<1>1. PICK e : e = h[m]
  OBVIOUS
<1>2. UNCHANGED ctl
  BY StepsSteady DEF Steady
<1>3. /\ (NextOp(e))' = NextOp(e) /\ Last' = Last
      /\ (Finishing(e))' = Finishing(e) /\ (Failing(e))' = Failing(e)
  BY <1>2, KeepNext, KeepSaid DEF ctl, Last
<1>4. Unwritten => Unwritten'
  BY UnwrittenStays
<1>5. ASSUME row.status = "failed", ~ Failing(e)
      PROVE  (~ Durable)' /\ \A w \in Workers : (~ Live(w))'
  <2>1. ~ Durable /\ \A w \in Workers : ~ Live(w)
    BY <1>1, <1>5 DEF Tells
  <2>2. starts # 0
    BY <1>5, <2>1 DEF Rested
  <2>3. \A w \in Workers : exec'[w].phase = "none"
    BY <2>1, <2>2, NobodyStarts
  <2> QED BY <1>2, <2>1, <2>3 DEF Live, Durable, ctl
<1>6. Tells(e)
  BY <1>1
<1>7. row'.status = row.status
  OBVIOUS
<1> QED BY <1>1, <1>3, <1>4, <1>5, <1>6, <1>7 DEF Tells

\* The course stays: what the row says of its end stays true.
LEMMA TellsSame ==
  ASSUME NEW m, NEW h, Here(m, h), Next, ~ lapped'
  PROVE  (Tells(h[m]))'
<1>1. UNCHANGED ctl
  BY StepsSteady DEF Steady, Here
<1>2. CASE row' = row
  BY <1>2, StillTells
<1>3. ASSUME NEW w \in Workers, Writes(w) PROVE (Tells(h[m]))'
  <2>1. CASE Cancel(w)
    <3>1. ~ Durable /\ Live(w) /\ Leave(w) /\ FailIfActive
      BY <2>1 DEF Cancel
    <3> QED BY <1>1, <3>1, OnlyLeaves, FailedTells
  <2> QED BY <1>3, <2>1, WriteTells, DirectTells, StreamTells DEF Writes
<1>4. CASE Sweep
  <2>1. ~ Durable /\ FailIfActive /\ exec' = exec /\ \A v \in Workers : ~ Live(v)
    BY <1>4 DEF Sweep
  <2>2. \A v \in Workers : exec'[v].phase = "none"
    BY <2>1 DEF Live
  <2> QED BY <1>1, <2>1, <2>2, FailedTells
<1> QED BY <1>2, <1>3, <1>4, RowChanges DEF Here

-----------------------------------------------------------------------------
(* Who acts, as long as no two processes have acted on the run. *)

LEMMA TakeRests ==
  ASSUME ExecInv, NEW w \in Workers, NEW op, NEW o, Take(w, op, o) \/ Commit(w, op, o)
  PROVE  Rest(w)
<1>1. CASE Take(w, op, o)
  <2>1. Leave(w) \/ \E d : Install(w, d)
    BY <1>1 DEF Take
  <2>2. ASSUME NEW d, Install(w, d) PROVE Rest(w)
    BY <2>2, InstallIs DEF ExecInv, Changed, Rest
  <2>3. Leave(w) => Rest(w)
    BY DEF Leave, Rest, ExecInv
  <2> QED BY <2>1, <2>2, <2>3
<1>2. CASE Commit(w, op, o) /\ ~ Take(w, op, o)
  BY <1>2 DEF Commit, Leave, Rest, ExecInv
<1> QED BY <1>1, <1>2

LEMMA ActorRests ==
  ASSUME Base, NEW w \in Workers,
         Work(w) \/ Crash(w) \/ Stream(w) \/ Cancel(w) \/ RequestFails(w)
  PROVE  Live(w) /\ Rest(w)
<1>1. DOMAIN exec = Workers /\ ExecInv
  BY DEF Base, ExecInv
<1>2. CASE Inline(w)
  BY <1>2, InlineKind DEF Base, Walks
<1>3. CASE Replay(w)
  BY <1>3, ReplayKind DEF Base, Halts, Goes
<1>4. CASE Finish(w) \/ StepFails(w) \/ Receive(w)
  <2>1. \E op, o : Commit(w, op, o)
    BY <1>4 DEF Finish, StepFails, Receive
  <2>2. Live(w)
    BY <1>4 DEF Live, Finish, StepFails, Receive
  <2> QED BY <1>1, <2>1, <2>2, TakeRests
<1>5. CASE Begin(w) \/ Write(w)
  BY <1>1, <1>5 DEF Begin, Write, Live, Rest
<1>6. CASE FanOut(w)
  <2>1. exec' = [exec EXCEPT ![w].begun = @ + 1] /\ exec[w].phase = "idle"
    BY <1>6 DEF FanOut
  <2> QED BY <1>1, <2>1 DEF Live, Rest
<1>7. CASE Join(w)
  <2>1. \E i : exec' = [exec EXCEPT ![w].joined = @ \cup {i}]
    BY <1>7 DEF Join
  <2>2. exec[w].phase = "idle"
    BY <1>7 DEF Join
  <2> QED BY <1>1, <2>1, <2>2 DEF Live, Rest
<1>8. CASE DirectWrite(w) \/ End(w) \/ Crash(w) \/ Cancel(w) \/ RequestFails(w)
  <2>1. Leave(w) /\ Live(w)
    BY <1>8 DEF DirectWrite, End, Crash, Cancel, RequestFails, Live
  <2> QED BY <1>1, <2>1 DEF Leave, Rest
<1>9. CASE Stream(w)
  BY <1>1, <1>9 DEF Stream, Rest
<1> QED BY <1>2, <1>3, <1>4, <1>5, <1>6, <1>7, <1>8, <1>9 DEF Work

\* The steps after which the execution at w is still there.
Onwards(w) == \/ Inline(w) \/ Replay(w) \/ Begin(w) \/ Write(w) \/ Finish(w) \/ StepFails(w)
              \/ Receive(w) \/ FanOut(w) \/ Join(w) \/ Stream(w)

\* An execution that is there was started, acted, or nobody acted.
LEMMA Actor ==
  ASSUME Base, Single, Next, ~ lapped', NEW w \in Workers, exec'[w].phase # "none"
  PROVE  \/ Start(w) /\ \A v \in Workers : ~ Live(v)
         \/ Live(w) /\ Onwards(w)
         \/ Live(w) /\ exec'[w] = exec[w] /\ UNCHANGED <<journal, row>>
<1>1. DOMAIN exec = Workers /\ lapped \in BOOLEAN
  BY DEF Base, ExecInv, RowInv
<1>2. ASSUME NEW v \in Workers, Start(v)
      PROVE  Start(w) /\ \A u \in Workers : ~ Live(u)
  <2>1. \A u \in Workers : ~ Live(u)
    BY <1>1, <1>2 DEF Start
  <2>2. v # w => exec'[w] = exec[w]
    BY <1>1, <1>2 DEF Start
  <2> QED BY <1>2, <2>1, <2>2 DEF Live
<1>3. ASSUME NEW v \in Workers,
             Work(v) \/ Crash(v) \/ Stream(v) \/ Cancel(v) \/ RequestFails(v)
      PROVE  Live(w) /\ Onwards(w)
  <2>1. Live(v) /\ Rest(v)
    BY <1>3, ActorRests
  <2>2. v = w
    <3>1. v # w => exec'[w] = exec[w]
      BY <2>1 DEF Rest
    <3> QED BY <2>1, <3>1 DEF Single, Live
  <2>3. ~ Leave(w)
    BY <1>1 DEF Leave, NoExec
  <2> QED BY <1>3, <2>1, <2>2, <2>3
          DEF Work, Onwards, DirectWrite, End, Crash, Cancel, RequestFails
<1>4. ASSUME NEW c, ChildEnds(c) \/ ReadGate(c) \/ Answer(c)
      PROVE  Live(w) /\ exec'[w] = exec[w] /\ UNCHANGED <<journal, row>>
  BY <1>4 DEF ChildEnds, ReadGate, Answer, Live
<1>5. ~ Sweep
  <2>1. Sweep => exec' = exec /\ lapped' = (lapped \/ \E v \in Workers : Live(v))
    BY DEF Sweep
  <2> QED BY <1>1, <2>1 DEF Live
<1> QED BY <1>2, <1>3, <1>4, <1>5 DEF Next

-----------------------------------------------------------------------------
(* Each part of the invariant after a step. *)

LEMMA RowIsNext ==
  ASSUME Base, RowIs, Next
  PROVE  RowIs'
<1> DEFINE S == {"none", "created", "streaming", "waiting"} \cup Terminal
<1>1. row \in [status : S, at : Gates \cup {0}]
  BY DEF RowIs
<1>2. Gates' = Gates
  BY StepsSteady DEF Steady, ctl, Gates, Nodes
<1>3. "failed" \in S /\ "completed" \in S
  BY DEF Terminal
<1>4. FailIfActive => row' \in [status : S, at : Gates \cup {0}]
  BY <1>1, <1>3 DEF FailIfActive
<1>5. ASSUME NEW w \in Workers, Write(w) PROVE row' \in [status : S, at : Gates \cup {0}]
  <2>1. PICK op : op = NextOp(exec[w])
    OBVIOUS
  <2>2. ExecOK(exec[w]) /\ op # NoOp
    BY <1>5, <2>1 DEF Write, Base, ExecInv, BusyInv, Live
  <2>3. op.kind = "wait" => op.node \in Gates
    BY <2>1, <2>2, ChildOp DEF Base
  <2>4. row' = RowAfter(op)
    BY <1>5, <2>1 DEF Write
  <2>5. \/ row' = row
        \/ op.kind = "wait" /\ row' = [status |-> "waiting", at |-> op.node]
        \/ \E s \in {"created", "streaming", "completed", "failed"} :
             row' = [status |-> s, at |-> 0]
    BY <2>4 DEF RowAfter
  <2> QED BY <1>1, <1>3, <2>3, <2>5
<1>6. ASSUME NEW w \in Workers, DirectWrite(w) \/ Stream(w)
      PROVE  row' \in [status : S, at : Gates \cup {0}]
  BY <1>1, <1>3, <1>6 DEF DirectWrite, Stream
<1>7. row' \in [status : S, at : Gates \cup {0}]
  BY <1>1, <1>4, <1>5, <1>6, RowChanges DEF Writes, Sweep, Cancel
<1> QED BY <1>2, <1>7 DEF RowIs

\* A result is consumed by an execution that is then at rest, or fails directly.
LEMMA CommitRests ==
  ASSUME Base, NEW w \in Workers, Live(w), NEW op, op = NextOp(exec[w]), op # NoOp, NEW o,
         Take(w, op, o) \/ Commit(w, op, o)
  PROVE  exec'[w].phase \notin {"busy", "written"}
<1>1. DOMAIN exec = Workers /\ ExecOK(exec[w]) /\ GraphInv
  BY DEF Base, ExecInv
<1>2. Leave(w) => exec'[w].phase = "none"
  BY <1>1 DEF Leave, NoExec
<1>3. ASSUME NEW d, Install(w, d) PROVE exec'[w] = d
  BY <1>1, <1>3, InstallIs DEF Changed
<1>4. PICK d : d = Consume(exec[w], op, o)
  OBVIOUS
<1>5. d.phase = "idle"
  BY <1>1, <1>4, ConsumeIs
<1>6. PICK x : x = [exec[w] EXCEPT !.phase = "direct"]
  OBVIOUS
<1>7. x.phase = "direct"
  BY <1>1, <1>6 DEF ExecOK, Fields
<1>8. Leave(w) \/ Install(w, x) \/ Install(w, d)
  BY <1>4, <1>6 DEF Commit, Take
<1> QED BY <1>2, <1>3, <1>5, <1>7, <1>8

\* Where an operation that is under way comes from.
LEMMA UnderWayFrom ==
  ASSUME Base, Single, Next, ~ lapped', NEW w \in Workers, exec'[w].phase \in {"busy", "written"}
  PROVE  \/ Begin(w) \/ Write(w) \/ Stream(w)
         \/ Live(w) /\ exec'[w] = exec[w] /\ UNCHANGED <<journal, row>>
<1>1. DOMAIN exec = Workers /\ GraphInv
  BY DEF Base, ExecInv
<1>2. ~ Start(w)
  BY <1>1 DEF Start, Fresh
<1>3. ~ Inline(w)
  BY InlineKind DEF Base, Walks
<1>4. ~ Replay(w)
  <2>1. SUFFICES ASSUME Replay(w) PROVE FALSE
    OBVIOUS
  <2>2. PICK op : op = NextOp(exec[w])
    OBVIOUS
  <2>3. Live(w) /\ op # NoOp /\ \E o : Take(w, op, o)
    BY <2>1, <2>2 DEF Replay, Live
  <2> QED BY <2>2, <2>3, CommitRests
<1>5. ~ (Finish(w) \/ StepFails(w) \/ Receive(w))
  <2>1. SUFFICES ASSUME Finish(w) \/ StepFails(w) \/ Receive(w) PROVE FALSE
    OBVIOUS
  <2>2. PICK op : op = NextOp(exec[w])
    OBVIOUS
  <2>3. exec[w].phase \in {"busy", "written"} /\ \E o : Commit(w, op, o)
    BY <2>1, <2>2 DEF Finish, StepFails, Receive
  <2>4. Live(w) /\ op # NoOp
    BY <2>2, <2>3 DEF Live, Base, BusyInv
  <2> QED BY <2>2, <2>3, <2>4, CommitRests
<1>6. ~ FanOut(w)
  <2>1. SUFFICES ASSUME FanOut(w) PROVE FALSE
    OBVIOUS
  <2>2. exec' = [exec EXCEPT ![w].begun = @ + 1] /\ exec[w].phase = "idle"
    BY <2>1 DEF FanOut
  <2>3. DOMAIN exec[w] = Fields
    BY <2>2 DEF Base, ExecInv, ExecOK, Live
  <2> QED BY <1>1, <2>2, <2>3 DEF Fields
<1>7. ~ Join(w)
  <2>1. SUFFICES ASSUME Join(w) PROVE FALSE
    OBVIOUS
  <2>2. PICK i : exec' = [exec EXCEPT ![w].joined = @ \cup {i}]
    BY <2>1 DEF Join
  <2>3. exec[w].phase = "idle"
    BY <2>1 DEF Join
  <2>4. DOMAIN exec[w] = Fields
    BY <2>3 DEF Base, ExecInv, ExecOK, Live
  <2> QED BY <1>1, <2>2, <2>3, <2>4 DEF Fields
<1> QED BY <1>2, <1>3, <1>4, <1>5, <1>6, <1>7, Actor DEF Onwards

LEMMA SingleNext ==
  ASSUME Base, Single, Next, ~ lapped'
  PROVE  Single'
<1>1. UNCHANGED ctl /\ DOMAIN exec = Workers /\ GraphInv
  BY StepsSteady DEF Steady, Base, ExecInv
<1>2. ASSUME NEW v \in Workers, NEW w \in Workers, exec'[v].phase # "none", exec'[w].phase # "none"
      PROVE  v = w
  <2>1. (Start(v) /\ ~ Live(w)) \/ Live(v)
    BY <1>2, Actor
  <2>2. (Start(w) /\ ~ Live(v)) \/ Live(w)
    BY <1>2, Actor
  <2>3. CASE Live(v) /\ Live(w)
    BY <2>3 DEF Single
  <2>4. CASE Start(v) /\ Start(w)
    <3>1. exec' = [exec EXCEPT ![v] = Fresh] /\ exec[w].phase = "none"
      BY <2>4 DEF Start, Live
    <3> QED BY <1>1, <1>2, <3>1
  <2> QED BY <2>1, <2>2, <2>3, <2>4
<1>3. ASSUME NEW w \in Workers, exec'[w].phase \in {"busy", "written"}
      PROVE  /\ Durable => exec'[w].pos = Len(journal')
             /\ exec'[w].phase = "written" => (Shown(NextOp(exec[w])))'
  <2>1. /\ Durable => exec[w].pos = Len(journal)
        /\ exec[w].phase = "written" => Shown(NextOp(exec[w]))
        => /\ exec'[w] = exec[w] /\ UNCHANGED <<journal, row>>
             => /\ Durable => exec'[w].pos = Len(journal')
                /\ exec'[w].phase = "written" => (Shown(NextOp(exec[w])))'
    <3>1. exec'[w] = exec[w] => (NextOp(exec[w]))' = NextOp(exec[w])
      BY <1>1, CarryOp
    <3> QED BY <3>1 DEF Shown
  <2>2. CASE Begin(w)
    <3>1. /\ exec[w].phase = "idle" /\ ~ Recorded(exec[w]) /\ journal' = journal
          /\ exec' = [exec EXCEPT ![w].phase = "busy"]
      BY <2>2 DEF Begin
    <3>2. Live(w)
      BY <3>1 DEF Live
    <3>3. ExecOK(exec[w]) /\ (Durable => exec[w].pos <= Len(journal)) /\ Len(journal) \in Nat
      BY <3>2 DEF Base, ExecInv, JournalInv
    <3>4. exec'[w].pos = exec[w].pos /\ exec'[w].phase = "busy"
      BY <1>1, <3>1, <3>3 DEF ExecOK, Fields
    <3>5. exec[w].pos \in Nat
      BY <3>3 DEF ExecOK
    <3> QED BY <3>1, <3>3, <3>4, <3>5 DEF Recorded
  <2>3. CASE Write(w)
    <3>1. /\ exec[w].phase = "busy" /\ row' = RowAfter(NextOp(exec[w])) /\ journal' = journal
          /\ exec' = [exec EXCEPT ![w].phase = "written"]
      BY <2>3 DEF Write
    <3>2. ExecOK(exec[w])
      BY <3>1 DEF Base, ExecInv, Live
    <3>3. PICK d : d = exec'[w]
      OBVIOUS
    <3>4. /\ d.pos = exec[w].pos /\ d.at = exec[w].at /\ d.k = exec[w].k /\ d.out = exec[w].out
          /\ d.w = exec[w].w
      BY <1>1, <3>1, <3>2, <3>3 DEF ExecOK, Fields
    <3>5. PICK op : op = NextOp(exec[w])
      OBVIOUS
    <3>6. (NextOp(exec[w]))' = op
      BY <1>1, <3>3, <3>4, <3>5, SameOp, CarryOp
    <3>7. /\ op.kind = "wait" => row' = [status |-> "waiting", at |-> op.node]
          /\ op.kind = "finish" => row'.status = "completed"
          /\ op.kind = "fail" => row'.status = "failed"
      BY <3>1, <3>5 DEF RowAfter
    <3>8. (Shown(NextOp(exec[w])))'
      BY <3>6, <3>7 DEF Shown
    <3>9. Durable => exec'[w].pos = Len(journal')
      BY <3>1, <3>3, <3>4 DEF Single
    <3> QED BY <3>8, <3>9
  <2>4. CASE Stream(w)
    <3>1. ~ Durable /\ exec[w].phase # "written" /\ exec' = [exec EXCEPT ![w].streams = TRUE]
      BY <2>4 DEF Stream
    <3>2. Live(w)
      BY <2>4 DEF Stream
    <3>3. exec'[w].phase = exec[w].phase
      BY <1>1, <3>1, <3>2 DEF Base, ExecInv, ExecOK, Fields
    <3> QED BY <3>1, <3>3
  <2>5. CASE Live(w) /\ exec'[w] = exec[w] /\ UNCHANGED <<journal, row>>
    <3>1. /\ Durable => exec[w].pos = Len(journal)
          /\ exec[w].phase = "written" => Shown(NextOp(exec[w]))
      BY <1>3, <2>5 DEF Single
    <3> QED BY <2>1, <2>5, <3>1
  <2> QED BY <1>3, <2>2, <2>3, <2>4, <2>5, UnderWayFrom
<1>4. Durable' <=> Durable
  BY <1>1 DEF Durable, ctl
<1>5. \A w \in Workers : (Live(w))' <=> exec'[w].phase # "none"
  BY DEF Live
<1> QED BY <1>2, <1>3, <1>4, <1>5 DEF Single

\* How a run comes to its end: the execution is gone, and the row has the outcome,
\* its last write failed, or a request got an error.
LEMMA EndsHow ==
  ASSUME NEW m, NEW h, Here(m, h), Next, outcome' # outcome
  PROVE  \E w \in Workers : /\ Live(w) /\ Leave(w)
                            /\ Unwritten' \/ row'.status = outcome' \/ outcome' = "error"
<1> USE DEF Here
<1>1. GraphInv /\ DOMAIN exec = Workers /\ (Unwritten => Unwritten')
  BY UnwrittenStays DEF Base, ExecInv
<1>2. ASSUME NEW w \in Workers, NEW op, NEW o, Take(w, op, o)
      PROVE  Leave(w) /\ Ending(op, o)
  BY <1>2 DEF Take, Ending
<1>3. ASSUME NEW w \in Workers, Replay(w)
      PROVE  Live(w) /\ Leave(w) /\ Unwritten'
  <2>1. PICK op, j : op = NextOp(exec[w]) /\ j = exec[w].pos + 1
    OBVIOUS
  <2>2. Recorded(exec[w]) /\ journal[j].op = op /\ Take(w, op, journal[j].out) /\ Live(w)
    BY <1>3, <2>1 DEF Replay, Live
  <2>3. Leave(w) /\ Ending(op, journal[j].out)
    BY <1>2, <2>2
  <2>4. exec[w].pos \in Nat /\ Len(journal) \in Nat /\ DOMAIN journal = 1..Len(journal)
    BY <2>2 DEF Base, ExecInv, ExecOK, JournalInv
  <2>5. j \in DOMAIN journal
    BY <2>1, <2>2, <2>4 DEF Recorded
  <2>6. Unwritten
    BY <2>2, <2>3, <2>5 DEF Unwritten, Ending
  <2> QED BY <1>1, <2>2, <2>3, <2>6
<1>4. ASSUME NEW w \in Workers, NEW op, NEW o, Commit(w, op, o)
      PROVE  Leave(w) /\ Ending(op, o) /\ (Durable => Unwritten')
  <2>1. Take(w, op, o)
    BY <1>4 DEF Commit
  <2>2. Leave(w) /\ Ending(op, o)
    BY <1>2, <2>1
  <2>3. CASE Durable
    <3>1. PICK x : x = [op |-> op, out |-> o]
      OBVIOUS
    <3>2. journal' = Append(journal, x) /\ journal \in Seq(Entry)
      BY <1>4, <2>3, <3>1 DEF Commit, Base, JournalInv
    <3>3. PICK i : i = Len(journal) + 1
      OBVIOUS
    <3>4. i \in DOMAIN journal' /\ journal'[i] = x
      BY <3>2, <3>3
    <3>5. x.op = op /\ x.out = o
      BY <3>1
    <3>6. \E k \in DOMAIN journal' :
            /\ journal'[k].out.tag = "raise"
            /\ journal'[k].op.kind \in {"resolve", "create", "finish", "fail"}
      BY <2>2, <3>4, <3>5 DEF Ending
    <3> QED BY <2>2, <3>6 DEF Unwritten
  <2> QED BY <2>2, <2>3
<1>5. ASSUME NEW w \in Workers, Finish(w) \/ Receive(w) PROVE FALSE
  <2>1. PICK op : op = NextOp(exec[w])
    OBVIOUS
  <2>2. (\E o \in Results(op) : Commit(w, op, o)) \/ (op.kind = "recv" /\ \E o : Commit(w, op, o))
    BY <1>5, <2>1 DEF Finish, Receive
  <2> QED BY <1>4, <2>2, ResultsEndNothing DEF Ending
<1>6. ASSUME NEW w \in Workers, StepFails(w)
      PROVE  Live(w) /\ Leave(w) /\ Unwritten'
  BY <1>4, <1>6 DEF StepFails, Live
<1>7. ASSUME NEW w \in Workers, DirectWrite(w)
      PROVE  Live(w) /\ Leave(w) /\ Unwritten'
  <2>1. PICK e : e = h[m]
    OBVIOUS
  <2>2. Halted(e)
    BY <1>7, <2>1, DirectAtEnd DEF DirectWrite
  <2>3. journal # <<>> /\ journal \in Seq(Entry) /\ Ending(NextOp(e), journal[Len(journal)].out)
        /\ journal[Len(journal)].op = NextOp(e)
    <3>1. ExecOK(e)
      BY <2>1 DEF Course, Path
    <3>2. Len(journal) # 0
      BY <2>2, <3>1 DEF Halted, ExecOK
    <3> QED BY <2>2, <3>2 DEF Halted, Base, JournalInv
  <2>4. Len(journal) \in DOMAIN journal
    BY <2>3
  <2>5. Unwritten
    BY <2>3, <2>4 DEF Unwritten, Ending
  <2> QED BY <1>1, <1>7, <2>5 DEF DirectWrite, Live
<1>8. ASSUME NEW w \in Workers, End(w)
      PROVE  Live(w) /\ Leave(w) /\ (Unwritten' \/ row'.status = outcome')
  <2>1. PICK e : e = h[m]
    OBVIOUS
  <2>2. exec[w].at = Last /\ Live(w) /\ Leave(w) /\ row' = row
    BY <1>8 DEF End, Last, Live
  <2>3. Same(exec[w], e)
    BY <2>1, <2>2, LatestAt
  <2>4. outcome' = IF e.w.raised THEN "failed" ELSE "completed"
    BY <1>8, <2>3 DEF End, Ends, Same
  <2>5. ~ Unwritten => row.status = IF e.w.raised THEN "failed" ELSE "completed"
    BY <2>1, <2>2, <2>3 DEF Tells, Same
  <2> QED BY <1>1, <2>2, <2>4, <2>5
<1>9. ASSUME NEW w \in Workers, Cancel(w)
      PROVE  Live(w) /\ Leave(w) /\ row'.status = outcome'
  BY <1>9 DEF Cancel, Ends
<1>10. ASSUME NEW w \in Workers,
              \/ Start(w) \/ Inline(w) \/ Begin(w) \/ Write(w) \/ FanOut(w) \/ Join(w) \/ Crash(w)
              \/ Stream(w)
       PROVE  FALSE
  BY <1>10 DEF Start, Inline, Begin, Write, FanOut, Join, Crash, Stream
<1>11. ASSUME NEW c, ChildEnds(c) \/ ReadGate(c) \/ Answer(c) PROVE FALSE
  BY <1>11 DEF ChildEnds, ReadGate, Answer
<1>12. ~ Sweep
  BY DEF Sweep
<1>13. ASSUME NEW w \in Workers, RequestFails(w)
       PROVE  Live(w) /\ Leave(w) /\ outcome' = "error"
  BY <1>13 DEF RequestFails, Ends
<1> QED BY <1>3, <1>5, <1>6, <1>7, <1>8, <1>9, <1>10, <1>11, <1>12, <1>13 DEF Next, Work

LEMMA ClosedNext ==
  ASSUME NEW m, NEW h, Here(m, h), Next, ~ lapped'
  PROVE  Closed'
<1> USE DEF Here
<1>1. \A w \in Workers : (Live(w))' <=> exec'[w].phase # "none"
  BY DEF Live
<1>2. CASE outcome' = outcome
  <2>1. SUFFICES ASSUME outcome # "none"
                 PROVE  /\ \A w \in Workers : exec'[w].phase = "none"
                        /\ outcome # "error" /\ ~ Unwritten' => row'.status = outcome
    BY <1>1, <1>2 DEF Closed
  <2>2. /\ \A w \in Workers : ~ Live(w)
        /\ outcome # "error" /\ ~ Unwritten => row.status = outcome
    BY <2>1 DEF Closed
  <2>3. \A w \in Workers : exec'[w].phase = "none"
    BY <2>1, <2>2, Actor DEF Start
  <2>4. \A w \in Workers : ~ Writes(w)
    BY <2>2, ActorRests DEF Writes, Work
  <2>5. outcome # "error" /\ ~ Unwritten => ~ Sweep
    <3>1. outcome \in {"error"} \cup Terminal
      BY <2>1 DEF Base, RowInv
    <3>2. outcome \notin Active
      BY <3>1 DEF Terminal, Active
    <3> QED BY <2>2, <3>2 DEF Sweep
  <2> QED BY <2>2, <2>3, <2>4, <2>5, UnwrittenStays, RowChanges
<1>3. CASE outcome' # outcome
  <2>1. PICK w \in Workers : /\ Live(w) /\ Leave(w)
                             /\ Unwritten' \/ row'.status = outcome' \/ outcome' = "error"
    BY <1>3, EndsHow
  <2>2. \A v \in Workers : exec'[v].phase = "none"
    BY <2>1, OnlyLeaves
  <2> QED BY <1>1, <2>1, <2>2 DEF Closed
<1> QED BY <1>2, <1>3

\* An interactive execution whose row has an outcome has written it.
LEMMA LastWrite ==
  ASSUME NEW m, NEW h, Here(m, h), ~ Durable, NEW w \in Workers, Live(w), row.status \in Terminal,
         NEW op, op = NextOp(exec[w]), op # NoOp
  PROVE  op.kind \in {"finish", "fail"}
<1> USE DEF Here
<1>1. PICK e, g : e = h[m] /\ g = exec[w]
  OBVIOUS
<1>2. Same(g, e) /\ GraphInv /\ ExecOK(g) /\ op = NextOp(g)
  BY <1>1, LatestAt DEF Base, ExecInv
<1>3. op = NextOp(e)
  BY <1>2, SameNext
<1>4. g.at # Last /\ (Finishing(g) => op.kind = "finish")
  BY <1>2, OpTells
<1>5. Finishing(e) \/ Failing(e)
  BY <1>1 DEF Tells, Terminal
<1> QED BY <1>2, <1>3, <1>4, <1>5 DEF Same, Finishing, Failing

LEMMA RestedNext ==
  ASSUME NEW m, NEW h, Here(m, h), Next, ~ lapped'
  PROVE  Rested'
<1> USE DEF Here
<1>1. UNCHANGED ctl /\ DOMAIN exec = Workers /\ GraphInv /\ Last' = Last
  BY StepsSteady DEF Steady, Base, ExecInv, ctl, Last
<1>2. SUFFICES ASSUME ~ Durable
               PROVE  /\ starts' = 0 => row'.status = "none"
                      /\ \A w \in Workers : row'.status \in Terminal /\ exec'[w].phase # "none" =>
                           exec'[w].phase = "written" \/ exec'[w].at = Last
  BY <1>1 DEF Rested, Durable, ctl, Live
<1>3. starts' = 0 => row'.status = "none"
  <2>1. SUFFICES ASSUME starts' = 0 PROVE row'.status = "none"
    OBVIOUS
  <2>2. starts = 0
    <3>1. \A w \in Workers : Start(w) => starts' = starts + 1
      BY DEF Start
    <3>2. starts \in Nat
      BY BoundAssumption DEF Base, RowInv
    <3> QED BY <2>1, <3>1, <3>2, StartsCount
  <2>3. row.status = "none" /\ \A w \in Workers : ~ Live(w)
    BY <1>2, <2>2 DEF Rested, Course, Solo
  <2>4. \A w \in Workers : ~ Writes(w)
    BY <2>3, ActorRests DEF Writes, Work
  <2>5. ~ Sweep
    BY <2>3 DEF Sweep, Active
  <2> QED BY <2>3, <2>4, <2>5, RowChanges
<1>4. ASSUME NEW w \in Workers, row'.status \in Terminal, exec'[w].phase # "none"
      PROVE  exec'[w].phase = "written" \/ exec'[w].at = Last
  <2>1. CASE Start(w)
    <3>1. starts = 0 /\ row' = row
      BY <1>2, <2>1 DEF Start
    <3> QED BY <1>2, <1>4, <3>1 DEF Rested, Terminal
  <2>2. CASE Live(w) /\ exec'[w] = exec[w] /\ UNCHANGED <<journal, row>>
    BY <1>2, <1>4, <2>2 DEF Rested
  <2>3. CASE Live(w) /\ Write(w)
    BY <1>1, <2>3 DEF Write, Base, ExecInv, ExecOK, Fields
  <2>4. CASE Live(w) /\ Stream(w)
    BY <1>4, <2>4 DEF Stream, RowIs, Terminal
  <2>5. CASE /\ Live(w)
             /\ \/ Inline(w) \/ Replay(w) \/ Begin(w) \/ Finish(w) \/ StepFails(w) \/ Receive(w)
                \/ FanOut(w) \/ Join(w)
    <3>1. row' = row
      BY <2>5 DEF Inline, Replay, Begin, Finish, StepFails, Receive, FanOut, Join
    <3>2. row.status \in Terminal /\ (exec[w].phase = "written" \/ exec[w].at = Last)
      BY <1>2, <1>4, <2>5, <3>1 DEF Rested
    <3>3. PICK op : op = NextOp(exec[w])
      OBVIOUS
    <3>4. ExecOK(exec[w]) /\ Len(order) \in Nat
      BY <1>1, <2>5, GraphFacts DEF Base, ExecInv
    <3>5. exec[w].at = Last => op = NoOp
      BY <3>3, <3>4 DEF Last, NextOp
    <3>6. op = NoOp => exec[w].phase = "idle"
      BY <2>5, <3>3, <3>4 DEF Base, BusyInv, ExecOK, Phases
    <3>7. exec[w].phase = "written"
      <4>1. SUFFICES ASSUME exec[w].at = Last PROVE FALSE
        BY <3>2
      <4>2. exec[w].phase = "idle" /\ op = NoOp /\ exec[w].at \notin 1..Len(order)
        BY <3>4, <3>5, <3>6, <4>1 DEF Last
      <4> QED BY <2>5, <3>3, <4>2
              DEF Inline, Replay, Begin, Finish, StepFails, Receive, FanOut, Join
    <3>8. Finish(w)
      BY <1>2, <2>5, <3>7 DEF Inline, Replay, Begin, StepFails, Receive, FanOut, Join
    <3>9. op # NoOp /\ op.kind \in {"finish", "fail"}
      <4>1. op # NoOp
        BY <3>6, <3>7
      <4> QED BY <1>2, <2>5, <3>2, <3>3, <4>1, LastWrite
    <3>10. PICK o \in Results(op) : Commit(w, op, o)
      BY <3>3, <3>8 DEF Finish
    <3>11. Take(w, op, o) /\ ~ Ending(op, o)
      BY <1>2, <3>10, ResultsEndNothing DEF Commit
    <3>12. PICK d : d = Consume(exec[w], op, o)
      OBVIOUS
    <3>13. Install(w, d)
      BY <3>9, <3>11, <3>12 DEF Take, Ending
    <3>14. exec'[w] = d
      BY <1>1, <3>13, InstallIs DEF Changed
    <3>15. ByResult(exec[w], o, d) /\ ExecOK(d)
      BY <1>1, <3>3, <3>4, <3>9, <3>12, SameSelf, ConsumeIs DEF ByResult
    <3>16. d.at = Last
      BY <1>1, <3>3, <3>4, <3>9, <3>15, ResultTells
    <3> QED BY <3>14, <3>16
  <2> QED BY <1>4, <2>1, <2>2, <2>3, <2>4, <2>5, Actor DEF Onwards
<1> QED BY <1>3, <1>4

-----------------------------------------------------------------------------
(* The theorems. *)

LEMMA RowCourseNext ==
  ASSUME Base, RowCourse, Alone, Next
  PROVE  RowCourse'
<1>1. \E m, h : Course(m, h) /\ (~ lapped => Tells(h[m]))
  BY DEF RowCourse
<1>2. PICK m, h : Course(m, h) /\ (~ lapped => Tells(h[m]))
  BY <1>1
<1>3. ~ lapped' => Here(m, h)
  BY <1>2, LapsStay DEF Here, Alone, Base
<1>4. CASE (Course(m, h))'
  <2>1. (Course(m, h))' /\ (~ lapped' => (Tells(h[m]))')
    BY <1>3, <1>4, TellsSame
  <2> QED BY <2>1 DEF RowCourse
<1>5. ASSUME NEW w \in Workers, Lengthens(w, m, h) PROVE RowCourse'
  <2>1. PICK d : d = exec'[w]
    OBVIOUS
  <2>2. \E f : f = Further(m, h, d) /\ (Course(m + 1, f))'
    BY <1>5, <2>1 DEF Lengthens
  <2>3. PICK f : f = Further(m, h, d) /\ (Course(m + 1, f))'
    BY <2>2
  <2>4. m \in Nat
    BY <1>2 DEF Course, Path
  <2>5. f[m + 1] = d
    BY <2>3, <2>4 DEF Further
  <2>6. ExecOK(d)
    <3>1. exec'[w].phase # "none"
      BY <1>5 DEF Lengthens, Walks, Goes
    <3> QED BY <2>1, <3>1, Moves, StepOK DEF Base
  <2>7. ~ lapped' => (Tells(d))'
    BY <1>3, <1>5, <2>1, <2>6, TellsOn
  <2>8. PICK n : n = m + 1
    OBVIOUS
  <2>9. (Course(n, f))' /\ (~ lapped' => (Tells(f[n]))')
    BY <2>3, <2>5, <2>7, <2>8
  <2> QED BY <2>9 DEF RowCourse
<1> QED BY <1>2, <1>4, <1>5, CourseMoves

LEMMA AloneNext ==
  ASSUME Base, RowCourse, Alone, Next
  PROVE  Alone'
<1>1. \E m, h : Course(m, h) /\ (~ lapped => Tells(h[m]))
  BY DEF RowCourse
<1>2. PICK m, h : Course(m, h) /\ (~ lapped => Tells(h[m]))
  BY <1>1
<1>3. ~ lapped' => Here(m, h)
  BY <1>2, LapsStay DEF Here, Alone, Base
<1>4. RowIs'
  BY RowIsNext DEF Alone
<1>5. ~ lapped' => Single' /\ Closed' /\ Rested'
  BY <1>3, SingleNext, ClosedNext, RestedNext DEF Here
<1> QED BY <1>4, <1>5 DEF Alone

LEMMA RowInit ==
  ASSUME Init
  PROVE  RowCourse /\ Alone
<1>1. Base
  BY BaseInit
<1>2. PICK h : Course(1, h)
  BY CourseFirst
<1>3. /\ row = [status |-> "none", at |-> 0] /\ outcome = "none" /\ journal = <<>>
      /\ \A w \in Workers : ~ Live(w) /\ exec[w].phase = "none"
  BY DEF Init, Live, NoExec
<1>4. PICK e : e = h[1]
  OBVIOUS
<1>5. ExecOK(e) /\ e.at = 0 /\ e.k = 0 /\ GraphInv /\ ~ e.w.raised
  <2>1. Path(1, h)
    BY <1>2 DEF Course
  <2>2. ExecOK(e) /\ Same(e, Fresh)
    BY <1>4, <2>1 DEF Path
  <2>3. Fresh.at = 0 /\ Fresh.k = 0 /\ Fresh.w = NewWalk
    BY DEF Fresh
  <2>4. ~ NewWalk.raised
    BY DEF NewWalk
  <2> QED BY <1>1, <2>2, <2>3, <2>4 DEF Same, Base
<1>6. NextOp(e).kind # "recv"
  <2>1. PICK r : r = NextOp(e)
    OBVIOUS
  <2>2. r.kind = "recv" => r # NoOp /\ e.k = 1
    BY <1>5, <2>1, ChildOp DEF NoOp, Op
  <2> QED BY <1>5, <2>1, <2>2
<1>7. e.at # Last
  BY <1>5, GraphFacts DEF Last
<1>8. Tells(h[1])
  BY <1>3, <1>4, <1>6, <1>7 DEF Tells
<1>9. RowCourse
  BY <1>2, <1>8 DEF RowCourse
<1> QED BY <1>3, <1>9 DEF Alone, RowIs, Single, Closed, Rested, Terminal

LEMMA RowStays ==
  ASSUME Base, RowCourse, Alone, UNCHANGED vars
  PROVE  (RowCourse /\ Alone)'
<1>1. \E m, h : Course(m, h) /\ (~ lapped => Tells(h[m]))
  BY DEF RowCourse
<1>2. PICK m, h : Course(m, h) /\ (~ lapped => Tells(h[m]))
  BY <1>1
<1>3. PICK e : e = h[m]
  OBVIOUS
<1>4. (Course(m, h))'
  BY <1>2, CourseStill
<1>5. /\ (NextOp(e))' = NextOp(e) /\ (Finishing(e))' = Finishing(e)
      /\ (Failing(e))' = Failing(e) /\ Last' = Last
  BY KeepNext, KeepSaid DEF vars, ctl, Last
<1>6. ~ lapped => Tells(e)
  BY <1>2, <1>3
<1>7. UNCHANGED <<row, exec, lapped, runtime, journal>>
  BY DEF vars, ctl
<1>8. Unwritten' <=> Unwritten
  BY <1>7 DEF Unwritten
<1>9. ~ lapped' => (Tells(e))'
  BY <1>5, <1>6, <1>7, <1>8 DEF Tells, Live, Durable
<1>10. RowCourse'
  BY <1>3, <1>4, <1>9 DEF RowCourse
<1>11. RowIs' <=> RowIs
  BY DEF vars, ctl, RowIs, Gates, Nodes
<1>12. ASSUME Single PROVE Single'
  <2>1. \A w \in Workers : (NextOp(exec[w]))' = NextOp(exec[w])
    <3>1. UNCHANGED ctl
      BY DEF vars, ctl
    <3>2. ASSUME NEW w \in Workers PROVE (NextOp(exec[w]))' = NextOp(exec[w])
      <4>1. (NextOp(exec[w]))' = NextOp(exec'[w])
        BY <3>1, CarryOp
      <4>2. exec'[w] = exec[w]
        BY <1>7
      <4> QED BY <4>1, <4>2
    <3> QED BY <3>2
  <2>2. \A op : (Shown(op))' <=> Shown(op)
    BY <1>7 DEF Shown
  <2> QED BY <1>7, <1>12, <2>1, <2>2 DEF Single, Live, Durable
<1>13. (Closed' <=> Closed) /\ (Rested' <=> Rested)
  BY <1>5, <1>7, <1>8 DEF vars, Closed, Rested, Live, Durable
<1> QED BY <1>7, <1>10, <1>11, <1>12, <1>13 DEF Alone

\* What the row says is true from the first state on.
RowState == Base /\ RowCourse /\ Alone

LEMMA RowAlways == Spec => []RowState
<1>1. Init => RowState
  BY BaseInit, RowInit DEF RowState
<1>2. RowState /\ [Next]_vars => RowState'
  BY BaseNext, BaseStays, RowCourseNext, AloneNext, RowStays DEF RowState
<1> QED BY <1>1, <1>2, PTL DEF Spec

LEMMA ShownAtGate ==
  ASSUME RowState
  PROVE  GateVisible
<1> USE DEF RowState
<1>1. \E m, h : Course(m, h) /\ (~ lapped => Tells(h[m]))
  BY DEF RowCourse
<1>2. PICK m, h : Course(m, h) /\ (~ lapped => Tells(h[m]))
  BY <1>1
<1>3. ASSUME ~ lapped, NEW w \in Workers, Live(w), exec[w].phase = "busy",
             NextOp(exec[w]).kind = "recv"
      PROVE  row = [status |-> "waiting", at |-> NextOp(exec[w]).node]
  <2>1. PICK e : e = h[m]
    OBVIOUS
  <2>2. Same(exec[w], e)
    BY <1>2, <1>3, <2>1, ActsAtEnd DEF Alone
  <2>3. NextOp(exec[w]) = NextOp(e)
    BY <2>2, SameNext
  <2>4. Tells(e)
    BY <1>2, <1>3, <2>1
  <2> QED BY <1>3, <2>3, <2>4 DEF Tells
<1> QED BY <1>3 DEF GateVisible

\* A row that states an outcome is left as it is.
LEMMA StatedStays ==
  ASSUME NEW m, NEW h, Here(m, h), Next, ~ lapped', row.status \in Terminal
  PROVE  row' = row
<1> USE DEF Here
<1>1. row = [status |-> row.status, at |-> 0]
  <2>1. row.status # "waiting"
    BY DEF Terminal
  <2>2. row.at = 0 /\ DOMAIN row = {"status", "at"}
    BY <2>1 DEF Base, RowInv
  <2> QED BY <2>2 DEF RowIs
<1>2. row.status \notin Active
  BY DEF Terminal, Active
<1>3. PICK e : e = h[m]
  OBVIOUS
<1>4. /\ row.status = "completed" => Finishing(e)
      /\ row.status = "failed" /\ (Durable \/ \E w \in Workers : Live(w)) => Failing(e)
  BY <1>3 DEF Tells
<1>5. ASSUME NEW w \in Workers, Write(w) PROVE row' = row
  <2>1. Live(w) /\ Same(exec[w], e) /\ exec[w].phase = "busy"
    BY <1>3, <1>5, ActsAtEnd DEF Write, Live
  <2>2. PICK op : op = NextOp(e)
    OBVIOUS
  <2>3. NextOp(exec[w]) = op /\ op # NoOp
    BY <2>1, <2>2, SameNext DEF Base, BusyInv
  <2>4. ExecOK(e) /\ GraphInv
    <3>1. Path(m, h) /\ m \in 1..m
      BY DEF Course, Path
    <3> QED BY <1>3, <3>1 DEF Path, Base
  <2>5. e.at # Last /\ (Finishing(e) => op.kind = "finish")
    BY <2>2, <2>3, <2>4, OpTells
  <2>6. row' = RowAfter(op)
    BY <1>5, <2>3 DEF Write
  <2>7. CASE row.status = "completed"
    <3>1. op.kind = "finish"
      BY <1>4, <2>5, <2>7
    <3>2. row' = [status |-> "completed", at |-> 0]
      BY <2>6, <3>1 DEF RowAfter
    <3> QED BY <1>1, <2>7, <3>2
  <2>8. CASE row.status = "failed"
    <3>1. op.kind = "fail"
      BY <1>4, <2>1, <2>2, <2>5, <2>8 DEF Failing
    <3>2. row' = [status |-> "failed", at |-> 0]
      BY <2>6, <3>1 DEF RowAfter
    <3> QED BY <1>1, <2>8, <3>2
  <2> QED BY <2>7, <2>8 DEF Terminal
<1>6. ASSUME NEW w \in Workers, DirectWrite(w) PROVE row' = row
  <2>1. Durable /\ Failing(e)
    BY <1>3, <1>6, DirectAtEnd DEF DirectWrite
  <2>2. row.status = "failed"
    BY <1>4, <2>1 DEF Terminal, Finishing, Failing
  <2>3. row' = row \/ row' = [status |-> "failed", at |-> 0]
    BY <1>6 DEF DirectWrite
  <2> QED BY <1>1, <2>2, <2>3
<1>7. ASSUME NEW w \in Workers, Stream(w) PROVE FALSE
  <2>1. /\ ~ Durable /\ Live(w) /\ exec[w].phase # "written"
        /\ exec[w].at \in 1..(Len(order) + 1)
    BY <1>7 DEF Stream
  <2>2. Len(order) \in Nat
    BY GraphFacts DEF Base
  <2> QED BY <2>1, <2>2 DEF Rested, Last
<1>8. FailIfActive => row' = row
  BY <1>2 DEF FailIfActive
<1> QED BY <1>5, <1>6, <1>7, <1>8, RowChanges DEF Writes, Cancel, Sweep

\* As long as no two processes have acted on the run, an execution that waits for an
\* answer has its run shown waiting at its gate, whatever died between the gate's
\* steps: somebody can see what is asked.
THEOREM Visible == Spec => []GateVisible
<1>1. RowState => GateVisible
  BY ShownAtGate
<1> QED BY <1>1, RowAlways, PTL

\* A run that has ended has a row that says how, unless its last write failed on
\* every attempt or two processes have acted on it.
THEOREM OutcomeTold == Spec => []RowTellsOutcome
<1>1. RowState => RowTellsOutcome
  BY DEF RowState, Alone, Closed, RowTellsOutcome
<1> QED BY <1>1, RowAlways, PTL

\* The outcome a row states is not changed by any step, unless two processes have
\* acted on the run: a repeated write writes the same.
THEOREM OutcomeKept == Spec => OutcomeStays
<1>1. RowState /\ [Next]_vars => [row.status \in Terminal => row' = row \/ lapped']_vars
  <2>1. ASSUME RowState, Next, row.status \in Terminal, ~ lapped' PROVE row' = row
    <3>1. \E m, h : Course(m, h) /\ (~ lapped => Tells(h[m]))
      BY <2>1 DEF RowState, RowCourse
    <3>2. PICK m, h : Course(m, h) /\ (~ lapped => Tells(h[m]))
      BY <3>1
    <3>3. Here(m, h)
      BY <2>1, <3>2, LapsStay DEF Here, RowState, Alone, Base
    <3> QED BY <2>1, <3>3, StatedStays
  <2> QED BY <2>1
<1> QED BY <1>1, RowAlways, PTL DEF Spec, OutcomeStays

=============================================================================
