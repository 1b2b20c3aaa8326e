------------------------ MODULE EngineManagerProofs ------------------------
(* Theorems about EngineManager, for every value of its constants.         *)
EXTENDS EngineManager, FiniteSetTheorems, WellFoundedInduction, TLAPS

Order == SUBSET (Engines \X Engines)
Table == [Engines -> Record]

----------------------------------------------------------------------------
(* The inductive invariant.  It says what the code relies on and nowhere   *)
(* writes down: which task may be where, what the lock's owner leaves true *)
(* while it awaits a process, and that a lease keeps its engine listed.    *)

Named == {"warm", "acquire", "using", "release", "reporting", "mark", "marked",
          "evict", "delete"}
Leasing == {"acquire", "using", "release", "reporting", "mark", "marked"}
Loading == {"replace", "room", "launch"}
Upward == {"warm", "acquire"}

TaskInv ==
  \A t \in Tasks :
    /\ task[t].pc \in Named => task[t].lid \in Lids
    /\ task[t].pc \in Leasing => t \in Clients
    /\ task[t].pc \in {"using", "marked", "release"} => task[t].held \in Engines
    /\ task[t].pc \notin {"using", "marked", "release", "mark"}
         => task[t].held = NoEngine
    /\ task[t].pc = "shutdown" => down
    /\ down /\ t \in Clients =>
         task[t].pc = "idle" \/ (task[t].pc = "release" /\ ~task[t].bad)

\* What the owner of the lock, at record r, may be awaiting in phase p.
Awaits(r, p) ==
  /\ p \in Loading => r.pc \in Upward /\ registry[r.lid] # Absent
  /\ p = "retire" => r.pc = "release"
  /\ p = "sweep" => r.pc \in {"release", "enforce"}
  /\ p = "clear" => r.pc \in Waiting \ Upward

SectionInv ==
  /\ section.phase = "free" => section = FreeSection
  /\ section.phase # "free" =>
       /\ queue # <<>>
       /\ section.subject \in Engines /\ engine[section.subject].terminated
       /\ Awaits(task[Head(queue)], section.phase)
       /\ section.phase \in Loading \/ task[Head(queue)].pc = "delete"
            => resident[task[Head(queue)].lid] = NoEngine
  /\ section.phase = "launch" =>
       /\ section.victims = {}
       /\ \A t \in Tasks : task[t].held # section.subject
  /\ \A v \in section.victims :
       ~engine[v].terminated /\ (engine[v].inflight = 0 \/ down)

\* c is inside its lease: the upstream call, or a report made under it.
InUse(c) ==
  \/ task[c].pc \in {"using", "marked"}
  \/ task[c].pc = "mark" /\ task[c].held # NoEngine

\* A lease in use keeps its engine: the strengthening of NeverStoppedInUse
\* that also covers a report made under the lease.
UseInv ==
  \A c \in Clients :
    InUse(c) => ~engine[task[c].held].terminated

DrainInv ==
  \A e \in Engines :
    ~engine[e].terminated /\ engine[e].draining => engine[e].inflight > 0

ProcInv ==
  \A e \in Engines : ~engine[e].terminated => engine[e].proc \in {"up", "off"}

EngineInv ==
  /\ TypeOK /\ TaskInv /\ SectionInv /\ UseInv /\ DrainInv /\ ProcInv
  /\ LeasesCounted /\ ListedIffLive /\ UnregisteredDrains

----------------------------------------------------------------------------
(* Type correctness                                                        *)

\* A record stays one under every update of a field the actions make.
LEMMA FieldTypes ==
  ASSUME NEW r \in Record
  PROVE  /\ \A b \in BOOLEAN :
              /\ [r EXCEPT !.expired = b] \in Record
              /\ [r EXCEPT !.draining = b] \in Record
              /\ [r EXCEPT !.failed = b] \in Record
              /\ [r EXCEPT !.broken = b] \in Record
         /\ \A p \in Proc :
              /\ [r EXCEPT !.proc = p] \in Record
              /\ [r EXCEPT !.terminated = TRUE, !.proc = p] \in Record
         /\ [r EXCEPT !.inflight = @ + 1] \in Record
         /\ [r EXCEPT !.inflight = @ - 1] \in Record
<1>1. ASSUME NEW b \in BOOLEAN
      PROVE  /\ [r EXCEPT !.expired = b] \in Record
             /\ [r EXCEPT !.draining = b] \in Record
             /\ [r EXCEPT !.failed = b] \in Record
             /\ [r EXCEPT !.broken = b] \in Record
  BY DEF Record
<1>2. ASSUME NEW p \in Proc
      PROVE  /\ [r EXCEPT !.proc = p] \in Record
             /\ [r EXCEPT !.terminated = TRUE, !.proc = p] \in Record
  BY DEF Record
<1>3. /\ [r EXCEPT !.inflight = @ + 1] \in Record
      /\ [r EXCEPT !.inflight = @ - 1] \in Record
  BY DEF Record
<1>4. QED BY <1>1, <1>2, <1>3

LEMMA TableUpdate ==
  ASSUME NEW E \in Table, NEW e, NEW r \in Record
  PROVE  [E EXCEPT ![e] = r] \in Table
  BY DEF Table

\* What the lock's owner does when it leaves keeps the types.
LEMMA LeaveType ==
  ASSUME TypeOK, NEW t \in Tasks, NEW E \in Table, NEW O \in Order,
         Leave(t, E, O), queue # <<>>,
         maxResident' = maxResident, down' = down, failures' \subseteq Lids
  PROVE  TypeOK'
<1>1. registry' \in [Lids -> Bindings \cup {Reachable, Absent}]
  BY DEF TypeOK, Leave, Done
<1>2. queue' \in Seq(Tasks)
  BY DEF TypeOK, Leave, Done
<1>3. task' \in [Tasks -> TaskRecord]
  <2>1. task[t] \in TaskRecord
    BY DEF TypeOK
  <2>2. After(task[t]) \in TaskRecord
    BY <2>1 DEF After, IdleTask, TaskRecord, Pc
  <2>3. QED BY <2>2 DEF TypeOK, Leave, Done
<1>4. section' \in SectionRecord
  BY DEF Leave, Done, FreeSection, SectionRecord, Phase
<1>5. QED BY <1>1, <1>2, <1>3, <1>4 DEF TypeOK, Leave, Table, Order

LEMMA StopType ==
  ASSUME TypeOK, NEW E \in Table, NEW O \in Order, NEW p \in Phase,
         NEW V \in SUBSET Engines, NEW b \in Bindings \cup {Absent},
         Stop(E, O, p, V, b),
         maxResident' = maxResident, down' = down, failures' \subseteq Lids
  PROVE  TypeOK'
<1>1. PICK v \in V :
        /\ resident' = [resident EXCEPT ![E[v].lid] = NoEngine]
        /\ engine' = [E EXCEPT ![v] = Stopped(E[v])]
        /\ older' = {q \in O : v \notin {q[1], q[2]}}
        /\ section' = [phase |-> p, victims |-> V \ {v},
                       subject |-> v, loading |-> b]
        /\ UNCHANGED <<registry, task, queue>>
  BY DEF Stop
<1>2. engine' \in Table
  <2>1. E[v] \in Record
    BY DEF Table
  <2>2. (IF E[v].proc = "up" THEN "stopping" ELSE E[v].proc) \in Proc
    BY <2>1 DEF Record, Proc
  <2>3. Stopped(E[v]) \in Record
    BY <2>1, <2>2, FieldTypes DEF Stopped
  <2>4. QED BY <1>1, <2>3, TableUpdate
<1>3. resident' \in [Lids -> Engines \cup {NoEngine}]
  BY <1>1 DEF TypeOK
<1>4. older' \in Order
  BY <1>1 DEF Order
<1>5. section' \in SectionRecord
  BY <1>1 DEF SectionRecord
<1>6. QED BY <1>1, <1>2, <1>3, <1>4, <1>5 DEF TypeOK, Table, Order

LEMMA ServeType ==
  ASSUME TypeOK, NEW t \in Tasks, NEW E \in Table, NEW O \in Order,
         NEW e \in Engines, Serve(t, E, O, e), queue # <<>>,
         resident' \in [Lids -> Engines \cup {NoEngine}],
         maxResident' = maxResident, down' = down, failures' \subseteq Lids
  PROVE  TypeOK'
<1>1. older' \in Order
  <2>1. older' = Touch(O, e)
    BY DEF Serve
  <2>2. Live(engine) \subseteq Engines
    BY DEF Live
  <2>3. QED BY <2>1, <2>2 DEF Touch, Order
<1>2. CASE task[t].pc = "acquire"
  <2>1. /\ engine' = [E EXCEPT ![e].inflight = @ + 1]
        /\ queue' = Tail(queue)
        /\ task' = [task EXCEPT ![t] = [@ EXCEPT !.pc = "using", !.held = e]]
    BY <1>2 DEF Serve
  <2>2. engine' \in Table
    BY <2>1, E[e] \in Record, FieldTypes, TableUpdate DEF Table
  <2>3. [task[t] EXCEPT !.pc = "using", !.held = e] \in TaskRecord
    BY DEF TypeOK, TaskRecord, Pc
  <2>4. task' \in [Tasks -> TaskRecord]
    BY <2>1, <2>3 DEF TypeOK, TaskRecord
  <2>5. QED BY <1>1, <2>1, <2>2, <2>4
             DEF TypeOK, Serve, Table, Order, FreeSection, SectionRecord, Phase
<1>3. CASE task[t].pc = "warm" /\ t \in Clients
  <2>1. /\ engine' = E
        /\ queue' = Append(Tail(queue), t)
        /\ task' = [task EXCEPT ![t].pc = "acquire"]
    BY <1>3 DEF Serve
  <2>2. [task[t] EXCEPT !.pc = "acquire"] \in TaskRecord
    BY DEF TypeOK, TaskRecord, Pc
  <2>3. task' \in [Tasks -> TaskRecord]
    BY <2>1, <2>2 DEF TypeOK
  <2>4. QED BY <1>1, <2>1, <2>3
             DEF TypeOK, Serve, Table, Order, FreeSection, SectionRecord, Phase
<1>4. CASE ~(task[t].pc = "acquire" \/ (task[t].pc = "warm" /\ t \in Clients))
  <2>1. /\ engine' = E
        /\ queue' = Tail(queue)
        /\ task' = [task EXCEPT ![t] = IdleTask]
    BY <1>4 DEF Serve
  <2>2. task' \in [Tasks -> TaskRecord]
    BY <2>1 DEF TypeOK, TaskRecord, IdleTask, Pc
  <2>3. QED BY <1>1, <2>1, <2>2
             DEF TypeOK, Serve, Table, Order, FreeSection, SectionRecord, Phase
<1>5. QED BY <1>2, <1>3, <1>4


----------------------------------------------------------------------------
(* The lock's owner at work.  An operation builds a table E of engine      *)
(* records from `engine`, then leaves the critical section with it, or     *)
(* stops an engine of it.                                                  *)

\* The leases an operation of t leaves behind: a release drops t's own.
Kept(t) == IF task[t].pc = "release" THEN Clients \ {t} ELSE Clients
Holders(C, e) == {c \in C : task[c].held = e}

\* E is `engine` with nothing changed but counters, marks and drains.
Ready(t, E) ==
  /\ E \in Table
  /\ \A e \in Engines :
       /\ E[e].terminated = engine[e].terminated /\ E[e].lid = engine[e].lid
       /\ ~E[e].terminated => E[e].proc = engine[e].proc
       /\ engine[e].draining => E[e].draining
       /\ E[e].inflight = Cardinality(Holders(Kept(t), e))

Owner(t) ==
  t \in Tasks /\ queue # <<>> /\ t = Head(queue) /\ task[t].pc \in Waiting

DrainsIn(E, V) ==
  \A e \in Engines \ V :
    ~E[e].terminated /\ E[e].draining => E[e].inflight > 0

LEMMA HeadInTasks ==
  ASSUME TypeOK, queue # <<>>
  PROVE  Head(queue) \in Tasks
  BY DEF TypeOK

\* What t owns when it starts an operation that is not a release.
LEMMA EntersReady ==
  ASSUME EngineInv, NEW t, NEW p \in Waiting \ {"release"}, Enters(t, p)
  PROVE  Owner(t) /\ Ready(t, engine)
<1>1. Owner(t)
  BY HeadInTasks DEF EngineInv, Enters, Owner
<1>2. \A c : ~Inside(c)
  BY DEF Enters, Inside
<1>3. ASSUME NEW e \in Engines
      PROVE  Leases(e) = Holders(Kept(t), e)
  BY <1>2 DEF Leases, Released, Holders, Kept, Enters
<1>4. QED BY <1>1, <1>3 DEF Ready, EngineInv, TypeOK, Table, LeasesCounted

\* What t owns when the processes it awaited have ended.
LEMMA InsideReady ==
  ASSUME EngineInv, NEW t, Inside(t)
  PROVE  Owner(t) /\ Ready(t, engine)
<1>1. t \in Tasks /\ queue # <<>> /\ t = Head(queue)
  BY HeadInTasks DEF EngineInv, Inside
<1>2. task[t].pc \in Waiting
  <2>1. section.phase \in Phase /\ task[t].pc \in Pc
    BY <1>1 DEF EngineInv, TypeOK, SectionRecord, TaskRecord
  <2>2. Awaits(task[t], section.phase)
    BY <1>1 DEF EngineInv, SectionInv, Inside
  <2>3. QED BY <2>1, <2>2, <1>1
            DEF Awaits, Inside, Phase, Waiting, Loading, Upward, Pc
<1>3. ASSUME NEW e \in Engines
      PROVE  Leases(e) = Holders(Kept(t), e)
  BY <1>1 DEF Leases, Released, Holders, Kept, Inside
<1>4. QED BY <1>1, <1>2, <1>3
          DEF Owner, Ready, EngineInv, TypeOK, Table, LeasesCounted

\* A counter is the size of a set of clients.
LEMMA CountIsNat ==
  ASSUME NEW t, NEW e
  PROVE  Cardinality(Holders(Kept(t), e)) \in Nat
<1>1. IsFiniteSet(Holders(Kept(t), e))
  BY SetsAssumption, FS_Subset DEF Holders, Kept
<1>2. QED BY <1>1, FS_CardinalityType

LEMMA UserHolds ==
  ASSUME TypeOK, TaskInv, NEW c \in Clients, InUse(c)
  PROVE  task[c].held \in Engines
<1>1. c \in Tasks
  BY DEF Tasks
<1>2. task[c].held \in Engines \cup {NoEngine}
  BY <1>1 DEF TypeOK, TaskRecord
<1>3. QED BY <1>1, <1>2 DEF TaskInv, InUse

\* What a task is at once its operation is over.
LEMMA AfterTask ==
  ASSUME TypeOK, TaskInv, NEW t \in Tasks, task[t].pc \in Waiting
  PROVE  LET r == After(task[t])
         IN /\ r.pc \in Named => r.lid \in Lids
            /\ r.pc \in Leasing => t \in Clients
            /\ r.pc \in {"using", "marked", "release"} => r.held \in Engines
            /\ r.pc \notin {"using", "marked", "release", "mark"}
                 => r.held = NoEngine
            /\ r.pc = "shutdown" => down
            /\ down /\ t \in Clients =>
                 r.pc = "idle" \/ (r.pc = "release" /\ ~r.bad)
            /\ r.held = IF task[t].pc = "release" THEN NoEngine
                        ELSE task[t].held
<1> DEFINE q == task[t]
           r == After(q)
<1>1. q \in TaskRecord
  BY DEF TypeOK
<1>2. /\ q.pc \in Named => q.lid \in Lids
      /\ q.pc \in Leasing => t \in Clients
      /\ q.pc = "release" => q.held \in Engines
      /\ q.pc \notin {"using", "marked", "release", "mark"} => q.held = NoEngine
      /\ q.held \in Engines \cup {NoEngine}
      /\ down /\ t \in Clients =>
           q.pc = "idle" \/ (q.pc = "release" /\ ~q.bad)
      /\ q.pc \in Waiting
  BY <1>1 DEF TaskInv, TaskRecord
<1> HIDE DEF q
<1>3. CASE q.pc = "release" /\ q.bad
  <2>1. r = [q EXCEPT !.pc = "reporting", !.held = NoEngine]
    BY <1>3 DEF After
  <2>2. r.pc = "reporting" /\ r.held = NoEngine /\ r.lid = q.lid
    BY <1>1, <2>1 DEF TaskRecord
  <2> HIDE DEF r
  <2>3. q.lid \in Lids /\ t \in Clients /\ ~down
    BY <1>2, <1>3 DEF Named, Leasing
  <2>4. QED BY <1>3, <2>2, <2>3 DEF q, r
<1>4. CASE q.pc = "mark" /\ q.held # NoEngine
  <2>1. r = [q EXCEPT !.pc = "marked"]
    BY <1>4 DEF After
  <2>2. r.pc = "marked" /\ r.held = q.held /\ r.lid = q.lid
    BY <1>1, <2>1 DEF TaskRecord
  <2> HIDE DEF r
  <2>3. q.lid \in Lids /\ t \in Clients /\ ~down /\ q.held \in Engines
    BY <1>2, <1>4 DEF Named, Leasing
  <2>4. QED BY <1>4, <2>2, <2>3 DEF q, r
<1>5. CASE /\ ~(q.pc = "release" /\ q.bad)
           /\ ~(q.pc = "mark" /\ q.held # NoEngine)
  <2>1. r.pc = "idle" /\ r.held = NoEngine
    BY <1>5 DEF After, IdleTask
  <2>2. q.pc # "release" => q.held = NoEngine
    BY <1>2, <1>5 DEF Waiting, Pc
  <2> HIDE DEF r
  <2>3. QED BY <2>1, <2>2 DEF q, r, Named, Leasing
<1>6. QED BY <1>3, <1>4, <1>5

\* Leaving the critical section keeps the invariant.
LEMMA LeaveInv ==
  ASSUME EngineInv, NEW t, Owner(t), NEW E, Ready(t, E), DrainsIn(E, {}),
         NEW O \in Order, Leave(t, E, O),
         maxResident' = maxResident, down' = down, failures' \subseteq Lids,
         task[t].pc = "delete" =>
           \/ resident[task[t].lid] = NoEngine
           \/ E[resident[task[t].lid]].draining
  PROVE  EngineInv'
<1> USE DEF EngineInv
<1>1. TypeOK'
  BY LeaveType DEF Owner, Ready
<1>2. /\ task' = [task EXCEPT ![t] = After(task[t])]
      /\ engine' = E /\ resident' = resident /\ section' = FreeSection
      /\ task'[t] = After(task[t])
      /\ \A u \in Tasks \ {t} : task'[u] = task[u]
  BY DEF Leave, Done, TypeOK, Owner
<1>3. TaskInv'
  <2>1. ASSUME NEW u \in Tasks, u # t
        PROVE  TaskInv!(u)'
    BY <1>2, <2>1 DEF TaskInv
  <2>2. TaskInv!(t)'
    BY <1>2, AfterTask DEF Owner
  <2>3. QED BY <2>1, <2>2 DEF TaskInv
<1>4. SectionInv'
  BY <1>2 DEF SectionInv, FreeSection
<1>5. UseInv'
  <2>1. ASSUME NEW c \in Clients, InUse(c)'
        PROVE  InUse(c) /\ task'[c].held = task[c].held
    <3>1. CASE c = t
      <4>1. task[t] \in TaskRecord
        BY DEF TypeOK, Owner
      <4>2. QED BY <1>2, <2>1, <3>1, <4>1
                DEF InUse, After, IdleTask, TaskRecord
    <3>2. CASE c # t
      BY <1>2, <2>1, <3>2 DEF InUse, Tasks
    <3>3. QED BY <3>1, <3>2
  <2>2. QED BY <1>2, <2>1, UserHolds DEF UseInv, Ready
<1>6. DrainInv'
  BY <1>2 DEF DrainInv, DrainsIn
<1>7. ProcInv'
  BY <1>2 DEF ProcInv, Ready
<1>8. LeasesCounted'
  <2>1. ASSUME NEW e \in Engines
        PROVE  Leases(e)' = Holders(Kept(t), e)
    <3>1. Leases(e)' = {c \in Clients : task'[c].held = e}
      BY <1>2 DEF Leases, Released, Inside, FreeSection
    <3>2. task[t] \in TaskRecord /\ e # NoEngine
      BY SetsAssumption DEF TypeOK, Owner
    <3>3. task'[t].held = IF task[t].pc = "release" THEN NoEngine ELSE task[t].held
      BY <1>2, AfterTask DEF Owner
    <3>4. QED BY <1>2, <3>1, <3>2, <3>3 DEF Holders, Kept, Tasks
  <2>2. QED BY <1>2, <2>1 DEF LeasesCounted, Ready
<1>9. ListedIffLive'
  BY <1>2 DEF ListedIffLive, Ready, TypeOK
<1>10. UnregisteredDrains'
  BY <1>2 DEF UnregisteredDrains, Ready, Leave, Done, TypeOK, Owner, TaskInv
<1>11. QED BY <1>1, <1>3, <1>4, <1>5, <1>6, <1>7, <1>8, <1>9, <1>10

\* Stopping an engine nobody uses, or at the shutdown, keeps it too.
LEMMA StopInv ==
  ASSUME EngineInv, NEW t, Owner(t), NEW E, Ready(t, E), NEW O \in Order,
         NEW p \in Phase \ {"free", "launch"}, NEW V \in SUBSET Engines,
         NEW b \in Bindings \cup {Absent}, Stop(E, O, p, V, b),
         maxResident' = maxResident, down' = down, failures' \subseteq Lids,
         \A v \in V : /\ ~E[v].terminated /\ (E[v].inflight = 0 \/ down)
                      /\ DrainsIn(E, {v}),
         Awaits(task[t], p),
         p \in Loading \/ task[t].pc = "delete" =>
           \/ resident[task[t].lid] = NoEngine
           \/ V = {resident[task[t].lid]}
  PROVE  EngineInv'
<1> USE DEF EngineInv
<1>1. TypeOK'
  BY StopType DEF Ready
<1>2. PICK v \in V :
        /\ resident' = [resident EXCEPT ![E[v].lid] = NoEngine]
        /\ engine' = [E EXCEPT ![v] = Stopped(E[v])]
        /\ section' = [phase |-> p, victims |-> V \ {v},
                       subject |-> v, loading |-> b]
        /\ UNCHANGED <<registry, task, queue>>
  BY DEF Stop
<1>3. /\ v \in Engines /\ E[v] \in Record /\ ~E[v].terminated
      /\ E[v].lid \in Lids /\ resident[E[v].lid] = v
  BY DEF Ready, ListedIffLive, Table
<1>4. /\ engine'[v].terminated /\ engine'[v].inflight = E[v].inflight
      /\ \A e \in Engines \ {v} : engine'[e] = E[e]
      /\ resident'[E[v].lid] = NoEngine
      /\ \A l \in Lids \ {E[v].lid} : resident'[l] = resident[l]
  BY <1>2, <1>3 DEF Stopped, Ready, Table, Record, TypeOK
<1>5. TaskInv'
  BY <1>2 DEF TaskInv
<1>6. SectionInv'
  <2>1. ASSUME p \in Loading \/ task[t].pc = "delete"
        PROVE  resident'[task[t].lid] = NoEngine
    <3>1. task[t].lid \in Lids
      BY <2>1 DEF TaskInv, Owner, Awaits, Upward, Named
    <3>2. CASE resident[task[t].lid] = NoEngine
      BY <1>2, <3>1, <3>2 DEF TypeOK
    <3>3. CASE V = {resident[task[t].lid]}
      <4>1. v = resident[task[t].lid] /\ v # NoEngine
        BY <1>3, <3>3, SetsAssumption
      <4>2. engine[v].lid = task[t].lid
        BY <3>1, <4>1 DEF ListedIffLive
      <4>3. QED BY <1>3, <1>4, <4>2 DEF Ready
    <3>4. QED BY <2>1, <3>2, <3>3
  <2>2. \A x \in V \ {v} :
           ~engine'[x].terminated /\ (engine'[x].inflight = 0 \/ down')
    BY <1>4
  <2>3. Awaits(task[t], p)'
    BY <1>2 DEF Awaits
  <2>4. QED BY <1>2, <1>3, <1>4, <2>1, <2>2, <2>3 DEF SectionInv, Owner
<1>7. UseInv'
  <2>1. SUFFICES ASSUME NEW c \in Clients, InUse(c), task[c].held = v
                 PROVE  FALSE
    BY <1>2, <1>4, UserHolds DEF UseInv, Ready, InUse
  <2>0. ~down
    BY <2>1 DEF InUse, TaskInv, Tasks
  <2>2. c \in Holders(Kept(t), v)
    BY <2>1 DEF Holders, Kept, InUse
  <2>3. Cardinality(Holders(Kept(t), v)) = 0
    BY <1>3, <2>0 DEF Ready
  <2>4. IsFiniteSet(Holders(Kept(t), v))
    BY SetsAssumption, FS_Subset DEF Holders, Kept
  <2>5. QED BY <2>2, <2>3, <2>4, FS_EmptySet
<1>8. DrainInv'
  BY <1>4 DEF DrainInv, DrainsIn
<1>9. ProcInv'
  BY <1>4 DEF ProcInv, Ready
<1>10. LeasesCounted'
  <2>1. ASSUME NEW e \in Engines
        PROVE  Leases(e)' = Holders(Kept(t), e)
    BY <1>2 DEF Leases, Released, Inside, Holders, Kept, Owner
  <2>2. QED BY <1>3, <1>4, <2>1 DEF LeasesCounted, Ready
<1>11. ListedIffLive'
  <2>1. ASSUME NEW e \in Engines, ~engine'[e].terminated
        PROVE  engine'[e].lid \in Lids /\ resident'[engine'[e].lid] = e
    BY <1>3, <1>4, <2>1 DEF ListedIffLive, Ready
  <2>2. ASSUME NEW l \in Lids, resident'[l] # NoEngine
        PROVE  /\ ~engine'[resident'[l]].terminated
               /\ engine'[resident'[l]].lid = l
    <3>1. resident'[l] = resident[l] /\ resident[l] \in Engines /\ l # E[v].lid
      BY <1>3, <1>4, <2>2 DEF TypeOK
    <3>2. resident[l] # v
      BY <1>3, <3>1, SetsAssumption DEF ListedIffLive, Ready
    <3>3. QED BY <1>4, <3>1, <3>2, SetsAssumption DEF ListedIffLive, Ready
  <2>3. QED BY <2>1, <2>2 DEF ListedIffLive
<1>12. UnregisteredDrains'
  BY <1>2, <1>3, <1>4 DEF UnregisteredDrains, Ready, ListedIffLive, TypeOK
<1>13. QED BY <1>1, <1>5, <1>6, <1>7, <1>8, <1>9, <1>10, <1>11, <1>12

\* Handing an engine e out keeps the invariant: e is listed and not draining.
LEMMA ServeInv ==
  ASSUME EngineInv, NEW t, Owner(t), task[t].pc \in Upward,
         NEW E \in Table, NEW O \in Order, NEW e \in Engines, Serve(t, E, O, e),
         maxResident' = maxResident, down' = down, failures' \subseteq Lids,
         resident' \in [Lids -> Engines \cup {NoEngine}],
         ~E[e].terminated, ~E[e].draining, DrainsIn(E, {}),
         \A x \in Engines :
           /\ ~engine[x].terminated => ~E[x].terminated
           /\ ~E[x].terminated => /\ E[x].lid \in Lids
                                  /\ resident'[E[x].lid] = x
                                  /\ E[x].proc \in {"up", "off"}
           /\ E[x].inflight = Cardinality(Holders(Kept(t), x)),
         \A l \in Lids :
           resident'[l] # NoEngine =>
             /\ ~E[resident'[l]].terminated /\ E[resident'[l]].lid = l
             /\ registry[l] = Absent => E[resident'[l]].draining
  PROVE  EngineInv'
<1> USE DEF EngineInv
<1>1. TypeOK'
  BY ServeType DEF Owner
<1>2. /\ section' = FreeSection /\ registry' = registry
      /\ task[t].held = NoEngine /\ Kept(t) = Clients
      /\ task[t].lid \in Lids
  BY DEF Serve, TaskInv, Owner, Upward, Named, Kept
<1>3. \A u \in Tasks \ {t} : task'[u] = task[u]
  BY DEF Serve, Owner, TypeOK
<1>4. \A x \in Engines :
        /\ engine'[x].terminated = E[x].terminated /\ engine'[x].lid = E[x].lid
        /\ engine'[x].proc = E[x].proc /\ engine'[x].draining = E[x].draining
        /\ x # e => engine'[x].inflight = E[x].inflight
  BY DEF Serve, Table, Record
<1>5. \/ /\ task[t].pc = "acquire" /\ t \in Clients /\ ~down
         /\ task'[t].pc = "using" /\ task'[t].held = e
         /\ task'[t].lid = task[t].lid
         /\ engine'[e].inflight = E[e].inflight + 1
      \/ /\ task[t].pc = "warm" /\ t \in Clients /\ ~down
         /\ task'[t].pc = "acquire" /\ task'[t].held = NoEngine
         /\ task'[t].lid = task[t].lid
         /\ engine'[e].inflight = E[e].inflight
      \/ /\ task[t].pc = "warm" /\ task'[t] = IdleTask
         /\ engine'[e].inflight = E[e].inflight
  <2>1. task[t] \in TaskRecord /\ t \in Tasks
    BY DEF TypeOK, Owner
  <2>2. CASE task[t].pc = "acquire"
    <3>1. t \in Clients /\ ~down
      BY <2>1, <2>2 DEF TaskInv, Leasing
    <3>2. /\ task'[t] = [task[t] EXCEPT !.pc = "using", !.held = e]
          /\ engine' = [E EXCEPT ![e].inflight = @ + 1]
      BY <2>1, <2>2 DEF Serve, TypeOK
    <3>3. QED BY <2>1, <2>2, <3>1, <3>2 DEF TaskRecord, Table, Record
  <2>3. CASE task[t].pc = "warm" /\ t \in Clients
    <3>1. ~down
      BY <2>1, <2>3 DEF TaskInv
    <3>2. /\ task'[t] = [task[t] EXCEPT !.pc = "acquire"]
          /\ engine' = E
      BY <2>1, <2>3 DEF Serve, TypeOK
    <3>3. QED BY <1>2, <2>1, <2>3, <3>1, <3>2 DEF TaskRecord
  <2>4. CASE task[t].pc = "warm" /\ t \notin Clients
    <3>1. task'[t] = IdleTask /\ engine' = E
      BY <2>1, <2>4 DEF Serve, TypeOK
    <3>2. QED BY <2>4, <3>1
  <2>5. QED BY <2>2, <2>3, <2>4 DEF Upward
<1>6. TaskInv'
  <2>1. ASSUME NEW u \in Tasks, u # t
        PROVE  TaskInv!(u)'
    BY <1>3, <2>1 DEF TaskInv
  <2>2. down' => down
    OBVIOUS
  <2>3. TaskInv!(t)'
    BY <1>2, <1>5, <2>2 DEF Named, Leasing, IdleTask
  <2>4. QED BY <2>1, <2>3 DEF TaskInv
<1>7. SectionInv'
  BY <1>2 DEF SectionInv, FreeSection
<1>8. UseInv'
  <2>1. ASSUME NEW c \in Clients, InUse(c)', c # t
        PROVE  ~engine'[task'[c].held].terminated
    <3>1. InUse(c) /\ task'[c] = task[c]
      BY <1>3, <2>1 DEF InUse, Tasks
    <3>2. QED BY <1>4, <3>1, UserHolds DEF UseInv
  <2>2. ASSUME InUse(t)'
        PROVE  ~engine'[task'[t].held].terminated
    BY <1>4, <1>5, <2>2 DEF InUse, IdleTask
  <2>3. QED BY <2>1, <2>2 DEF UseInv
<1>9. /\ IsFiniteSet(Holders(Clients, e)) /\ t \notin Holders(Clients, e)
      /\ Cardinality(Holders(Clients, e)) \in Nat
  <2>1. IsFiniteSet(Holders(Clients, e))
    BY SetsAssumption, FS_Subset DEF Holders
  <2>2. QED BY <1>2, <2>1, FS_CardinalityType, SetsAssumption DEF Holders
<1>10. DrainInv'
  BY <1>4, <1>5 DEF DrainInv, DrainsIn
<1>11. ProcInv'
  BY <1>4 DEF ProcInv
<1>12. LeasesCounted'
  <2>1. ASSUME NEW x \in Engines
        PROVE  Leases(x)' = {c \in Clients : task'[c].held = x}
    BY <1>2 DEF Leases, Released, Inside, FreeSection
  <2>2. ASSUME NEW x \in Engines, x # e
        PROVE  engine'[x].inflight = Cardinality(Leases(x)')
    <3>1. x # NoEngine /\ task'[t].held # x /\ task[t].held # x
      BY <1>2, <1>5, <2>2, SetsAssumption DEF IdleTask
    <3>3. Leases(x)' = Holders(Kept(t), x)
      BY <1>2, <1>3, <2>1, <3>1 DEF Holders, Tasks
    <3>2. QED BY <1>4, <2>2, <3>3
  <2>3. engine'[e].inflight = Cardinality(Leases(e)')
    <3>1. CASE task[t].pc = "acquire"
      <4>1. task'[t].held = e /\ t \in Clients
            /\ engine'[e].inflight = E[e].inflight + 1
        BY <1>5, <3>1
      <4>2. Leases(e)' = Holders(Clients, e) \cup {t}
        BY <1>2, <1>3, <2>1, <4>1 DEF Holders, Tasks
      <4>3. Cardinality(Holders(Clients, e) \cup {t})
              = Cardinality(Holders(Clients, e)) + 1
        BY <1>9, FS_AddElement
      <4>4. E[e].inflight = Cardinality(Holders(Clients, e))
        BY <1>2
      <4>5. QED BY <4>1, <4>2, <4>3, <4>4
    <3>2. CASE task[t].pc # "acquire"
      <4>1. e # NoEngine /\ task'[t].held # e /\ task[t].held # e
        BY <1>2, <1>5, <3>2, SetsAssumption DEF IdleTask
      <4>2. Leases(e)' = Holders(Kept(t), e)
        BY <1>2, <1>3, <2>1, <4>1 DEF Holders, Tasks
      <4>3. QED BY <1>5, <3>2, <4>2
    <3>3. QED BY <3>1, <3>2
  <2>4. QED BY <2>2, <2>3 DEF LeasesCounted
<1>13. ListedIffLive'
  BY <1>4 DEF ListedIffLive
<1>14. UnregisteredDrains'
  BY <1>2, <1>4 DEF UnregisteredDrains
<1>15. QED BY <1>1, <1>6, <1>7, <1>8, <1>10, <1>11, <1>12, <1>13, <1>14

----------------------------------------------------------------------------
(* The operations                                                          *)

\* F is E with more marks and more drains.
Marked(E, F) ==
  \A e \in Engines :
    /\ F[e].terminated = E[e].terminated /\ F[e].lid = E[e].lid
    /\ F[e].proc = E[e].proc /\ F[e].inflight = E[e].inflight
    /\ E[e].draining => F[e].draining

\* Marks on records leave the owner's table ready.
LEMMA MarkReady ==
  ASSUME NEW t, NEW E, Ready(t, E), NEW F \in Table, Marked(E, F)
  PROVE  Ready(t, F)
  BY DEF Ready, Marked

\* A mark on one record alone.
LEMMA MarkOne ==
  ASSUME NEW E, NEW F, NEW w,
         F[w].terminated = E[w].terminated, F[w].lid = E[w].lid,
         F[w].proc = E[w].proc, F[w].inflight = E[w].inflight,
         E[w].draining => F[w].draining,
         \A e \in Engines \ {w} : F[e] = E[e]
  PROVE  Marked(E, F)
<1>1. ASSUME NEW e \in Engines
      PROVE  Marked(E, F)!(e)
  <2>1. CASE e = w
    BY <2>1
  <2>2. CASE e # w
    BY <2>2
  <2>3. QED BY <2>1, <2>2
<1>2. QED BY <1>1 DEF Marked

LEMMA Stable ==
  ASSUME EngineInv
  PROVE  /\ engine \in Table /\ older \in Order /\ DrainsIn(engine, {})
         /\ failures \subseteq Lids
  BY DEF EngineInv, TypeOK, Table, Order, DrainInv, DrainsIn

\* Whatever excess the sweep leaves, DrainExcess keeps the invariant.
LEMMA DrainExcessInv ==
  ASSUME EngineInv, NEW t, Owner(t), NEW E, Ready(t, E), DrainsIn(E, {}),
         NEW O \in Order, task[t].pc \in {"release", "enforce"},
         DrainExcess(t, E, O), UNCHANGED <<maxResident, failures, down>>
  PROVE  EngineInv'
<1> DEFINE excess == Cardinality(Live(E)) - maxResident
                       - Cardinality(Draining(E))
           chosen == First(excess, Live(E) \ Draining(E), O)
           busy == chosen \ Idle(E)
           D == [e \in Engines |->
                   IF e \in busy THEN [E[e] EXCEPT !.draining = TRUE] ELSE E[e]]
<1>1. IF chosen \cap Idle(E) = {}
        THEN Leave(t, D, O)
        ELSE Stop(D, O, "clear", chosen \cap Idle(E), Absent)
  BY DEF DrainExcess
<1>2. chosen \subseteq Live(E) \ Draining(E)
  BY DEF First
<1> HIDE DEF chosen
<1>3. ASSUME NEW e \in Engines
      PROVE  /\ D[e] \in Record
             /\ D[e].terminated = E[e].terminated /\ D[e].lid = E[e].lid
             /\ D[e].proc = E[e].proc /\ D[e].inflight = E[e].inflight
             /\ E[e].draining => D[e].draining
             /\ D[e].draining => E[e].draining \/ e \in busy
  <2>1. E[e] \in Record
    BY DEF Ready, Table
  <2>2. [E[e] EXCEPT !.draining = TRUE] \in Record
    BY <2>1, FieldTypes
  <2>3. CASE e \in busy
    BY <2>1, <2>2, <2>3 DEF Record
  <2>4. CASE e \notin busy
    BY <2>1, <2>4
  <2>5. QED BY <2>3, <2>4
<1>4. D \in Table
  BY <1>3 DEF Table
<1> HIDE DEF D
<1>5. Ready(t, D)
  <2>1. Marked(E, D)
    BY <1>3 DEF Marked
  <2>2. QED BY <1>4, <2>1, MarkReady
<1>6. DrainsIn(D, {})
  <2>1. ASSUME NEW e \in busy
        PROVE  E[e].inflight > 0
    <3>1. e \in Engines /\ E[e].inflight # 0
      BY <1>2 DEF Live, Idle
    <3>2. QED BY <3>1, CountIsNat DEF Ready
  <2>2. QED BY <1>3, <2>1 DEF DrainsIn
<1>7. \A v \in chosen \cap Idle(E) :
        /\ ~D[v].terminated /\ D[v].inflight = 0 /\ DrainsIn(D, {v})
  BY <1>3, <1>6 DEF DrainsIn, Idle, Live
<1>8. Awaits(task[t], "clear")
  BY DEF Awaits, Loading, Waiting, Upward, Pc
<1>9. "clear" \in Phase \ {"free", "launch"} /\ chosen \cap Idle(E) \subseteq Engines
  BY <1>2 DEF Phase, Live
<1>10. CASE chosen \cap Idle(E) = {}
  BY <1>1, <1>5, <1>6, <1>10, LeaveInv, Stable
<1>11. CASE chosen \cap Idle(E) # {}
  BY <1>1, <1>5, <1>7, <1>8, <1>9, <1>11, StopInv, Stable DEF Loading
<1>12. QED BY <1>10, <1>11

LEMMA SweepInv ==
  ASSUME EngineInv, NEW t, Owner(t), NEW E, Ready(t, E), DrainsIn(E, {}),
         NEW O \in Order, task[t].pc \in {"release", "enforce"},
         Sweep(t, E, O), UNCHANGED <<maxResident, failures, down>>
  PROVE  EngineInv'
<1>1. CASE Leave(t, E, O)
  BY <1>1, LeaveInv, Stable
<1>2. CASE DrainExcess(t, E, O)
  BY <1>2, DrainExcessInv
<1>3. ASSUME NEW n, NEW V, V = First(n, Evictable(E), O),
             Stop(E, O, "sweep", V, Absent)
      PROVE  EngineInv'
  <2>1. /\ V \subseteq Engines
        /\ \A v \in V : ~E[v].terminated /\ E[v].inflight = 0
    BY <1>3 DEF First, Evictable, Idle, Live
  <2>2. \A v \in V : DrainsIn(E, {v})
    BY DEF DrainsIn
  <2>3. Awaits(task[t], "sweep") /\ "sweep" \in Phase \ {"free", "launch"}
    BY DEF Awaits, Phase, Loading
  <2>4. QED BY <1>3, <2>1, <2>2, <2>3, StopInv, Stable DEF Loading
<1>4. QED BY <1>1, <1>2, <1>3 DEF Sweep

LEMMA AdmitInv ==
  ASSUME EngineInv, NEW t, Owner(t), Ready(t, engine), task[t].pc \in Upward,
         resident[task[t].lid] = NoEngine, registry[task[t].lid] # Absent,
         NEW b \in Bindings \cup {Absent}, Admit(t, b),
         UNCHANGED <<maxResident, failures, down>>
  PROVE  EngineInv'
<1>1. CASE Leave(t, engine, older)
  BY <1>1, LeaveInv, Stable
<1>2. ASSUME NEW s \in Engines, Free(s),
             engine' = [engine EXCEPT ![s] = [NoRecord EXCEPT !.proc = "starting"]],
             section' = [phase |-> "launch", victims |-> {}, subject |-> s,
                         loading |-> b],
             UNCHANGED <<registry, resident, older, task, queue>>
      PROVE  EngineInv'
  <2>0. engine \in Table
    BY Stable
  <2> USE DEF EngineInv
  <2>1. /\ engine'[s].terminated /\ engine'[s].inflight = 0
        /\ engine' \in Table
        /\ \A e \in Engines \ {s} : engine'[e] = engine[e]
    <3> DEFINE r == [NoRecord EXCEPT !.proc = "starting"]
    <3>1. NoRecord \in Record /\ "starting" \in Proc
      BY DEF NoRecord, Record, Proc
    <3>2. r \in Record
      BY <3>1, FieldTypes
    <3>3. r.terminated /\ r.inflight = 0
      BY DEF NoRecord
    <3>4. engine' = [engine EXCEPT ![s] = r]
      BY <1>2
    <3> HIDE DEF r
    <3>5. engine'[s] = r /\ engine' \in Table
          /\ \A e \in Engines \ {s} : engine'[e] = engine[e]
      BY <2>0, <3>2, <3>4 DEF Table
    <3>6. QED BY <3>3, <3>5
  <2>2. \A u \in Tasks : task[u].held # s
    BY <1>2 DEF Free
  <2>3. TypeOK'
    BY <1>2, <2>1 DEF TypeOK, Table, SectionRecord, Phase
  <2>4. TaskInv'
    BY <1>2 DEF TaskInv
  <2>5. SectionInv'
    BY <1>2, <2>1, <2>2 DEF SectionInv, Owner, Awaits, Loading
  <2>6. UseInv'
    <3>1. \A c \in Clients : InUse(c)' => InUse(c) /\ task'[c].held # s
      BY <1>2, <2>2 DEF InUse, Tasks
    <3>2. QED BY <1>2, <2>1, <3>1, UserHolds DEF UseInv
  <2>7. DrainInv' /\ ProcInv'
    BY <2>1 DEF DrainInv, ProcInv
  <2>8. LeasesCounted'
    <3>1. ASSUME NEW e \in Engines
          PROVE  Leases(e)' = Holders(Kept(t), e)
      BY <1>2 DEF Leases, Released, Inside, Holders, Kept, Owner
    <3>2. Holders(Kept(t), s) = {}
      BY <2>2 DEF Holders, Kept, Tasks
    <3>3. QED BY <2>1, <3>1, <3>2, FS_EmptySet DEF LeasesCounted, Ready
  <2>9. engine[s].terminated
    BY <1>2 DEF Free
  <2>10. ListedIffLive'
    BY <1>2, <2>1, <2>9, SetsAssumption DEF ListedIffLive, TypeOK
  <2>11. UnregisteredDrains'
    BY <1>2, <2>1, <2>9, SetsAssumption
       DEF UnregisteredDrains, ListedIffLive, TypeOK
  <2>12. QED BY <2>3, <2>4, <2>5, <2>6, <2>7, <2>8, <2>10, <2>11
<1>3. QED BY <1>1, <1>2 DEF Admit

LEMMA MakeRoomInv ==
  ASSUME EngineInv, NEW t, Owner(t), Ready(t, engine), task[t].pc \in Upward,
         resident[task[t].lid] = NoEngine, registry[task[t].lid] # Absent,
         NEW b \in Bindings \cup {Absent}, MakeRoom(t, b),
         UNCHANGED <<maxResident, failures, down>>
  PROVE  EngineInv'
<1>1. CASE Admit(t, b)
  BY <1>1, AdmitInv
<1>2. ASSUME NEW n, NEW V, V = First(n, Evictable(engine), older),
             Stop(engine, older, "room", V, b)
      PROVE  EngineInv'
  <2>1. /\ V \subseteq Engines
        /\ \A v \in V : ~engine[v].terminated /\ engine[v].inflight = 0
    BY <1>2 DEF First, Evictable, Idle, Live
  <2>2. \A v \in V : DrainsIn(engine, {v})
    BY Stable DEF DrainsIn
  <2>3. Awaits(task[t], "room") /\ "room" \in Phase \ {"free", "launch"}
    BY DEF Awaits, Phase, Loading
  <2>4. QED BY <1>2, <2>1, <2>2, <2>3, StopInv, Stable
<1>3. QED BY <1>1, <1>2 DEF MakeRoom

\* A task that asks for an engine, its id managed or not.
LEMMA EntersUpReady ==
  ASSUME EngineInv, NEW t \in Tasks, EntersUp(t)
  PROVE  /\ Owner(t) /\ Ready(t, engine) /\ task[t].pc \in Upward
         /\ task[t].lid \in Lids
         /\ resident[task[t].lid] \in Engines \cup {NoEngine}
<1>1. /\ "warm" \in Waiting \ {"release"} /\ "acquire" \in Waiting \ {"release"}
  BY DEF Waiting, Pc
<1>2. Owner(t) /\ Ready(t, engine)
  BY <1>1, EntersReady DEF EntersUp
<1>3. task[t].pc \in Upward
  BY DEF EntersUp, Enters, Upward
<1>4. task[t].lid \in Lids
  BY <1>3 DEF EngineInv, TaskInv, Upward, Named
<1>5. QED BY <1>2, <1>3, <1>4 DEF EngineInv, TypeOK

LEMMA NotManagedInv ==
  ASSUME EngineInv, NEW t \in Tasks, NotManaged(t)
  PROVE  EngineInv'
<1>1. task[t].pc # "delete"
  BY EntersUpReady DEF NotManaged, Upward
<1>2. Leave(t, engine, older) /\ UNCHANGED <<maxResident, failures, down>>
  BY DEF NotManaged
<1>3. QED BY <1>1, <1>2, EntersUpReady, LeaveInv, Stable DEF NotManaged

\* A listed engine is live and carries the id it is listed under.
LEMMA Listed ==
  ASSUME EngineInv, NEW l \in Lids, resident[l] # NoEngine
  PROVE  /\ resident[l] \in Engines /\ engine[resident[l]] \in Record
         /\ ~engine[resident[l]].terminated /\ engine[resident[l]].lid = l
         /\ engine[resident[l]].inflight \in Nat
<1>1. resident[l] \in Engines /\ engine[resident[l]] \in Record
  BY DEF EngineInv, TypeOK
<1>2. ~engine[resident[l]].terminated /\ engine[resident[l]].lid = l
  BY DEF EngineInv, ListedIffLive
<1>3. IsFiniteSet(Leases(resident[l]))
  BY SetsAssumption, FS_Subset DEF Leases
<1>4. engine[resident[l]].inflight \in Nat
  BY <1>1, <1>3, FS_CardinalityType DEF EngineInv, LeasesCounted
<1>5. QED BY <1>1, <1>2, <1>4

LEMMA ReuseInv ==
  ASSUME EngineInv, NEW t \in Tasks, Reuse(t)
  PROVE  EngineInv'
<1> DEFINE l == task[t].lid
           w == resident[l]
           r == [engine[w] EXCEPT !.expired = FALSE, !.draining = FALSE]
           E == [engine EXCEPT ![w] = r]
<1>1. /\ Owner(t) /\ Ready(t, engine) /\ task[t].pc \in Upward /\ l \in Lids
      /\ w \in Engines /\ engine[w] \in Record
      /\ ~engine[w].terminated /\ engine[w].lid = l
  BY EntersUpReady, Listed DEF Reuse, Wanted
<1>2. engine \in Table /\ older \in Order /\ DrainsIn(engine, {})
  BY Stable
<1>3. /\ r \in Record /\ r.terminated = engine[w].terminated
      /\ r.lid = engine[w].lid /\ r.proc = engine[w].proc
      /\ r.inflight = engine[w].inflight /\ ~r.draining
  BY <1>1 DEF Record
<1>4. [Fresh(engine, w) EXCEPT ![w].draining = FALSE] = E
  BY <1>1, <1>2 DEF Fresh, Table, Record
<1>5. Serve(t, E, older, w)
  BY <1>4 DEF Reuse, Wanted
<1> HIDE DEF r
<1>6. /\ E \in Table /\ E[w] = r
      /\ \A e \in Engines \ {w} : E[e] = engine[e]
  BY <1>1, <1>2, <1>3 DEF Table
<1> HIDE DEF E
<1>7. DrainsIn(E, {})
  BY <1>2, <1>3, <1>6 DEF DrainsIn
<1>8. UNCHANGED <<maxResident, resident, failures, down>>
  BY DEF Reuse
<1>9. resident \in [Lids -> Engines \cup {NoEngine}] /\ failures \subseteq Lids
  BY DEF EngineInv, TypeOK
<1>10. ASSUME NEW x \in Engines
       PROVE  /\ ~engine[x].terminated => ~E[x].terminated
              /\ ~E[x].terminated => /\ E[x].lid \in Lids
                                     /\ resident[E[x].lid] = x
                                     /\ E[x].proc \in {"up", "off"}
              /\ E[x].inflight = Cardinality(Holders(Kept(t), x))
  BY <1>1, <1>3, <1>6 DEF Ready, EngineInv, ListedIffLive, ProcInv
<1>11. ASSUME NEW k \in Lids, resident[k] # NoEngine
       PROVE  /\ ~E[resident[k]].terminated /\ E[resident[k]].lid = k
              /\ registry[k] = Absent => E[resident[k]].draining
  <2>1. registry[l] # Absent
    BY SetsAssumption DEF Reuse
  <2>2. resident[k] = w => k = l
    BY <1>1, <1>11 DEF EngineInv, ListedIffLive
  <2>3. resident[k] \in Engines
    BY <1>9, <1>11
  <2>4. QED BY <1>1, <1>3, <1>6, <1>11, <2>1, <2>2, <2>3
            DEF EngineInv, ListedIffLive, UnregisteredDrains
<1>12. ~E[w].terminated /\ ~E[w].draining
  BY <1>1, <1>3, <1>6
<1> HIDE DEF w, l
<1>13. /\ resident' \in [Lids -> Engines \cup {NoEngine}]
       /\ maxResident' = maxResident /\ down' = down /\ failures' \subseteq Lids
  BY <1>8, <1>9
<1>14. \A x \in Engines :
         /\ ~engine[x].terminated => ~E[x].terminated
         /\ ~E[x].terminated => /\ E[x].lid \in Lids
                                /\ resident'[E[x].lid] = x
                                /\ E[x].proc \in {"up", "off"}
         /\ E[x].inflight = Cardinality(Holders(Kept(t), x))
  BY <1>8, <1>10
<1>15. \A k \in Lids :
         resident'[k] # NoEngine =>
           /\ ~E[resident'[k]].terminated /\ E[resident'[k]].lid = k
           /\ registry[k] = Absent => E[resident'[k]].draining
  BY <1>8, <1>11
<1>16. QED BY <1>1, <1>2, <1>5, <1>6, <1>7, <1>12, <1>13, <1>14, <1>15, ServeInv

LEMMA ReplaceInv ==
  ASSUME EngineInv, NEW t \in Tasks, Replace(t)
  PROVE  EngineInv'
<1> DEFINE l == task[t].lid
           w == resident[l]
           F == [engine EXCEPT ![w].failed = TRUE]
           G == [F EXCEPT ![w].draining = TRUE]
<1>1. /\ Owner(t) /\ Ready(t, engine) /\ task[t].pc \in Upward /\ l \in Lids
      /\ w \in Engines /\ engine[w] \in Record
      /\ ~engine[w].terminated /\ engine[w].lid = l
      /\ engine[w].inflight \in Nat
  BY EntersUpReady, Listed DEF Replace, Wanted
<1>2. engine \in Table /\ older \in Order /\ DrainsIn(engine, {})
  BY Stable
<1>3. failures' \subseteq Lids /\ maxResident' = maxResident /\ down' = down
  BY <1>1, Stable DEF Replace
<1>4. registry[l] \in Bindings
  BY DEF Replace
<1>5. \/ F[w].inflight > 0 /\ Leave(t, G, older)
      \/ ~(F[w].inflight > 0) /\ Stop(F, older, "replace", {w}, registry[l])
  BY DEF Replace, Wanted
<1>6. /\ F \in Table /\ F[w] \in Record
      /\ F[w].terminated = engine[w].terminated /\ F[w].lid = engine[w].lid
      /\ F[w].proc = engine[w].proc /\ F[w].inflight = engine[w].inflight
      /\ F[w].draining = engine[w].draining
      /\ \A e \in Engines \ {w} : F[e] = engine[e]
  BY <1>1, <1>2 DEF Table, Record
<1> HIDE DEF F
<1>7. /\ G \in Table
      /\ G[w].terminated = F[w].terminated /\ G[w].lid = F[w].lid
      /\ G[w].proc = F[w].proc /\ G[w].inflight = F[w].inflight
      /\ G[w].draining
      /\ \A e \in Engines \ {w} : G[e] = F[e]
  BY <1>1, <1>6 DEF Table, Record
<1> HIDE DEF G
<1>8. Ready(t, F) /\ Ready(t, G)
  <2> HIDE DEF w
  <2>1. Marked(engine, F)
    BY <1>6, MarkOne
  <2>2. Marked(F, G)
    BY <1>7, MarkOne
  <2>3. QED BY <1>1, <1>6, <1>7, <2>1, <2>2, MarkReady
<1>9. CASE F[w].inflight > 0 /\ Leave(t, G, older)
  <2>1. DrainsIn(G, {})
    BY <1>2, <1>6, <1>7, <1>9 DEF DrainsIn
  <2>2. task[t].pc # "delete"
    BY <1>1 DEF Upward
  <2> HIDE DEF w, l
  <2>3. QED BY <1>1, <1>2, <1>3, <1>8, <1>9, <2>1, <2>2, LeaveInv
<1>10. CASE ~(F[w].inflight > 0) /\ Stop(F, older, "replace", {w}, registry[l])
  <2>1. DrainsIn(F, {w})
    BY <1>2, <1>6 DEF DrainsIn
  <2>2. F[w].inflight = 0 /\ ~F[w].terminated
    <3>1. F[w].inflight \in Nat /\ ~F[w].terminated
      BY <1>1, <1>6
    <3> HIDE DEF w, l
    <3>2. QED BY <1>10, <3>1
  <2>3. Awaits(task[t], "replace") /\ "replace" \in Phase \ {"free", "launch"}
    BY <1>1, <1>4, SetsAssumption DEF Awaits, Phase, Loading
  <2>4. {w} \in SUBSET Engines /\ registry[l] \in Bindings \cup {Absent}
    BY <1>1, <1>4
  <2>5. \A v \in {w} : /\ ~F[v].terminated /\ (F[v].inflight = 0 \/ down)
                       /\ DrainsIn(F, {v})
    BY <2>1, <2>2
  <2>6. {w} = {resident[task[t].lid]}
    OBVIOUS
  <2> HIDE DEF w, l
  <2>7. QED BY <1>1, <1>2, <1>3, <1>8, <1>10, <2>3, <2>4, <2>5, <2>6, StopInv
<1>11. QED BY <1>5, <1>9, <1>10

LEMMA LoadInv ==
  ASSUME EngineInv, NEW t \in Tasks, Load(t)
  PROVE  EngineInv'
<1>1. registry[task[t].lid] \in Bindings /\ registry[task[t].lid] # Absent
      /\ resident[task[t].lid] = NoEngine
  BY SetsAssumption DEF Load, Wanted
<1>2. MakeRoom(t, registry[task[t].lid]) /\ UNCHANGED <<maxResident, failures, down>>
  BY DEF Load
<1>3. QED BY <1>1, <1>2, EntersUpReady, MakeRoomInv DEF Load

\* What holds when the processes awaited in a loading phase have ended.
LEMMA LoadingFacts ==
  ASSUME EngineInv, NEW t \in Tasks, Inside(t), section.phase \in Loading
  PROVE  /\ Owner(t) /\ Ready(t, engine) /\ task[t].pc \in Upward
         /\ registry[task[t].lid] # Absent /\ resident[task[t].lid] = NoEngine
         /\ task[t].lid \in Lids
         /\ section.loading \in Bindings \cup {Absent}
         /\ section.subject \in Engines /\ engine[section.subject].terminated
<1>1. Owner(t) /\ Ready(t, engine)
  BY InsideReady
<1>2. /\ Awaits(task[t], section.phase) /\ resident[task[t].lid] = NoEngine
      /\ section.subject \in Engines /\ engine[section.subject].terminated
  BY DEF Inside, EngineInv, SectionInv
<1>3. task[t].pc \in Upward /\ registry[task[t].lid] # Absent
  BY <1>2 DEF Awaits
<1>4. task[t].lid \in Lids
  BY <1>3 DEF EngineInv, TaskInv, Upward, Named
<1>5. section.loading \in Bindings \cup {Absent}
  BY DEF EngineInv, TypeOK, SectionRecord
<1>6. QED BY <1>1, <1>2, <1>3, <1>4, <1>5

LEMMA AfterReplaceInv ==
  ASSUME EngineInv, NEW t \in Tasks, AfterReplace(t)
  PROVE  EngineInv'
<1>1. Inside(t) /\ section.phase \in Loading
  BY DEF AfterReplace, Resumes, Loading
<1>2. MakeRoom(t, section.loading) /\ UNCHANGED <<maxResident, failures, down>>
  BY DEF AfterReplace
<1>3. QED BY <1>1, <1>2, LoadingFacts, MakeRoomInv

LEMMA AfterRoomInv ==
  ASSUME EngineInv, NEW t \in Tasks, AfterRoom(t)
  PROVE  EngineInv'
<1>1. Inside(t) /\ section.phase \in Loading
  BY DEF AfterRoom, Resumes, Loading
<1>2. Admit(t, section.loading) /\ UNCHANGED <<maxResident, failures, down>>
  BY DEF AfterRoom
<1>3. QED BY <1>1, <1>2, LoadingFacts, AdmitInv

LEMMA LaunchFailsInv ==
  ASSUME EngineInv, NEW t \in Tasks, LaunchFails(t)
  PROVE  EngineInv'
<1>1. Inside(t) /\ section.phase \in Loading
  BY DEF LaunchFails, Launching, Loading
<1> DEFINE s == section.subject
<1>2. PICK p \in {"off", "stopping"} :
        Leave(t, [engine EXCEPT ![s].proc = p], older)
  BY DEF LaunchFails
<1> DEFINE E == [engine EXCEPT ![s].proc = p]
<1>3. /\ Owner(t) /\ Ready(t, engine) /\ task[t].pc \in Upward
      /\ s \in Engines /\ engine[s].terminated
  BY <1>1, LoadingFacts
<1>4. engine \in Table /\ older \in Order /\ DrainsIn(engine, {})
      /\ failures \subseteq Lids
  BY Stable
<1>5. /\ E \in Table /\ E[s].terminated /\ E[s].lid = engine[s].lid
      /\ E[s].draining = engine[s].draining
      /\ E[s].inflight = engine[s].inflight
      /\ \A e \in Engines \ {s} : E[e] = engine[e]
  BY <1>3, <1>4 DEF Table, Record, Proc
<1>6. Leave(t, E, older) /\ UNCHANGED <<maxResident, failures, down>>
  BY <1>2 DEF LaunchFails
<1> HIDE DEF E
<1>7. Ready(t, E)
  <2>1. ASSUME NEW e \in Engines
        PROVE  /\ E[e].terminated = engine[e].terminated /\ E[e].lid = engine[e].lid
               /\ ~E[e].terminated => E[e].proc = engine[e].proc
               /\ engine[e].draining => E[e].draining
               /\ E[e].inflight = engine[e].inflight
    <3>1. engine[e].terminated \in BOOLEAN /\ E[e].terminated \in BOOLEAN
      BY <1>4, <1>5 DEF Table, Record
    <3>2. CASE e = s
      BY <1>3, <1>5, <3>1, <3>2
    <3>3. CASE e # s
      BY <1>5, <3>3
    <3>4. QED BY <3>2, <3>3
  <2>2. QED BY <1>3, <1>5, <2>1 DEF Ready
<1>8. DrainsIn(E, {})
  BY <1>4, <1>5 DEF DrainsIn
<1>9. task[t].pc # "delete"
  BY <1>3 DEF Upward
<1>10. QED BY <1>3, <1>4, <1>6, <1>7, <1>8, <1>9, LeaveInv

LEMMA LaunchOkInv ==
  ASSUME EngineInv, NEW t \in Tasks, LaunchOk(t)
  PROVE  EngineInv'
<1> DEFINE s == section.subject
           l == task[t].lid
           r == Spawned(l, section.loading)
           E == [engine EXCEPT ![s] = r]
<1>1. Inside(t) /\ section.phase = "launch" /\ section.phase \in Loading
  BY DEF LaunchOk, Launching, Loading
<1>2. /\ Owner(t) /\ Ready(t, engine) /\ task[t].pc \in Upward
      /\ s \in Engines /\ engine[s].terminated /\ l \in Lids
      /\ resident[l] = NoEngine /\ registry[l] # Absent
      /\ section.loading \in Bindings \cup {Absent}
  BY <1>1, LoadingFacts
<1>3. /\ engine \in Table /\ older \in Order /\ DrainsIn(engine, {})
      /\ failures \subseteq Lids
  BY Stable
<1>4. /\ r \in Record /\ ~r.terminated /\ ~r.draining /\ r.inflight = 0
      /\ r.lid = l /\ r.proc = "up"
  BY <1>2 DEF Spawned, Record, Proc
<1>5. Serve(t, E, older, s)
  BY DEF LaunchOk
<1>6. /\ resident' = [resident EXCEPT ![l] = s] /\ failures' = failures \ {l}
      /\ maxResident' = maxResident /\ down' = down
  BY DEF LaunchOk
<1> HIDE DEF r
<1>7. E \in Table /\ E[s] = r /\ \A e \in Engines \ {s} : E[e] = engine[e]
  BY <1>2, <1>3, <1>4 DEF Table
<1> HIDE DEF E
<1>8. /\ resident \in [Lids -> Engines \cup {NoEngine}]
      /\ resident' \in [Lids -> Engines \cup {NoEngine}]
      /\ resident'[l] = s /\ \A k \in Lids \ {l} : resident'[k] = resident[k]
  BY <1>2, <1>6 DEF EngineInv, TypeOK
<1>9. DrainsIn(E, {})
  BY <1>3, <1>4, <1>7 DEF DrainsIn
<1>10. ASSUME NEW x \in Engines
       PROVE  /\ ~engine[x].terminated => ~E[x].terminated
              /\ ~E[x].terminated => /\ E[x].lid \in Lids
                                     /\ resident'[E[x].lid] = x
                                     /\ E[x].proc \in {"up", "off"}
              /\ E[x].inflight = Cardinality(Holders(Kept(t), x))
  <2>1. CASE x = s
    <3>1. \A u \in Tasks : task[u].held # s
      BY <1>1 DEF EngineInv, SectionInv
    <3>2. Holders(Kept(t), s) = {}
      BY <3>1 DEF Holders, Kept, Tasks
    <3>3. QED BY <1>2, <1>4, <1>7, <1>8, <2>1, <3>2, FS_EmptySet
  <2>2. CASE x # s
    <3>1. E[x] = engine[x] /\ engine[x].inflight = Cardinality(Holders(Kept(t), x))
      BY <1>2, <1>7, <2>2 DEF Ready
    <3>2. ~engine[x].terminated =>
            /\ engine[x].lid \in Lids /\ resident[engine[x].lid] = x
            /\ engine[x].proc \in {"up", "off"}
      BY DEF EngineInv, ListedIffLive, ProcInv
    <3>3. x # NoEngine
      BY SetsAssumption
    <3>4. QED BY <1>2, <1>8, <3>1, <3>2, <3>3
  <2>3. QED BY <2>1, <2>2
<1>11. ASSUME NEW k \in Lids, resident'[k] # NoEngine
       PROVE  /\ ~E[resident'[k]].terminated /\ E[resident'[k]].lid = k
              /\ registry[k] = Absent => E[resident'[k]].draining
  <2>1. CASE k = l
    BY <1>2, <1>4, <1>7, <1>8, <2>1
  <2>2. CASE k # l
    <3>1. resident'[k] = resident[k] /\ resident[k] \in Engines
      BY <1>8, <1>11, <2>2
    <3>2. /\ ~engine[resident[k]].terminated /\ engine[resident[k]].lid = k
          /\ registry[k] = Absent => engine[resident[k]].draining
      BY <1>11, <3>1 DEF EngineInv, ListedIffLive, UnregisteredDrains
    <3>3. QED BY <1>2, <1>7, <3>1, <3>2
  <2>3. QED BY <2>1, <2>2
<1>12. ~E[s].terminated /\ ~E[s].draining /\ failures' \subseteq Lids
  BY <1>3, <1>4, <1>6, <1>7
<1> HIDE DEF s, l
<1>13. QED BY <1>2, <1>3, <1>5, <1>6, <1>7, <1>8, <1>9, <1>10, <1>11, <1>12,
              ServeInv

LEMMA ReleaseInv ==
  ASSUME EngineInv, NEW t \in Tasks, Release(t)
  PROVE  EngineInv'
<1> DEFINE e == task[t].held
           q == [engine[e] EXCEPT !.expired = FALSE]
           r == [q EXCEPT !.inflight = @ - 1]
           E == [engine EXCEPT ![e] = r]
           O == IF engine[e].terminated THEN older ELSE Touch(older, e)
<1>1. Enters(t, "release") /\ UNCHANGED <<maxResident, failures, down>>
  BY DEF Release
<1>2. /\ t \in Clients /\ e \in Engines /\ task[t].pc = "release"
      /\ queue # <<>> /\ t = Head(queue)
  BY <1>1 DEF Enters, EngineInv, TaskInv, Leasing
<1>3. Owner(t)
  BY <1>2 DEF Owner, Waiting, Pc
<1>4. /\ engine \in Table /\ older \in Order /\ DrainsIn(engine, {})
      /\ failures \subseteq Lids /\ engine[e] \in Record
  BY <1>2, Stable DEF Table
<1>5. /\ r \in Record /\ r.terminated = engine[e].terminated
      /\ r.lid = engine[e].lid /\ r.proc = engine[e].proc
      /\ r.draining = engine[e].draining
      /\ r.inflight = engine[e].inflight - 1
  <2>1. /\ q \in Record /\ q.terminated = engine[e].terminated
        /\ q.lid = engine[e].lid /\ q.proc = engine[e].proc
        /\ q.draining = engine[e].draining /\ q.inflight = engine[e].inflight
    BY <1>4 DEF Record
  <2> HIDE DEF q
  <2>2. r \in Record
    BY <2>1, FieldTypes
  <2>3. QED BY <2>1, <2>2 DEF Record
<1>6. [Fresh(engine, e) EXCEPT ![e].inflight = @ - 1] = E
  BY <1>2, <1>4 DEF Fresh, Table, Record
<1>7. IF E[e].draining /\ E[e].inflight = 0 /\ ~E[e].terminated
        THEN Stop(E, O, "retire", {resident[E[e].lid]}, Absent)
        ELSE IF E[e].inflight = 0 THEN Sweep(t, E, O) ELSE Leave(t, E, O)
  BY <1>6 DEF Release
<1>8. O \in Order
  BY <1>2, <1>4 DEF Touch, Order, Live
<1> HIDE DEF r, O
<1>9. E \in Table /\ E[e] = r /\ \A x \in Engines \ {e} : E[x] = engine[x]
  BY <1>2, <1>4, <1>5 DEF Table
<1> HIDE DEF E
<1>10. ASSUME NEW x \in Engines
       PROVE  /\ IsFiniteSet(Leases(x)) /\ Cardinality(Leases(x)) \in Nat
              /\ engine[x].inflight = Cardinality(Leases(x))
              /\ Leases(x) = {c \in Clients : task[c].held = x}
  <2>1. IsFiniteSet(Leases(x))
    BY SetsAssumption, FS_Subset DEF Leases
  <2>2. Leases(x) = {c \in Clients : task[c].held = x}
    BY <1>1 DEF Leases, Released, Inside, Enters
  <2>3. QED BY <2>1, <2>2, FS_CardinalityType DEF EngineInv, LeasesCounted
<1>11. ASSUME NEW x \in Engines
       PROVE  E[x].inflight = Cardinality(Holders(Kept(t), x))
  <2>1. Holders(Kept(t), x) = Leases(x) \ {t}
    BY <1>2, <1>10 DEF Holders, Kept
  <2>2. CASE x = e
    <3>1. t \in Leases(x)
      BY <1>2, <1>10, <2>2
    <3>2. Cardinality(Leases(x) \ {t}) = Cardinality(Leases(x)) - 1
      BY <1>10, <3>1, FS_RemoveElement
    <3>3. QED BY <1>5, <1>9, <1>10, <2>1, <2>2, <3>2
  <2>3. CASE x # e
    <3>1. t \notin Leases(x)
      BY <1>2, <1>10, <2>3
    <3>2. Leases(x) \ {t} = Leases(x)
      BY <3>1
    <3>3. QED BY <1>9, <1>10, <2>1, <2>3, <3>2
  <2>4. QED BY <2>2, <2>3
<1>12. Ready(t, E)
  <2>1. ASSUME NEW x \in Engines
        PROVE  /\ E[x].terminated = engine[x].terminated /\ E[x].lid = engine[x].lid
               /\ E[x].proc = engine[x].proc
               /\ E[x].draining = engine[x].draining
    BY <1>5, <1>9
  <2>2. QED BY <1>9, <1>11, <2>1 DEF Ready
<1>13. DrainsIn(E, {e})
  BY <1>4, <1>9 DEF DrainsIn
<1>14. E[e].inflight \in Nat
  BY <1>2, <1>11, CountIsNat
<1>15. CASE /\ E[e].draining /\ E[e].inflight = 0 /\ ~E[e].terminated
            /\ Stop(E, O, "retire", {resident[E[e].lid]}, Absent)
  <2>1. ~engine[e].terminated
    BY <1>5, <1>9, <1>15
  <2>2. resident[E[e].lid] = e
    BY <1>2, <1>5, <1>9, <2>1 DEF EngineInv, ListedIffLive
  <2>3. Awaits(task[t], "retire") /\ "retire" \in Phase \ {"free", "launch"}
        /\ "retire" \notin Loading /\ task[t].pc # "delete"
    BY <1>2 DEF Awaits, Loading, Phase
  <2>4. \A v \in {e} : /\ ~E[v].terminated /\ (E[v].inflight = 0 \/ down)
                       /\ DrainsIn(E, {v})
    BY <1>13, <1>15
  <2>5. Stop(E, O, "retire", {e}, Absent) /\ {e} \in SUBSET Engines
    BY <1>2, <1>15, <2>2
  <2>6. QED BY <1>1, <1>3, <1>4, <1>8, <1>12, <2>3, <2>4, <2>5, StopInv
<1>16. ASSUME ~(E[e].draining /\ E[e].inflight = 0 /\ ~E[e].terminated)
       PROVE  DrainsIn(E, {})
  BY <1>13, <1>14, <1>16 DEF DrainsIn
<1>17. CASE /\ ~(E[e].draining /\ E[e].inflight = 0 /\ ~E[e].terminated)
            /\ Sweep(t, E, O)
  BY <1>1, <1>2, <1>3, <1>8, <1>12, <1>16, <1>17, SweepInv
<1>18. CASE /\ ~(E[e].draining /\ E[e].inflight = 0 /\ ~E[e].terminated)
            /\ Leave(t, E, O)
  BY <1>1, <1>2, <1>3, <1>4, <1>8, <1>12, <1>16, <1>18, LeaveInv
<1>19. QED BY <1>7, <1>15, <1>17, <1>18

LEMMA AfterRetireInv ==
  ASSUME EngineInv, NEW t \in Tasks, AfterRetire(t)
  PROVE  EngineInv'
<1>1. Inside(t) /\ section.phase = "retire"
  BY DEF AfterRetire, Resumes
<1>2. task[t].pc = "release"
  BY <1>1 DEF EngineInv, SectionInv, Awaits, Inside
<1>3. Sweep(t, engine, older) /\ UNCHANGED <<maxResident, failures, down>>
  BY DEF AfterRetire
<1>4. QED BY <1>1, <1>2, <1>3, InsideReady, Stable, SweepInv

LEMMA EnforceCeilingInv ==
  ASSUME EngineInv, NEW t \in Tasks, EnforceCeiling(t)
  PROVE  EngineInv'
<1>1. Enters(t, "enforce") /\ task[t].pc = "enforce"
  BY DEF EnforceCeiling, Enters
<1>2. "enforce" \in Waiting \ {"release"}
  BY DEF Waiting, Pc
<1>3. Sweep(t, engine, older) /\ UNCHANGED <<maxResident, failures, down>>
  BY DEF EnforceCeiling
<1>4. QED BY <1>1, <1>2, <1>3, EntersReady, Stable, SweepInv

LEMMA AfterSweepInv ==
  ASSUME EngineInv, NEW t \in Tasks, AfterSweep(t)
  PROVE  EngineInv'
<1>1. Inside(t) /\ section.phase = "sweep"
  BY DEF AfterSweep, Resumes
<1>2. task[t].pc \in {"release", "enforce"}
  BY <1>1 DEF EngineInv, SectionInv, Awaits, Inside
<1>3. DrainExcess(t, engine, older) /\ UNCHANGED <<maxResident, failures, down>>
  BY DEF AfterSweep
<1>4. QED BY <1>1, <1>2, <1>3, InsideReady, Stable, DrainExcessInv

\* The three operations that stop engines and have nothing to do afterwards.
LEMMA ClearInv ==
  ASSUME EngineInv, NEW t, Owner(t), NEW E, Ready(t, E),
         task[t].pc \notin Upward, NEW V \in SUBSET Engines,
         Stop(E, older, "clear", V, Absent),
         maxResident' = maxResident, down' = down, failures' \subseteq Lids,
         \A v \in V : /\ ~E[v].terminated /\ (E[v].inflight = 0 \/ down)
                      /\ DrainsIn(E, {v}),
         task[t].pc = "delete" => V = {resident[task[t].lid]}
  PROVE  EngineInv'
<1>1. /\ Awaits(task[t], "clear") /\ "clear" \in Phase \ {"free", "launch"}
      /\ "clear" \notin Loading
  BY DEF Awaits, Phase, Loading, Owner
<1>2. QED BY <1>1, Stable, StopInv

LEMMA EvictInv ==
  ASSUME EngineInv, NEW t \in Tasks, Evict(t)
  PROVE  EngineInv'
<1> DEFINE e == resident[task[t].lid]
           E == [engine EXCEPT ![e].draining = TRUE]
<1>1. /\ Enters(t, "evict") \/ Enters(t, "delete")
      /\ UNCHANGED <<maxResident, failures, down>>
      /\ \/ e = NoEngine /\ Leave(t, engine, older)
         \/ e # NoEngine /\ engine[e].inflight > 0 /\ Leave(t, E, older)
         \/ /\ e # NoEngine /\ ~(engine[e].inflight > 0)
            /\ Stop(engine, older, "clear", {e}, Absent)
  BY DEF Evict
<1>2. /\ "evict" \in Waiting \ {"release"} /\ "delete" \in Waiting \ {"release"}
      /\ task[t].pc \in {"evict", "delete"}
  BY <1>1 DEF Waiting, Pc, Enters
<1>3. Owner(t) /\ Ready(t, engine) /\ task[t].pc \notin Upward
  BY <1>1, <1>2, EntersReady DEF Upward
<1>4. task[t].lid \in Lids
  BY <1>2 DEF EngineInv, TaskInv, Named
<1>5. CASE e = NoEngine /\ Leave(t, engine, older)
  BY <1>1, <1>3, <1>5, LeaveInv, Stable
<1>6. CASE e # NoEngine /\ engine[e].inflight > 0 /\ Leave(t, E, older)
  <2>1. e \in Engines /\ engine[e] \in Record
    BY <1>4, <1>6, Listed
  <2>2. /\ E \in Table /\ E[e].draining
        /\ E[e].terminated = engine[e].terminated /\ E[e].lid = engine[e].lid
        /\ E[e].proc = engine[e].proc /\ E[e].inflight = engine[e].inflight
        /\ \A x \in Engines \ {e} : E[x] = engine[x]
    BY <2>1, Stable DEF Table, Record
  <2> HIDE DEF E
  <2>3. Ready(t, E)
    BY <1>3, <2>2, MarkOne, MarkReady
  <2>4. DrainsIn(E, {})
    BY <1>6, <2>2, Stable DEF DrainsIn
  <2>5. QED BY <1>1, <1>3, <1>6, <2>2, <2>3, <2>4, LeaveInv, Stable
<1>7. CASE /\ e # NoEngine /\ ~(engine[e].inflight > 0)
           /\ Stop(engine, older, "clear", {e}, Absent)
  <2>1. /\ e \in Engines /\ ~engine[e].terminated /\ engine[e].inflight = 0
    BY <1>4, <1>7, Listed
  <2>2. \A v \in {e} : /\ ~engine[v].terminated /\ (engine[v].inflight = 0 \/ down)
                       /\ DrainsIn(engine, {v})
    BY <2>1, Stable DEF DrainsIn
  <2>3. /\ {e} \in SUBSET Engines /\ {e} = {resident[task[t].lid]}
        /\ maxResident' = maxResident /\ down' = down /\ failures' \subseteq Lids
    BY <1>1, <2>1, Stable
  <2> HIDE DEF e
  <2>4. QED BY <1>3, <1>7, <2>2, <2>3, ClearInv
<1>8. QED BY <1>1, <1>5, <1>6, <1>7

LEMMA MarkFailedInv ==
  ASSUME EngineInv, NEW t \in Tasks, MarkFailed(t)
  PROVE  EngineInv'
<1> DEFINE l == task[t].lid
           e == resident[l]
           F == [engine EXCEPT ![e].failed = TRUE]
           G == [F EXCEPT ![e].draining = TRUE]
<1>1. /\ Enters(t, "mark") /\ failures' = failures \cup {l}
      /\ maxResident' = maxResident /\ down' = down
      /\ \/ e = NoEngine /\ Leave(t, engine, older)
         \/ e # NoEngine /\ engine[e].inflight > 0 /\ Leave(t, G, older)
         \/ /\ e # NoEngine /\ ~(engine[e].inflight > 0)
            /\ Stop(F, older, "clear", {e}, Absent)
  BY DEF MarkFailed
<1>2. "mark" \in Waiting \ {"release"} /\ task[t].pc = "mark"
  BY <1>1 DEF Waiting, Pc, Enters
<1>3. /\ Owner(t) /\ Ready(t, engine) /\ task[t].pc \notin Upward
      /\ task[t].pc # "delete"
  BY <1>1, <1>2, EntersReady DEF Upward
<1>4. l \in Lids /\ failures' \subseteq Lids
  BY <1>1, <1>2, Stable DEF EngineInv, TaskInv, Named
<1>5. CASE e = NoEngine /\ Leave(t, engine, older)
  BY <1>1, <1>3, <1>4, <1>5, LeaveInv, Stable
<1>6. ASSUME e # NoEngine
      PROVE  /\ e \in Engines /\ ~engine[e].terminated
             /\ engine[e].inflight \in Nat
             /\ F \in Table /\ F[e].draining = engine[e].draining
             /\ F[e].terminated = engine[e].terminated
             /\ F[e].lid = engine[e].lid
             /\ F[e].proc = engine[e].proc /\ F[e].inflight = engine[e].inflight
             /\ \A x \in Engines \ {e} : F[x] = engine[x]
  <2>1. /\ e \in Engines /\ engine[e] \in Record /\ ~engine[e].terminated
        /\ engine[e].inflight \in Nat
    BY <1>4, <1>6, Listed
  <2>2. QED BY <2>1, Stable DEF Table, Record
<1> HIDE DEF F
<1>7. e # NoEngine => Ready(t, F)
  BY <1>3, <1>6, MarkOne, MarkReady
<1>8. CASE e # NoEngine /\ engine[e].inflight > 0 /\ Leave(t, G, older)
  <2>1. /\ G \in Table /\ G[e].draining
        /\ G[e].terminated = F[e].terminated /\ G[e].lid = F[e].lid
        /\ G[e].proc = F[e].proc /\ G[e].inflight = F[e].inflight
        /\ \A x \in Engines \ {e} : G[x] = F[x]
    <3>1. e \in Engines /\ F \in Table /\ F[e] \in Record
      BY <1>6, <1>8 DEF Table
    <3> HIDE DEF e
    <3> DEFINE r == [F[e] EXCEPT !.draining = TRUE]
    <3>2. /\ r \in Record /\ r.draining
          /\ r.terminated = F[e].terminated /\ r.lid = F[e].lid
          /\ r.proc = F[e].proc /\ r.inflight = F[e].inflight
      BY <3>1 DEF Record
    <3>3. G = [F EXCEPT ![e] = r]
      BY <3>1 DEF Table
    <3> HIDE DEF r, G
    <3>4. G[e] = r /\ \A x \in Engines \ {e} : G[x] = F[x]
      BY <3>1, <3>3 DEF Table
    <3>5. G \in Table
      BY <3>1, <3>2, <3>3, TableUpdate
    <3>6. QED BY <3>2, <3>4, <3>5
  <2> HIDE DEF G
  <2>2. Ready(t, G)
    <3> HIDE DEF e
    <3>1. Marked(F, G)
      BY <2>1, MarkOne
    <3>2. QED BY <1>7, <1>8, <2>1, <3>1, MarkReady
  <2>3. DrainsIn(G, {})
    <3> HIDE DEF e
    <3>1. DrainsIn(engine, {}) /\ G[e].inflight > 0
      BY <1>6, <1>8, <2>1, Stable
    <3>2. \A x \in Engines \ {e} : G[x] = engine[x]
      BY <1>6, <1>8, <2>1
    <3>3. QED BY <3>1, <3>2 DEF DrainsIn
  <2>4. QED BY <1>1, <1>3, <1>4, <1>8, <2>2, <2>3, LeaveInv, Stable
<1>9. CASE /\ e # NoEngine /\ ~(engine[e].inflight > 0)
           /\ Stop(F, older, "clear", {e}, Absent)
  <2>1. \A v \in {e} : /\ ~F[v].terminated /\ (F[v].inflight = 0 \/ down)
                       /\ DrainsIn(F, {v})
    BY <1>6, <1>9, Stable DEF DrainsIn
  <2>2. Ready(t, F) /\ {e} \in SUBSET Engines
    BY <1>6, <1>7, <1>9
  <2> HIDE DEF e, l
  <2>3. QED BY <1>1, <1>3, <1>4, <1>9, <2>1, <2>2, ClearInv
<1>10. QED BY <1>1, <1>5, <1>8, <1>9

LEMMA ReapInv ==
  ASSUME EngineInv, NEW t \in Tasks, Reap(t)
  PROVE  EngineInv'
<1> DEFINE stale == {e \in Idle(engine) : engine[e].expired
                                          /\ engine[e].binding \notin KeepWarm}
<1>1. /\ Enters(t, "reap") /\ UNCHANGED <<maxResident, failures, down>>
      /\ \/ Leave(t, engine, older)
         \/ Stop(engine, older, "clear", stale, Absent)
  BY DEF Reap
<1>2. "reap" \in Waiting \ {"release"} /\ task[t].pc = "reap"
  BY <1>1 DEF Waiting, Pc, Enters
<1>3. /\ Owner(t) /\ Ready(t, engine) /\ task[t].pc \notin Upward
      /\ task[t].pc # "delete"
  BY <1>1, <1>2, EntersReady DEF Upward
<1>4. /\ stale \in SUBSET Engines
      /\ \A v \in stale : /\ ~engine[v].terminated
                          /\ (engine[v].inflight = 0 \/ down)
                          /\ DrainsIn(engine, {v})
  BY Stable DEF Idle, Live, DrainsIn
<1> HIDE DEF stale
<1>5. CASE Leave(t, engine, older)
  BY <1>1, <1>3, <1>5, LeaveInv, Stable
<1>6. CASE Stop(engine, older, "clear", stale, Absent)
  BY <1>1, <1>3, <1>4, <1>6, ClearInv, Stable
<1>7. QED BY <1>1, <1>5, <1>6

LEMMA ShutdownInv ==
  ASSUME EngineInv, NEW t \in Tasks, Shutdown(t)
  PROVE  EngineInv'
<1>1. /\ Enters(t, "shutdown") /\ UNCHANGED <<maxResident, failures, down>>
      /\ \/ Leave(t, engine, older)
         \/ Stop(engine, older, "clear", Live(engine), Absent)
  BY DEF Shutdown
<1>2. "shutdown" \in Waiting \ {"release"} /\ task[t].pc = "shutdown"
  BY <1>1 DEF Waiting, Pc, Enters
<1>3. /\ Owner(t) /\ Ready(t, engine) /\ task[t].pc \notin Upward
      /\ task[t].pc # "delete"
  BY <1>1, <1>2, EntersReady DEF Upward
<1>4. /\ Live(engine) \in SUBSET Engines
      /\ \A v \in Live(engine) : /\ ~engine[v].terminated
                                 /\ (engine[v].inflight = 0 \/ down)
                                 /\ DrainsIn(engine, {v})
  BY <1>2, Stable DEF Live, DrainsIn, EngineInv, TaskInv
<1>5. CASE Leave(t, engine, older)
  BY <1>1, <1>3, <1>5, LeaveInv, Stable
<1>6. CASE Stop(engine, older, "clear", Live(engine), Absent)
  BY <1>1, <1>3, <1>4, <1>6, ClearInv, Stable
<1>7. QED BY <1>1, <1>5, <1>6

LEMMA AfterClearInv ==
  ASSUME EngineInv, NEW t \in Tasks, AfterClear(t)
  PROVE  EngineInv'
<1>1. Inside(t) /\ Leave(t, engine, older)
      /\ UNCHANGED <<maxResident, failures, down>>
  BY DEF AfterClear, Resumes
<1>2. task[t].pc = "delete" => resident[task[t].lid] = NoEngine
  BY <1>1 DEF EngineInv, SectionInv, Inside
<1>3. QED BY <1>1, <1>2, InsideReady, LeaveInv, Stable

LEMMA StopNextInv ==
  ASSUME EngineInv, StopNext
  PROVE  EngineInv'
<1> DEFINE t == Head(queue)
<1>1. /\ section.phase # "free" /\ section.victims # {}
      /\ Stop(engine, older, section.phase, section.victims, section.loading)
      /\ UNCHANGED <<maxResident, failures, down>>
  BY DEF StopNext
<1>2. Inside(t)
  BY <1>1 DEF EngineInv, SectionInv, Inside
<1>3. Owner(t) /\ Ready(t, engine)
  BY <1>2, InsideReady
<1>4. /\ section.phase \in Phase \ {"free", "launch"}
      /\ section.victims \in SUBSET Engines
      /\ section.loading \in Bindings \cup {Absent}
  BY <1>1 DEF EngineInv, TypeOK, SectionRecord, SectionInv
<1>5. /\ Awaits(task[t], section.phase)
      /\ section.phase \in Loading \/ task[t].pc = "delete"
           => resident[task[t].lid] = NoEngine
      /\ \A v \in section.victims :
           ~engine[v].terminated /\ (engine[v].inflight = 0 \/ down)
  BY <1>1 DEF EngineInv, SectionInv
<1>6. \A v \in section.victims : DrainsIn(engine, {v})
  BY Stable DEF DrainsIn
<1> HIDE DEF t
<1>7. /\ older \in Order /\ maxResident' = maxResident /\ down' = down
      /\ failures' \subseteq Lids
  BY <1>1, Stable
<1> DEFINE p == section.phase
           V == section.victims
           b == section.loading
<1>8. /\ Stop(engine, older, p, V, b) /\ p \in Phase \ {"free", "launch"}
      /\ V \in SUBSET Engines /\ b \in Bindings \cup {Absent}
      /\ Awaits(task[t], p)
      /\ p \in Loading \/ task[t].pc = "delete"
           => resident[task[t].lid] = NoEngine
      /\ \A v \in V : /\ ~engine[v].terminated
                       /\ (engine[v].inflight = 0 \/ down)
                       /\ DrainsIn(engine, {v})
  BY <1>1, <1>4, <1>5, <1>6
<1> HIDE DEF p, V, b
<1>9. QED BY <1>3, <1>7, <1>8, StopInv

----------------------------------------------------------------------------
(* The steps outside the lock                                              *)

\* A task outside the lock goes on to wait for it, its lease as it was.
LEMMA EnqueueInv ==
  ASSUME EngineInv, NEW t \in Tasks, NEW r \in TaskRecord, Enqueue(t, r),
         task[t].pc \notin Waiting, r.pc \in Waiting, r.held = task[t].held,
         r.pc \in Named => r.lid \in Lids,
         r.pc \in Leasing => t \in Clients,
         r.pc = "release" => r.held \in Engines,
         r.pc \notin {"release", "mark"} => r.held = NoEngine,
         r.pc = "mark" /\ r.held # NoEngine => InUse(t),
         r.pc # "shutdown",
         down /\ t \in Clients => r.pc = "release" /\ ~r.bad,
         maxResident' \in Ceilings,
         UNCHANGED <<registry, resident, failures, engine, older, section, down>>
  PROVE  EngineInv'
<1> USE DEF EngineInv
<1>1. /\ task' = [task EXCEPT ![t] = r] /\ queue' = Append(queue, t)
      /\ queue \in Seq(Tasks) /\ task'[t] = r
      /\ \A u \in Tasks \ {t} : task'[u] = task[u]
      /\ \A u \in Tasks : task'[u].held = task[u].held
  BY DEF Enqueue, TypeOK
<1>2. section.phase # "free" =>
        /\ queue # <<>> /\ queue' # <<>> /\ Head(queue') = Head(queue)
        /\ Head(queue) \in Tasks \ {t}
  <2>1. SUFFICES ASSUME section.phase # "free"
                 PROVE  /\ queue # <<>> /\ queue' # <<>>
                        /\ Head(queue') = Head(queue)
                        /\ Head(queue) \in Tasks \ {t}
    OBVIOUS
  <2>2. queue # <<>>
    BY <2>1 DEF SectionInv
  <2>3. Owner(Head(queue))
    BY <2>1, <2>2, InsideReady DEF Inside
  <2>4. QED BY <1>1, <2>2, <2>3 DEF Owner
<1>3. TypeOK'
  BY <1>1 DEF TypeOK
<1>4. TaskInv'
  <2>1. ASSUME NEW u \in Tasks, u # t
        PROVE  TaskInv!(u)'
    BY <1>1, <2>1 DEF TaskInv
  <2>2. TaskInv!(t)'
    BY <1>1 DEF TaskInv, Waiting
  <2>3. QED BY <2>1, <2>2 DEF TaskInv
<1>5. SectionInv'
  <2>1. section.phase # "free" => task'[Head(queue')] = task[Head(queue)]
    BY <1>1, <1>2
  <2>2. QED BY <1>1, <1>2, <2>1 DEF SectionInv, Awaits
<1>6. UseInv'
  <2>1. \A c \in Clients : InUse(c)' => InUse(c)
    BY <1>1 DEF InUse, Waiting, Tasks
  <2>2. QED BY <1>1, <2>1 DEF UseInv, Tasks
<1>7. DrainInv' /\ ProcInv' /\ ListedIffLive' /\ UnregisteredDrains'
  BY DEF DrainInv, ProcInv, ListedIffLive, UnregisteredDrains
<1>8. LeasesCounted'
  <2>1. ASSUME NEW c \in Clients
        PROVE  Released(c)' <=> Released(c)
    BY <1>1, <1>2 DEF Released, Inside, Tasks
  <2>2. ASSUME NEW e \in Engines
        PROVE  Leases(e)' = Leases(e)
    BY <1>1, <2>1 DEF Leases, Tasks
  <2>3. QED BY <2>2 DEF LeasesCounted
<1>9. QED BY <1>3, <1>4, <1>5, <1>6, <1>7, <1>8

\* A request whose engine's id is gone ends with its failure unreported.
LEMMA UnreportedInv ==
  ASSUME EngineInv, NEW c \in Clients, Report(c), ~Managed(task[c].lid)
  PROVE  EngineInv'
<1> USE DEF EngineInv
<1>1. c \in Tasks /\ task[c].pc = "reporting" /\ task[c].held = NoEngine
  BY DEF Report, TaskInv, Tasks
<1>2. /\ task' = [task EXCEPT ![c] = IdleTask] /\ queue' = queue
      /\ UNCHANGED <<registry, maxResident, resident, failures, engine, older,
                     section, down>>
  BY DEF Report
<1>3. /\ task'[c].pc = "idle" /\ task'[c].held = NoEngine
      /\ IdleTask \in TaskRecord
      /\ \A u \in Tasks \ {c} : task'[u] = task[u]
      /\ \A u \in Tasks : task'[u].held = task[u].held
  BY <1>1, <1>2 DEF TypeOK, IdleTask, TaskRecord, Pc
<1>4. section.phase # "free" => queue # <<>> /\ Head(queue) \in Tasks \ {c}
  <2>1. SUFFICES ASSUME section.phase # "free"
                 PROVE  queue # <<>> /\ Head(queue) \in Tasks \ {c}
    OBVIOUS
  <2>2. queue # <<>>
    BY <2>1 DEF SectionInv
  <2>3. Owner(Head(queue))
    BY <2>1, <2>2, InsideReady DEF Inside
  <2>4. QED BY <1>1, <2>2, <2>3 DEF Owner, Waiting
<1>5. TypeOK'
  BY <1>2, <1>3 DEF TypeOK
<1>6. TaskInv'
  <2>1. ASSUME NEW u \in Tasks, u # c
        PROVE  TaskInv!(u)'
    BY <1>2, <1>3, <2>1 DEF TaskInv
  <2>2. TaskInv!(c)'
    BY <1>3 DEF TaskInv, Named, Leasing
  <2>3. QED BY <2>1, <2>2 DEF TaskInv
<1>7. SectionInv'
  <2>1. section.phase # "free" => task'[Head(queue')] = task[Head(queue)]
    BY <1>2, <1>3, <1>4
  <2>2. QED BY <1>2, <1>3, <1>4, <2>1 DEF SectionInv, Awaits
<1>8. UseInv'
  <2>1. \A x \in Clients : InUse(x)' => InUse(x)
    BY <1>3 DEF InUse, Tasks
  <2>2. QED BY <1>2, <1>3, <2>1 DEF UseInv, Tasks
<1>9. DrainInv' /\ ProcInv' /\ ListedIffLive' /\ UnregisteredDrains'
  BY <1>2 DEF DrainInv, ProcInv, ListedIffLive, UnregisteredDrains
<1>10. LeasesCounted'
  <2>1. ASSUME NEW x \in Clients
        PROVE  Released(x)' <=> Released(x)
    BY <1>1, <1>2, <1>3, <1>4 DEF Released, Inside, Tasks
  <2>2. ASSUME NEW e \in Engines
        PROVE  Leases(e)' = Leases(e)
    BY <1>3, <2>1 DEF Leases, Tasks
  <2>3. QED BY <1>2, <2>2 DEF LeasesCounted
<1>11. QED BY <1>5, <1>6, <1>7, <1>8, <1>9, <1>10

\* A process or a clock changes what the manager does not look at.
LEMMA WorldInv ==
  ASSUME EngineInv, engine' \in Table,
         \A e \in Engines :
           /\ engine'[e].terminated = engine[e].terminated
           /\ engine'[e].lid = engine[e].lid
           /\ engine'[e].inflight = engine[e].inflight
           /\ engine'[e].draining = engine[e].draining
           /\ ~engine[e].terminated => engine'[e].proc \in {"up", "off"},
         UNCHANGED <<registry, maxResident, resident, failures, older, task,
                     queue, section, down>>
  PROVE  EngineInv'
<1> USE DEF EngineInv
<1>1. TypeOK'
  BY DEF TypeOK, Table
<1>2. TaskInv'
  BY DEF TaskInv
<1>3. SectionInv'
  BY DEF SectionInv, Awaits, TypeOK, SectionRecord
<1>4. UseInv'
  <2>1. \A c \in Clients : InUse(c)' => InUse(c) /\ task'[c].held = task[c].held
    BY DEF InUse
  <2>2. QED BY <2>1, UserHolds DEF UseInv
<1>5. DrainInv' /\ ProcInv'
  BY DEF DrainInv, ProcInv
<1>6. LeasesCounted'
  <2>1. ASSUME NEW e \in Engines
        PROVE  Leases(e)' = Leases(e)
    BY DEF Leases, Released, Inside
  <2>2. QED BY <2>1 DEF LeasesCounted
<1>7. ListedIffLive'
  BY SetsAssumption DEF ListedIffLive, TypeOK
<1>8. UnregisteredDrains'
  BY SetsAssumption DEF UnregisteredDrains, TypeOK
<1>9. QED BY <1>1, <1>2, <1>3, <1>4, <1>5, <1>6, <1>7, <1>8

LEMMA EnvironmentInv ==
  ASSUME EngineInv, Environment
  PROVE  EngineInv'
<1>1. ASSUME NEW e \in Engines, ProcessEnds(e)
      PROVE  EngineInv'
  <2>1. /\ engine' \in Table /\ engine'[e] = [engine[e] EXCEPT !.proc = "off"]
        /\ engine[e] \in Record
        /\ \A x \in Engines \ {e} : engine'[x] = engine[x]
    <3>1. engine[e] \in Record /\ "off" \in Proc
      BY Stable DEF Table, Proc
    <3>2. QED BY <1>1, <3>1, Stable, FieldTypes DEF ProcessEnds, Table
  <2>2. QED BY <1>1, <2>1, WorldInv
            DEF ProcessEnds, Record, EngineInv, ProcInv
<1>2. ASSUME NEW e \in Engines, Breaks(e)
      PROVE  EngineInv'
  <2>1. /\ engine' \in Table /\ engine'[e] = [engine[e] EXCEPT !.broken = TRUE]
        /\ engine[e] \in Record
        /\ \A x \in Engines \ {e} : engine'[x] = engine[x]
    <3>1. engine[e] \in Record
      BY Stable DEF Table
    <3>2. QED BY <1>2, <3>1, Stable, FieldTypes DEF Breaks, Table
  <2>2. QED BY <1>2, <2>1, WorldInv DEF Breaks, Record, EngineInv, ProcInv
<1>3. ASSUME NEW e \in Engines, Expires(e)
      PROVE  EngineInv'
  <2>1. /\ engine' \in Table /\ engine'[e] = [engine[e] EXCEPT !.expired = TRUE]
        /\ engine[e] \in Record
        /\ \A x \in Engines \ {e} : engine'[x] = engine[x]
    <3>1. engine[e] \in Record
      BY Stable DEF Table
    <3>2. QED BY <1>3, <3>1, Stable, FieldTypes DEF Expires, Table
  <2>2. QED BY <1>3, <2>1, WorldInv DEF Expires, Record, EngineInv, ProcInv
<1>4. ASSUME NEW l \in Lids, NEW b \in Bindings \cup {Reachable}, AdminPut(l, b)
      PROVE  EngineInv'
  <2> USE DEF EngineInv
  <2>1. /\ registry' \in [Lids -> Bindings \cup {Reachable, Absent}]
        /\ \A k \in Lids : registry'[k] = Absent => registry[k] = Absent
        /\ UNCHANGED <<maxResident, resident, failures, engine, older, task,
                       queue, section, down>>
    BY <1>4, SetsAssumption DEF AdminPut, TypeOK
  <2>2. TypeOK' /\ TaskInv' /\ DrainInv' /\ ProcInv' /\ ListedIffLive'
    BY <2>1 DEF TypeOK, TaskInv, DrainInv, ProcInv, ListedIffLive
  <2>3. SectionInv'
    <3>1. section.phase \in Loading =>
            registry'[task[Head(queue)].lid] # Absent
      <4>1. SUFFICES ASSUME section.phase \in Loading
                     PROVE  registry'[task[Head(queue)].lid] # Absent
        OBVIOUS
      <4>2. Inside(Head(queue)) /\ Head(queue) \in Tasks
        BY <4>1, HeadInTasks DEF Inside, SectionInv, Loading
      <4>3. QED BY <2>1, <4>1, <4>2, LoadingFacts
    <3>2. QED BY <2>1, <3>1 DEF SectionInv, Awaits
  <2>4. UseInv'
    BY <2>1 DEF UseInv, InUse
  <2>5. LeasesCounted'
    <3>1. ASSUME NEW e \in Engines
          PROVE  Leases(e)' = Leases(e)
      BY <2>1 DEF Leases, Released, Inside
    <3>2. QED BY <2>1, <3>1 DEF LeasesCounted
  <2>6. UnregisteredDrains'
    BY <2>1 DEF UnregisteredDrains
  <2>7. QED BY <2>2, <2>3, <2>4, <2>5, <2>6
<1>5. QED BY <1>1, <1>2, <1>3, <1>4 DEF Environment

LEMMA KillInv ==
  ASSUME EngineInv, Kill
  PROVE  EngineInv'
<1> DEFINE s == section.subject
<1>1. /\ s \in Engines /\ engine[s].terminated
      /\ engine' = [engine EXCEPT ![s].proc = "off"]
      /\ UNCHANGED <<registry, maxResident, resident, failures, older, task,
                     queue, section, down>>
  BY DEF Kill, EngineInv, SectionInv
<1>2. /\ engine' \in Table /\ engine'[s] = [engine[s] EXCEPT !.proc = "off"]
      /\ engine[s] \in Record
      /\ \A x \in Engines \ {s} : engine'[x] = engine[x]
  <2>1. engine[s] \in Record /\ "off" \in Proc
    BY <1>1, Stable DEF Table, Proc
  <2>2. QED BY <1>1, <2>1, Stable, FieldTypes DEF Table
<1>3. QED BY <1>1, <1>2, WorldInv DEF Record, EngineInv, ProcInv

LEMMA IdleIsRecord ==
  IdleTask \in TaskRecord /\ IdleTask.held = NoEngine /\ ~IdleTask.bad
  BY DEF IdleTask, TaskRecord, Pc

LEMMA RequestInv ==
  ASSUME EngineInv, NEW c \in Clients, Request(c)
  PROVE  EngineInv'
<1> USE DEF EngineInv
<1>1. c \in Tasks /\ TypeOK /\ maxResident \in Ceilings /\ task[c] \in TaskRecord
  BY DEF Tasks, TypeOK
<1>2. /\ "warm" \in Pc /\ "release" \in Pc /\ "mark" \in Pc
      /\ "warm" \in Waiting /\ "release" \in Waiting /\ "mark" \in Waiting
  BY DEF Waiting, Pc
<1>3. ASSUME NEW l \in Lids, Arrive(c, l)
      PROVE  EngineInv'
  <2> DEFINE r == [IdleTask EXCEPT !.pc = "warm", !.lid = l]
  <2>1. r \in TaskRecord /\ r.pc = "warm" /\ r.lid = l /\ r.held = NoEngine
    BY <1>2, IdleIsRecord DEF TaskRecord
  <2>2. Enqueue(c, r) /\ ~down /\ task[c].pc = "idle"
        /\ UNCHANGED <<registry, maxResident, resident, failures, engine,
                       older, section, down>>
    BY <1>3 DEF Arrive
  <2>3. task[c].held = NoEngine /\ task[c].pc \notin Waiting
    BY <1>1, <2>2 DEF TaskInv, Waiting
  <2> HIDE DEF r
  <2>4. QED BY <1>1, <1>2, <2>1, <2>2, <2>3, EnqueueInv DEF Leasing
<1>4. ASSUME UseEnds(c) \/ StreamCloses(c)
      PROVE  EngineInv'
  <2> DEFINE r == [task[c] EXCEPT !.pc = "release"]
  <2>1. /\ r \in TaskRecord /\ r.pc = "release" /\ r.lid = task[c].lid
        /\ r.held = task[c].held
    BY <1>1, <1>2 DEF TaskRecord
  <2>2. Enqueue(c, r) /\ task[c].pc \in {"using", "marked"}
        /\ UNCHANGED <<registry, maxResident, resident, failures, engine,
                       older, section, down>>
    BY <1>4 DEF UseEnds, StreamCloses
  <2>3. /\ task[c].held \in Engines /\ task[c].lid \in Lids /\ ~down
        /\ task[c].pc \notin Waiting
    BY <1>1, <2>2 DEF TaskInv, Waiting, Named
  <2> HIDE DEF r
  <2>4. QED BY <1>1, <1>2, <2>1, <2>2, <2>3, EnqueueInv
<1>5. ASSUME UseFails(c)
      PROVE  EngineInv'
  <2> DEFINE r == [task[c] EXCEPT !.pc = "release", !.bad = TRUE]
  <2>1. /\ r \in TaskRecord /\ r.pc = "release" /\ r.lid = task[c].lid
        /\ r.held = task[c].held
    BY <1>1, <1>2 DEF TaskRecord
  <2>2. Enqueue(c, r) /\ task[c].pc = "using"
        /\ UNCHANGED <<registry, maxResident, resident, failures, engine,
                       older, section, down>>
    BY <1>5 DEF UseFails
  <2>3. /\ task[c].held \in Engines /\ task[c].lid \in Lids /\ ~down
        /\ task[c].pc \notin Waiting
    BY <1>1, <2>2 DEF TaskInv, Waiting, Named
  <2> HIDE DEF r
  <2>4. QED BY <1>1, <1>2, <2>1, <2>2, <2>3, EnqueueInv
<1>6. ASSUME StreamFails(c)
      PROVE  EngineInv'
  <2> DEFINE r == [task[c] EXCEPT !.pc = "mark"]
  <2>1. /\ r \in TaskRecord /\ r.pc = "mark" /\ r.lid = task[c].lid
        /\ r.held = task[c].held
    BY <1>1, <1>2 DEF TaskRecord
  <2>2. Enqueue(c, r) /\ task[c].pc = "using"
        /\ UNCHANGED <<registry, maxResident, resident, failures, engine,
                       older, section, down>>
    BY <1>6 DEF StreamFails
  <2>3. /\ task[c].lid \in Lids /\ ~down /\ task[c].pc \notin Waiting /\ InUse(c)
    BY <1>1, <2>2 DEF TaskInv, Waiting, Named, InUse
  <2> HIDE DEF r
  <2>4. QED BY <1>1, <1>2, <2>1, <2>2, <2>3, EnqueueInv
<1>7. ASSUME StreamDropped(c)
      PROVE  EngineInv'
  <2>1. PICK i \in 1..Len(queue) :
          queue[i] = c /\ queue' = Append(Without(i), c)
    BY <1>7 DEF StreamDropped
  <2>2. /\ task[c].pc = "mark" /\ task[c].held # NoEngine /\ ~Inside(c)
        /\ task' = [task EXCEPT ![c].pc = "release"]
        /\ UNCHANGED <<registry, maxResident, resident, failures, engine,
                       older, section, down>>
    BY <1>7 DEF StreamDropped
  <2>3. /\ task'[c].pc = "release" /\ task'[c].held = task[c].held
        /\ task'[c].lid = task[c].lid /\ task'[c] \in TaskRecord
        /\ \A u \in Tasks \ {c} : task'[u] = task[u]
        /\ task' \in [Tasks -> TaskRecord]
    <3>1. task'[c] = [task[c] EXCEPT !.pc = "release"]
      BY <1>1, <2>2 DEF TypeOK
    <3>2. task'[c] \in TaskRecord
      BY <1>1, <1>2, <3>1 DEF TaskRecord
    <3>3. QED BY <1>1, <2>2, <3>1, <3>2 DEF TypeOK, TaskRecord
  <2>4. queue \in Seq(Tasks) /\ Without(i) \in Seq(Tasks)
        /\ Len(Without(i)) = Len(queue) - 1 /\ queue' \in Seq(Tasks)
    BY <1>1, <2>1 DEF TypeOK, Without
  <2>5. section.phase # "free" =>
          /\ queue # <<>> /\ queue' # <<>> /\ Head(queue') = Head(queue)
          /\ Head(queue) \in Tasks \ {c}
    <3>1. SUFFICES ASSUME section.phase # "free"
                   PROVE  /\ queue # <<>> /\ queue' # <<>>
                          /\ Head(queue') = Head(queue)
                          /\ Head(queue) \in Tasks \ {c}
      OBVIOUS
    <3>2. queue # <<>> /\ Head(queue) # c /\ i # 1 /\ Len(queue) > 1
      BY <2>1, <2>2, <2>4, <3>1 DEF SectionInv, Inside
    <3>3. Len(Without(i)) > 0 /\ Without(i)[1] = queue[1]
      BY <2>1, <2>4, <3>2 DEF Without
    <3>4. QED BY <1>1, <2>1, <2>4, <3>2, <3>3
  <2>6. TypeOK'
    BY <2>2, <2>3, <2>4 DEF TypeOK
  <2>7. task[c].held \in Engines /\ ~down /\ task[c].lid \in Lids
    BY <1>1, <2>2 DEF TaskInv, Named, TaskRecord
  <2>8. TaskInv'
    <3>1. ASSUME NEW u \in Tasks, u # c
          PROVE  TaskInv!(u)'
      BY <2>2, <2>3, <3>1 DEF TaskInv
    <3>2. TaskInv!(c)'
      BY <2>2, <2>3, <2>7 DEF TaskInv
    <3>3. QED BY <3>1, <3>2 DEF TaskInv
  <2>9. SectionInv'
    <3>1. section.phase # "free" => task'[Head(queue')] = task[Head(queue)]
      BY <2>3, <2>5
    <3>2. \A u \in Tasks : task'[u].held = task[u].held
      BY <2>3
    <3>3. QED BY <2>2, <2>5, <3>1, <3>2 DEF SectionInv, Awaits
  <2>10. UseInv'
    <3>1. \A x \in Clients : InUse(x)' => InUse(x) /\ task'[x].held = task[x].held
      BY <2>3 DEF InUse, Tasks
    <3>2. QED BY <2>2, <3>1 DEF UseInv
  <2>11. DrainInv' /\ ProcInv' /\ ListedIffLive' /\ UnregisteredDrains'
    BY <2>2 DEF DrainInv, ProcInv, ListedIffLive, UnregisteredDrains
  <2>12. LeasesCounted'
    <3>1. ASSUME NEW x \in Clients
          PROVE  /\ Released(x)' <=> Released(x)
                 /\ task'[x].held = task[x].held
      BY <2>2, <2>3, <2>5 DEF Released, Inside, Tasks
    <3>2. ASSUME NEW e \in Engines
          PROVE  Leases(e)' = Leases(e)
      BY <3>1 DEF Leases
    <3>3. QED BY <2>2, <3>2 DEF LeasesCounted
  <2>13. QED BY <2>6, <2>8, <2>9, <2>10, <2>11, <2>12
<1>8. ASSUME Report(c)
      PROVE  EngineInv'
  <2>1. CASE ~Managed(task[c].lid)
    BY <1>8, <2>1, UnreportedInv
  <2>2. CASE Managed(task[c].lid)
    <3> DEFINE r == [task[c] EXCEPT !.pc = "mark"]
    <3>1. /\ r \in TaskRecord /\ r.pc = "mark" /\ r.lid = task[c].lid
          /\ r.held = task[c].held
      BY <1>1, <1>2 DEF TaskRecord
    <3>2. Enqueue(c, r) /\ task[c].pc = "reporting"
          /\ UNCHANGED <<registry, maxResident, resident, failures, engine,
                         older, section, down>>
      BY <1>8, <2>2 DEF Report
    <3>3. /\ task[c].lid \in Lids /\ ~down /\ task[c].pc \notin Waiting
          /\ task[c].held = NoEngine
      BY <1>1, <3>2 DEF TaskInv, Waiting, Named
    <3> HIDE DEF r
    <3>4. QED BY <1>1, <1>2, <3>1, <3>2, <3>3, EnqueueInv
  <2>3. QED BY <2>1, <2>2
<1>9. QED BY <1>3, <1>4, <1>5, <1>6, <1>7, <1>8 DEF Request

LEMMA AdminInv ==
  ASSUME EngineInv, NEW a \in Admins, Admin(a)
  PROVE  EngineInv'
<1>1. /\ a \in Tasks /\ a \notin Clients /\ maxResident \in Ceilings
      /\ task[a].pc = "idle" => task[a].held = NoEngine
  BY SetsAssumption DEF Tasks, EngineInv, TypeOK, TaskInv
<1>2. "idle" \notin Waiting
  BY DEF Waiting
<1>3. ASSUME NEW p \in {"warm", "evict", "delete"}, NEW l \in Lids,
             task[a].pc = "idle",
             Enqueue(a, [IdleTask EXCEPT !.pc = p, !.lid = l]),
             UNCHANGED <<registry, maxResident, resident, failures, engine,
                         older, section, down>>
      PROVE  EngineInv'
  <2> DEFINE r == [IdleTask EXCEPT !.pc = p, !.lid = l]
  <2>1. p \in Pc /\ p \in Waiting
    BY DEF Pc, Waiting
  <2>2. r \in TaskRecord /\ r.pc = p /\ r.lid = l /\ r.held = NoEngine
    BY <2>1, IdleIsRecord DEF TaskRecord
  <2>3. Enqueue(a, r)
    BY <1>3
  <2>4. r.pc \notin Leasing /\ r.pc \notin {"release", "mark", "shutdown"}
    BY <2>2 DEF Leasing
  <2> HIDE DEF r
  <2>5. QED BY <1>1, <1>2, <1>3, <2>1, <2>2, <2>3, <2>4, EnqueueInv
<1>4. ASSUME NEW n \in Ceilings, AdminCeiling(a, n)
      PROVE  EngineInv'
  <2> DEFINE r == [IdleTask EXCEPT !.pc = "enforce"]
  <2>1. "enforce" \in Pc /\ "enforce" \in Waiting
    BY DEF Pc, Waiting
  <2>2. r \in TaskRecord /\ r.pc = "enforce" /\ r.held = NoEngine
    BY <2>1, IdleIsRecord DEF TaskRecord
  <2>3. /\ Enqueue(a, r) /\ task[a].pc = "idle" /\ maxResident' \in Ceilings
        /\ UNCHANGED <<registry, resident, failures, engine, older, section, down>>
    BY <1>4 DEF AdminCeiling
  <2>4. r.pc \notin Leasing /\ r.pc \notin Named
    BY <2>2 DEF Leasing, Named
  <2> HIDE DEF r
  <2>5. QED BY <1>1, <1>2, <2>1, <2>2, <2>3, <2>4, EnqueueInv
<1>5. ASSUME NEW l \in Lids, AdminWarm(a, l)
      PROVE  EngineInv'
  BY <1>3, <1>5 DEF AdminWarm
<1>6. ASSUME NEW l \in Lids, AdminEvict(a, l) \/ AdminDelete(a, l)
      PROVE  EngineInv'
  BY <1>3, <1>6 DEF AdminEvict, AdminDelete
<1>7. QED BY <1>4, <1>5, <1>6 DEF Admin

LEMMA ReaperWakesInv ==
  ASSUME EngineInv, ReaperWakes
  PROVE  EngineInv'
<1> DEFINE r == [IdleTask EXCEPT !.pc = "reap"]
<1>1. /\ Reaper \in Tasks /\ Reaper \notin Clients /\ maxResident \in Ceilings
      /\ task[Reaper].pc = "idle" => task[Reaper].held = NoEngine
  BY SetsAssumption DEF Tasks, EngineInv, TypeOK, TaskInv
<1>2. "reap" \in Pc /\ "reap" \in Waiting /\ "idle" \notin Waiting
  BY DEF Pc, Waiting
<1>3. r \in TaskRecord /\ r.pc = "reap" /\ r.held = NoEngine
  BY <1>2, IdleIsRecord DEF TaskRecord
<1>4. /\ Enqueue(Reaper, r) /\ task[Reaper].pc = "idle"
      /\ UNCHANGED <<registry, maxResident, resident, failures, engine, older,
                     section, down>>
  BY DEF ReaperWakes
<1>5. r.pc \notin Leasing /\ r.pc \notin Named
  BY <1>3 DEF Leasing, Named
<1> HIDE DEF r
<1>6. QED BY <1>1, <1>2, <1>3, <1>4, <1>5, EnqueueInv

LEMMA BeginShutdownInv ==
  ASSUME EngineInv, BeginShutdown
  PROVE  EngineInv'
<1> USE DEF EngineInv
<1>1. /\ \A c \in Clients :
           task[c].pc = "idle" \/ (task[c].pc = "release" /\ ~task[c].bad)
      /\ down' = TRUE
      /\ task' = [task EXCEPT ![Reaper].pc = "shutdown"]
      /\ section' = IF Inside(Reaper) THEN FreeSection ELSE section
      /\ UNCHANGED <<registry, maxResident, resident, failures, engine, older>>
  BY DEF BeginShutdown
<1>2. Reaper \in Tasks /\ Reaper \notin Clients
  BY SetsAssumption DEF Tasks
<1>3. task[Reaper].pc \notin Leasing /\ task[Reaper].held = NoEngine
      /\ task[Reaper] \in TaskRecord
  BY <1>2 DEF TaskInv, Leasing, TypeOK
<1>4. /\ task'[Reaper].pc = "shutdown" /\ task'[Reaper].held = NoEngine
      /\ task' \in [Tasks -> TaskRecord]
      /\ \A u \in Tasks \ {Reaper} : task'[u] = task[u]
      /\ \A u \in Tasks : task'[u].held = task[u].held
  <2>1. /\ task'[Reaper] = [task[Reaper] EXCEPT !.pc = "shutdown"]
        /\ \A u \in Tasks \ {Reaper} : task'[u] = task[u]
        /\ "shutdown" \in Pc
    BY <1>1, <1>2 DEF TypeOK, Pc
  <2>2. /\ task'[Reaper] \in TaskRecord /\ task'[Reaper].pc = "shutdown"
        /\ task'[Reaper].held = task[Reaper].held
    BY <1>3, <2>1 DEF TaskRecord
  <2>3. QED BY <1>1, <1>3, <2>1, <2>2 DEF TypeOK
<1>5. queue \in Seq(Tasks) /\ queue' \in Seq(Tasks) /\ queue' # <<>>
      /\ (queue # <<>> /\ Head(queue) # Reaper => Head(queue') = Head(queue))
  <2>1. queue \in Seq(Tasks)
    BY DEF TypeOK
  <2>2. CASE queue' = Append(queue, Reaper)
    BY <1>2, <2>1, <2>2
  <2>3. ASSUME NEW i \in 1..Len(queue), queue[i] = Reaper,
               queue' = Append(Without(i), Reaper)
        PROVE  /\ queue' \in Seq(Tasks) /\ queue' # <<>>
               /\ (queue # <<>> /\ Head(queue) # Reaper
                     => Head(queue') = Head(queue))
    <3>1. Without(i) \in Seq(Tasks) /\ Len(Without(i)) = Len(queue) - 1
      BY <2>1 DEF Without
    <3>2. ASSUME queue # <<>>, Head(queue) # Reaper
          PROVE  Head(queue') = Head(queue)
      <4>1. i # 1 /\ Len(queue) > 1
        BY <2>1, <2>3, <3>2
      <4>2. Len(Without(i)) > 0 /\ Without(i)[1] = queue[1]
        BY <2>1, <3>1, <4>1 DEF Without
      <4>3. QED BY <1>2, <2>1, <2>3, <3>1, <4>1, <4>2
    <3>3. QED BY <1>2, <2>3, <3>1, <3>2
  <2>4. QED BY <2>1, <2>2, <2>3 DEF BeginShutdown
<1>6. TypeOK'
  BY <1>1, <1>4, <1>5 DEF TypeOK, FreeSection, SectionRecord, Phase
<1>7. TaskInv'
  <2>1. ASSUME NEW u \in Tasks, u # Reaper
        PROVE  TaskInv!(u)'
    BY <1>1, <1>4, <2>1 DEF TaskInv
  <2>2. TaskInv!(Reaper)'
    BY <1>1, <1>2, <1>4 DEF TaskInv, Named, Leasing
  <2>3. QED BY <2>1, <2>2 DEF TaskInv
<1>8. ASSUME Inside(Reaper)
      PROVE  SectionInv' /\ LeasesCounted'
  <2>1. SectionInv'
    BY <1>1, <1>8 DEF SectionInv, FreeSection
  <2>2. LeasesCounted'
    <3>1. ASSUME NEW c \in Clients
          PROVE  ~Released(c) /\ ~Released(c)' /\ task'[c].held = task[c].held
      BY <1>1, <1>2, <1>4, <1>8 DEF Released, Inside, FreeSection, Tasks
    <3>2. ASSUME NEW e \in Engines
          PROVE  Leases(e)' = Leases(e)
      BY <3>1 DEF Leases
    <3>3. QED BY <1>1, <3>2 DEF LeasesCounted
  <2>3. QED BY <2>1, <2>2
<1>9. ASSUME ~Inside(Reaper)
      PROVE  SectionInv' /\ LeasesCounted'
  <2>1. section' = section
    BY <1>1, <1>9
  <2>2. section.phase # "free" =>
          /\ queue # <<>> /\ Head(queue') = Head(queue)
          /\ Head(queue) \in Tasks \ {Reaper}
          /\ task'[Head(queue')] = task[Head(queue)]
    BY <1>4, <1>5, <1>9, HeadInTasks DEF SectionInv, Inside
  <2>3. SectionInv'
    BY <1>1, <1>4, <1>5, <2>1, <2>2 DEF SectionInv, Awaits
  <2>4. LeasesCounted'
    <3>1. ASSUME NEW c \in Clients
          PROVE  /\ Released(c)' <=> Released(c)
                 /\ task'[c].held = task[c].held
      BY <1>2, <1>4, <1>5, <2>1, <2>2 DEF Released, Inside, Tasks
    <3>2. ASSUME NEW e \in Engines
          PROVE  Leases(e)' = Leases(e)
      BY <3>1 DEF Leases
    <3>3. QED BY <1>1, <3>2 DEF LeasesCounted
  <2>5. QED BY <2>3, <2>4
<1>10. SectionInv' /\ LeasesCounted'
  BY <1>8, <1>9
<1>11. UseInv'
  BY <1>1, <1>2, <1>4 DEF InUse, UseInv, Tasks
<1>12. DrainInv' /\ ProcInv' /\ ListedIffLive' /\ UnregisteredDrains'
  BY <1>1 DEF DrainInv, ProcInv, ListedIffLive, UnregisteredDrains
<1>13. QED BY <1>6, <1>7, <1>10, <1>11, <1>12

----------------------------------------------------------------------------
(* The theorems                                                            *)

LEMMA InitInv ==
  ASSUME Init
  PROVE  EngineInv
<1>1. TypeOK
  <2>1. FreeSection \in SectionRecord
    BY DEF FreeSection, SectionRecord, Phase
  <2>2. NoRecord \in Record
    BY DEF NoRecord, Record, Proc
  <2>3. registry \in [Lids -> Bindings \cup {Reachable, Absent}]
    BY DEF Init
  <2>4. queue \in Seq(Tasks)
    BY DEF Init
  <2>5. QED BY <2>1, <2>2, <2>3, <2>4, IdleIsRecord DEF Init, TypeOK
<1>2. TaskInv
  BY DEF Init, TaskInv, IdleTask, Named, Leasing
<1>3. SectionInv
  BY DEF Init, SectionInv, FreeSection
<1>4. UseInv /\ DrainInv /\ ProcInv
  BY DEF Init, UseInv, InUse, IdleTask, DrainInv, ProcInv, NoRecord, Tasks
<1>5. LeasesCounted
  <2>1. ASSUME NEW e \in Engines
        PROVE  Leases(e) = {}
    BY SetsAssumption DEF Init, Leases, IdleTask, Tasks
  <2>2. QED BY <2>1, FS_EmptySet DEF Init, LeasesCounted, NoRecord
<1>6. ListedIffLive /\ UnregisteredDrains
  BY DEF Init, ListedIffLive, UnregisteredDrains, NoRecord
<1>7. QED BY <1>1, <1>2, <1>3, <1>4, <1>5, <1>6 DEF EngineInv

LEMMA LockedInv ==
  ASSUME EngineInv, NEW t \in Tasks, Locked(t)
  PROVE  EngineInv'
  BY NotManagedInv, ReuseInv, ReplaceInv, LoadInv, AfterReplaceInv,
     AfterRoomInv, LaunchOkInv, LaunchFailsInv, ReleaseInv, AfterRetireInv,
     EnforceCeilingInv, AfterSweepInv, EvictInv, MarkFailedInv, ReapInv,
     ShutdownInv, AfterClearInv
  DEF Locked

LEMMA StutterInv ==
  ASSUME EngineInv, UNCHANGED vars
  PROVE  EngineInv'
<1>1. UNCHANGED <<registry, maxResident, resident, failures, engine, older,
                  task, queue, section, down>>
  BY DEF vars
<1>2. (TypeOK /\ TaskInv)'
  BY <1>1 DEF EngineInv, TypeOK, TaskInv
<1>3. (SectionInv /\ UseInv)'
  BY <1>1 DEF EngineInv, SectionInv, Awaits, UseInv, InUse
<1>4. (DrainInv /\ ProcInv)'
  BY <1>1 DEF EngineInv, DrainInv, ProcInv
<1>5. LeasesCounted'
  BY <1>1 DEF EngineInv, LeasesCounted, Leases, Released, Inside
<1>6. (ListedIffLive /\ UnregisteredDrains)'
  BY <1>1 DEF EngineInv, ListedIffLive, UnregisteredDrains
<1>7. QED BY <1>2, <1>3, <1>4, <1>5, <1>6 DEF EngineInv

LEMMA NextInv ==
  ASSUME EngineInv, [Next]_vars
  PROVE  EngineInv'
<1>1. CASE \E t \in Tasks : Locked(t)
  BY <1>1, LockedInv
<1>2. CASE StopNext
  BY <1>2, StopNextInv
<1>3. CASE Kill
  BY <1>3, KillInv
<1>4. CASE \E c \in Clients : Request(c)
  BY <1>4, RequestInv
<1>5. CASE \E a \in Admins : Admin(a)
  BY <1>5, AdminInv
<1>6. CASE ReaperWakes
  BY <1>6, ReaperWakesInv
<1>7. CASE BeginShutdown
  BY <1>7, BeginShutdownInv
<1>8. CASE Environment
  BY <1>8, EnvironmentInv
<1>9. CASE UNCHANGED vars
  BY <1>9, StutterInv
<1>10. QED BY <1>1, <1>2, <1>3, <1>4, <1>5, <1>6, <1>7, <1>8, <1>9 DEF Next

\* The invariant is inductive: it holds of every reachable state.
THEOREM Invariant == Spec => []EngineInv
<1>1. Init => EngineInv
  BY InitInv
<1>2. EngineInv /\ [Next]_vars => EngineInv'
  BY NextInv
<1>3. QED BY <1>1, <1>2, PTL DEF Spec

\* Every variable keeps its type.
THEOREM TypeCorrect == Spec => []TypeOK
<1>1. EngineInv => TypeOK
  BY DEF EngineInv
<1>2. QED BY <1>1, Invariant, PTL

\* `inflight` is the number of requests that hold a lease, whatever is
\* cancelled, dropped, re-registered or evicted (manager.py:317, 331).
THEOREM LeaseCount == Spec => []LeasesCounted
<1>1. EngineInv => LeasesCounted
  BY DEF EngineInv
<1>2. QED BY <1>1, Invariant, PTL

\* No engine is stopped under a request: evict, admission, enforcement, reap,
\* failure reports and the shutdown stop what nobody uses.
THEOREM NeverStopped == Spec => []NeverStoppedInUse
<1>1. EngineInv => NeverStoppedInUse
  BY DEF EngineInv, UseInv, InUse, NeverStoppedInUse
<1>2. QED BY <1>1, Invariant, PTL

\* _resident lists every live engine under its own id, and nothing else.
THEOREM Listing == Spec => []ListedIffLive
<1>1. EngineInv => ListedIffLive
  BY DEF EngineInv
<1>2. QED BY <1>1, Invariant, PTL

\* A draining engine has a request whose release tears it down.
THEOREM DrainsHaveUsers == Spec => []DrainingIsBusy
<1>1. EngineInv => DrainingIsBusy
  BY DEF EngineInv, DrainInv, DrainingIsBusy, Draining, Live
<1>2. QED BY <1>1, Invariant, PTL

\* The engine of a deleted model only drains.
THEOREM DeletedDrains == Spec => []UnregisteredDrains
<1>1. EngineInv => UnregisteredDrains
  BY DEF EngineInv
<1>2. QED BY <1>1, Invariant, PTL

----------------------------------------------------------------------------
(* The policy's order.  Before is a strict total order of the live engines; *)
(* the first n of a set are n of them, and none of greater priority.       *)

\* Before is a strict total order of the engines in S.
Ordered(S, O) ==
  /\ \A x \in S : ~Before(O, x, x)
  /\ \A x, y \in S : x # y => Before(O, x, y) \/ Before(O, y, x)
  /\ \A x, y, z \in S : Before(O, x, y) /\ Before(O, y, z) => Before(O, x, z)

\* A finite nonempty set of engines has a first and a last.
LEMMA Lowest ==
  ASSUME NEW S, IsFiniteSet(S), NEW O, Ordered(S, O), NEW T \in SUBSET S, T # {}
  PROVE  /\ \E m \in T : \A x \in T : ~Before(O, x, m)
         /\ \E m \in T : \A x \in T : ~Before(O, m, x)
<1> DEFINE lower == [x \in S |-> {y \in S : Before(O, y, x)}]
           upper == [x \in S |-> {y \in S : Before(O, x, y)}]
<1>1. ASSUME NEW f \in [S -> SUBSET S]
      PROVE  \E m \in T : \A x \in T : ~(f[x] \subseteq f[m] /\ f[x] # f[m])
  <2> DEFINE C == {f[x] : x \in T}
  <2>1. IsWellFoundedOn(StrictSubsetOrdering(S), FiniteSubsetsOf(S))
    BY FS_StrictSubsetOrderingWellFounded
  <2>2. ASSUME NEW x \in T
        PROVE  f[x] \in SUBSET S /\ f[x] \in FiniteSubsetsOf(S) /\ f[x] \in C
    BY FS_Subset DEF FiniteSubsetsOf
  <2>3. C \subseteq FiniteSubsetsOf(S) /\ C # {}
    BY <2>2
  <2>4. PICK c \in C : \A d \in C : <<d, c>> \notin StrictSubsetOrdering(S)
    <3> HIDE DEF C
    <3>1. QED BY <2>1, <2>3, WFMin
  <2>5. PICK m \in T : c = f[m]
    OBVIOUS
  <2>6. ASSUME NEW x \in T
        PROVE  ~(f[x] \subseteq f[m] /\ f[x] # f[m])
    BY <2>2, <2>4, <2>5 DEF StrictSubsetOrdering
  <2>7. QED BY <2>6
<1>2. lower \in [S -> SUBSET S] /\ upper \in [S -> SUBSET S]
  OBVIOUS
<1>3. PICK m \in T : \A x \in T : ~(lower[x] \subseteq lower[m] /\ lower[x] # lower[m])
  BY <1>1, <1>2
<1>4. PICK n \in T : \A x \in T : ~(upper[x] \subseteq upper[n] /\ upper[x] # upper[n])
  BY <1>1, <1>2
<1>5. ASSUME NEW x \in T, Before(O, x, m)
      PROVE  FALSE
  <2>1. lower[x] \subseteq lower[m] /\ x \in lower[m] /\ x \notin lower[x]
    BY <1>5 DEF Ordered
  <2>2. QED BY <1>3, <2>1
<1>6. ASSUME NEW x \in T, Before(O, n, x)
      PROVE  FALSE
  <2>1. upper[x] \subseteq upper[n] /\ x \in upper[n] /\ x \notin upper[x]
    BY <1>6 DEF Ordered
  <2>2. QED BY <1>4, <2>1
<1>7. QED BY <1>5, <1>6

\* The first n of S are n of them, or all.
LEMMA FirstSize ==
  ASSUME NEW S, IsFiniteSet(S), NEW O, Ordered(S, O), NEW n \in Int
  PROVE  /\ First(n, S, O) \in SUBSET S /\ IsFiniteSet(First(n, S, O))
         /\ Cardinality(First(n, S, O)) \in Nat
         /\ n >= 0 => Cardinality(First(n, S, O)) <= n
         /\ First(n, S, O) # S => Cardinality(First(n, S, O)) >= n
<1> DEFINE F == First(n, S, O)
           lower == [x \in S |-> {y \in S : Before(O, y, x)}]
<1>1. /\ F \in SUBSET S
      /\ \A x \in S : x \in F <=> Cardinality(lower[x]) < n
  BY DEF First
<1>2. ASSUME NEW T \in SUBSET S
      PROVE  IsFiniteSet(T) /\ Cardinality(T) \in Nat
  BY FS_Subset, FS_CardinalityType
<1>3. \A x \in S : lower[x] \in SUBSET S
  OBVIOUS
<1> HIDE DEF F
<1>4. ASSUME F # S
      PROVE  Cardinality(F) >= n
  <2>1. PICK m \in S \ F : \A x \in S \ F : ~Before(O, x, m)
    BY <1>1, <1>4, Lowest
  <2>2. lower[m] \subseteq F
    BY <2>1
  <2>3. Cardinality(lower[m]) <= Cardinality(F)
    BY <1>1, <1>2, <2>2, FS_Subset
  <2>4. ~(Cardinality(lower[m]) < n)
    BY <1>1, <2>1
  <2>5. QED BY <1>1, <1>2, <1>3, <2>1, <2>3, <2>4
<1>5. ASSUME n >= 0
      PROVE  Cardinality(F) <= n
  <2>1. CASE F = {}
    BY <1>5, <2>1, FS_EmptySet
  <2>2. CASE F # {}
    <3>1. PICK m \in F : \A x \in F : ~Before(O, m, x)
      BY <1>1, <2>2, Lowest
    <3>2. F \ {m} \subseteq lower[m]
      BY <1>1, <3>1 DEF Ordered
    <3>3. Cardinality(F \ {m}) <= Cardinality(lower[m])
      BY <1>1, <1>2, <1>3, <3>1, <3>2, FS_Subset
    <3>4. Cardinality(F \ {m}) = Cardinality(F) - 1
      BY <1>1, <1>2, <3>1, FS_RemoveElement
    <3>5. Cardinality(lower[m]) < n
      BY <1>1, <3>1
    <3>6. Cardinality(F) \in Nat /\ Cardinality(lower[m]) \in Nat
      BY <1>1, <1>2, <1>3, <3>1
    <3>7. QED BY <3>3, <3>4, <3>5, <3>6
  <2>3. QED BY <2>1, <2>2
<1>6. QED BY <1>1, <1>2, <1>4, <1>5 DEF F

\* An engine of the first n has no greater priority than one left out.
LEMMA FirstLow ==
  ASSUME NEW S, IsFiniteSet(S), NEW O, NEW n \in Int,
         \A x \in S : engine[x].binding \in Bindings,
         NEW v \in First(n, S, O), NEW k \in S \ First(n, S, O)
  PROVE  Priority[engine[v].binding] <= Priority[engine[k].binding]
<1>1. \A x \in S : Priority[engine[x].binding] \in Int
  BY BindingAssumption
<1> DEFINE lower(e) == {x \in S : Before(O, x, e)}
<1>2. /\ v \in S /\ Cardinality(lower(v)) < n /\ ~(Cardinality(lower(k)) < n)
  BY DEF First
<1>3. SUFFICES ASSUME Priority[engine[k].binding] < Priority[engine[v].binding]
               PROVE  FALSE
  BY <1>1, <1>2
<1>4. lower(k) \subseteq lower(v)
  BY <1>1, <1>2, <1>3 DEF Before
<1>5. /\ lower(v) \in SUBSET S /\ lower(k) \in SUBSET lower(v)
  BY <1>4
<1>6. /\ IsFiniteSet(lower(v)) /\ Cardinality(lower(v)) \in Nat
      /\ IsFiniteSet(lower(k)) /\ Cardinality(lower(k)) \in Nat
      /\ Cardinality(lower(k)) <= Cardinality(lower(v))
  BY <1>5, FS_Subset, FS_CardinalityType
<1>7. QED BY <1>2, <1>6

----------------------------------------------------------------------------
(* The second invariant: what the order of use, the memory and the ceiling *)
(* need.  `older` orders the live engines, their bindings have priorities, *)
(* and a process that is going and not awaited is a startup that failed.   *)

\* O is a strict total order of the engines in L.
Sorted(O, L) ==
  /\ O \subseteq L \X L
  /\ \A x \in L : <<x, x>> \notin O
  /\ \A x, y \in L : x # y => <<x, y>> \in O \/ <<y, x>> \in O
  /\ \A x, y, z \in L : <<x, y>> \in O /\ <<y, z>> \in O => <<x, z>> \in O

OrderInv == Sorted(older, Live(engine))

\* A live engine, and the one being loaded, have a priority.
BindingInv ==
  /\ \A e \in Engines : ~engine[e].terminated => engine[e].binding \in Bindings
  /\ section.phase \in Loading => section.loading \in Bindings

\* No request waits for an engine after the shutdown began, and only a
\* management call enforces a ceiling.
CallInv ==
  \A t \in Tasks :
    /\ down => task[t].pc \notin Upward
    /\ task[t].pc = "enforce" => t \in Admins

\* A process in memory that is not listed is awaited by the lock's owner, or is
\* the rest of a startup that failed.
MemoryInv ==
  /\ \A e \in Engines :
       ~down /\ engine[e].terminated /\ engine[e].proc # "off" =>
         \/ section.phase # "free" /\ e = section.subject
         \/ engine[e].proc = "stopping" /\ engine[e].lid = NoLid
  /\ section.phase = "launch" => engine[section.subject].lid = NoLid

ShapeInv == OrderInv /\ BindingInv /\ CallInv /\ MemoryInv

\* A step takes no lease on an engine that failed or whose process is gone.
Gains ==
  \A e \in Engines :
    engine'[e].inflight > engine[e].inflight
      => ~engine'[e].failed /\ engine'[e].proc = "up"

\* E is `engine` with no lease more and nothing changed but counters and marks.
Calm(E) ==
  /\ E \in Table
  /\ \A e \in Engines :
       /\ E[e].terminated = engine[e].terminated /\ E[e].lid = engine[e].lid
       /\ E[e].binding = engine[e].binding /\ E[e].proc = engine[e].proc
       /\ E[e].inflight <= engine[e].inflight

\* The process the lock's owner awaited, if any, has ended.
Over == section.phase # "free" => engine[section.subject].proc = "off"

LEMMA CalmLive ==
  ASSUME NEW E, Calm(E)
  PROVE  Live(E) = Live(engine)
  BY DEF Calm, Live

LEMMA EngineCalm ==
  ASSUME EngineInv
  PROVE  Calm(engine)
  BY DEF EngineInv, TypeOK, Calm, Table, Record

LEMMA SortedDrop ==
  ASSUME NEW O, NEW L, NEW v, Sorted(O, L)
  PROVE  Sorted({p \in O : v \notin {p[1], p[2]}}, L \ {v})
  BY DEF Sorted

LEMMA SortedTouch ==
  ASSUME NEW O, NEW e \in Engines, Sorted(O, Live(engine))
  PROVE  Sorted(Touch(O, e), Live(engine) \cup {e})
<1> DEFINE L == Live(engine)
           R == {p \in O : e \notin {p[1], p[2]}}
           A == {<<x, e>> : x \in L \ {e}}
<1>1. Touch(O, e) = R \cup A
  BY DEF Touch
<1>2. Sorted(R, L \ {e})
  BY SortedDrop
<1>3. \A x, y : <<x, y>> \in A <=> x \in L \ {e} /\ y = e
  OBVIOUS
<1>4. A \subseteq (L \cup {e}) \X (L \cup {e})
  OBVIOUS
<1> HIDE DEF R, A, L
<1>5. \A x, y : <<x, y>> \in R => x \in L \ {e} /\ y \in L \ {e}
  BY <1>2 DEF Sorted
<1>6. R \subseteq (L \cup {e}) \X (L \cup {e})
  BY <1>2 DEF Sorted
<1>7. \A x \in L \cup {e} : <<x, x>> \notin R \cup A
  BY <1>2, <1>3, <1>5 DEF Sorted
<1>8. \A x, y \in L \cup {e} :
        x # y => <<x, y>> \in R \cup A \/ <<y, x>> \in R \cup A
  BY <1>2, <1>3 DEF Sorted
<1>9. \A x, y, z \in L \cup {e} :
        <<x, y>> \in R \cup A /\ <<y, z>> \in R \cup A => <<x, z>> \in R \cup A
  BY <1>2, <1>3, <1>5 DEF Sorted
<1>10. QED BY <1>1, <1>4, <1>6, <1>7, <1>8, <1>9 DEF Sorted, L

\* A task that leaves the critical section asks for nothing new.
LEMMA LeaveCalls ==
  ASSUME EngineInv, CallInv, NEW t \in Tasks, NEW E, NEW O, Leave(t, E, O),
         down' = down
  PROVE  CallInv'
<1>1. /\ task' = [task EXCEPT ![t] = After(task[t])]
      /\ task[t] \in TaskRecord /\ task \in [Tasks -> TaskRecord]
  BY DEF Leave, Done, EngineInv, TypeOK
<1>2. After(task[t]).pc \in {"reporting", "marked", "idle"}
  BY <1>1 DEF After, IdleTask, TaskRecord
<1>3. task'[t] = After(task[t]) /\ \A u \in Tasks \ {t} : task'[u] = task[u]
  BY <1>1
<1>4. QED BY <1>2, <1>3 DEF CallInv, Upward

\* Leaving the section, stopping a victim, handing out an engine and starting
\* one keep the second invariant; each action reduces to one of them.
LEMMA LeaveShape ==
  ASSUME EngineInv, ShapeInv, NEW t, Owner(t), Over, NEW E, Calm(E),
         NEW O, Sorted(O, Live(engine)), Leave(t, E, O),
         UNCHANGED <<maxResident, down>>
  PROVE  ShapeInv' /\ Gains
<1>1. engine' = E /\ older' = O /\ section' = FreeSection
  BY DEF Leave, Done
<1>2. OrderInv'
  <2>1. Live(engine') = Live(engine)
    BY <1>1, CalmLive
  <2>2. Sorted(older', Live(engine'))
    BY <1>1, <2>1
  <2>3. QED BY <2>2 DEF OrderInv
<1>3. BindingInv'
  BY <1>1 DEF ShapeInv, BindingInv, Calm, FreeSection, Loading
<1>4. MemoryInv'
  <2>1. \A e \in Engines : ~down /\ engine[e].terminated /\ engine[e].proc # "off"
          => engine[e].proc = "stopping" /\ engine[e].lid = NoLid
    BY DEF ShapeInv, MemoryInv, Over
  <2>2. QED BY <1>1, <2>1 DEF MemoryInv, Calm, FreeSection
<1>5. CallInv'
  BY LeaveCalls DEF ShapeInv, Owner
<1>6. Gains
  BY <1>1 DEF Gains, Calm, Table, Record, EngineInv, TypeOK
<1>7. QED BY <1>2, <1>3, <1>4, <1>5, <1>6 DEF ShapeInv

LEMMA StopShape ==
  ASSUME EngineInv, ShapeInv, Over, NEW E, Calm(E),
         NEW O, Sorted(O, Live(engine)), NEW p \in Phase \ {"free", "launch"},
         NEW V \in SUBSET Live(engine), NEW b, p \in Loading => b \in Bindings,
         Stop(E, O, p, V, b), UNCHANGED <<maxResident, down>>
  PROVE  ShapeInv' /\ Gains
<1>1. PICK v \in V :
        /\ engine' = [E EXCEPT ![v] = Stopped(E[v])]
        /\ older' = {q \in O : v \notin {q[1], q[2]}}
        /\ section' = [phase |-> p, victims |-> V \ {v},
                       subject |-> v, loading |-> b]
        /\ UNCHANGED <<registry, task, queue>>
  BY DEF Stop
<1>2. v \in Engines /\ E[v] \in Record /\ ~engine[v].terminated
  BY DEF Live, Calm, Table
<1>3. /\ engine'[v].terminated /\ engine'[v].inflight = E[v].inflight
      /\ engine'[v].lid = E[v].lid
      /\ \A e \in Engines \ {v} : engine'[e] = E[e]
  BY <1>1, <1>2 DEF Stopped, Calm, Table, Record
<1>4. OrderInv'
  <2>1. Live(engine') = Live(engine) \ {v}
    BY <1>2, <1>3 DEF Live, Calm
  <2>2. Sorted(older', Live(engine) \ {v})
    BY <1>1, SortedDrop
  <2>3. QED BY <2>1, <2>2 DEF OrderInv
<1>5. BindingInv'
  BY <1>1, <1>2, <1>3 DEF ShapeInv, BindingInv, Calm
<1>6. MemoryInv'
  <2>1. \A e \in Engines : ~down /\ engine[e].terminated /\ engine[e].proc # "off"
          => engine[e].proc = "stopping" /\ engine[e].lid = NoLid
    BY DEF ShapeInv, MemoryInv, Over
  <2>2. ASSUME NEW e \in Engines, ~down', engine'[e].terminated,
               engine'[e].proc # "off", e # v
        PROVE  engine'[e].proc = "stopping" /\ engine'[e].lid = NoLid
    BY <1>3, <2>1, <2>2 DEF Calm
  <2>3. section'.phase = p /\ section'.subject = v
    BY <1>1
  <2>4. p # "launch"
    OBVIOUS
  <2>5. QED BY <2>2, <2>3, <2>4 DEF MemoryInv
<1>7. Gains
  <2>1. ASSUME NEW e \in Engines
        PROVE  ~(engine'[e].inflight > engine[e].inflight)
    <3>1. engine'[e].inflight = E[e].inflight
      BY <1>3
    <3>2. E[e].inflight \in Int /\ engine[e].inflight \in Int
      BY DEF Calm, Table, Record, EngineInv, TypeOK
    <3>3. QED BY <3>1, <3>2 DEF Calm
  <2>2. QED BY <2>1 DEF Gains
<1>8. CallInv'
  BY <1>1 DEF ShapeInv, CallInv
<1>9. QED BY <1>4, <1>5, <1>6, <1>7, <1>8 DEF ShapeInv

LEMMA ServeShape ==
  ASSUME EngineInv, ShapeInv, NEW t, Owner(t),
         NEW E \in Table, NEW e \in Engines, Serve(t, E, older, e), ~down,
         section.phase # "free" /\ section.subject # e
           => engine[section.subject].proc = "off",
         \A x \in Engines \ {e} : E[x] = engine[x],
         E[e].binding \in Bindings, ~E[e].failed, E[e].proc = "up",
         ~E[e].terminated, UNCHANGED <<maxResident, down>>
  PROVE  ShapeInv' /\ Gains
<1>1. section' = FreeSection /\ older' = Touch(older, e)
  BY DEF Serve
<1>2. \A x \in Engines :
        /\ engine'[x].terminated = E[x].terminated /\ engine'[x].lid = E[x].lid
        /\ engine'[x].proc = E[x].proc /\ engine'[x].binding = E[x].binding
        /\ engine'[x].failed = E[x].failed
        /\ x # e => engine'[x] = E[x]
  BY DEF Serve, Table, Record
<1>3. OrderInv'
  <2>1. Live(engine') = Live(engine) \cup {e}
    BY <1>2 DEF Live
  <2>2. Sorted(older', Live(engine) \cup {e})
    BY <1>1, SortedTouch DEF ShapeInv, OrderInv
  <2>3. QED BY <2>1, <2>2 DEF OrderInv
<1>4. BindingInv'
  BY <1>1, <1>2 DEF ShapeInv, BindingInv, FreeSection, Loading
<1>5. MemoryInv'
  BY <1>1, <1>2 DEF ShapeInv, MemoryInv, FreeSection
<1>6. Gains
  <2>1. ASSUME NEW x \in Engines, x # e
        PROVE  ~(engine'[x].inflight > engine[x].inflight)
    <3>1. engine'[x] = engine[x] /\ engine[x] \in Record
      BY <1>2, <2>1 DEF EngineInv, TypeOK
    <3>2. engine[x].inflight \in Int
      BY <3>1 DEF Record
    <3>3. QED BY <3>1, <3>2
  <2>2. ~engine'[e].failed /\ engine'[e].proc = "up"
    BY <1>2
  <2>3. QED BY <2>1, <2>2 DEF Gains
<1>7. CallInv'
  <2>1. t \in Tasks /\ task[t] \in TaskRecord /\ task \in [Tasks -> TaskRecord]
    BY DEF Owner, EngineInv, TypeOK
  <2>2. \A u \in Tasks \ {t} : task'[u] = task[u]
    BY <2>1 DEF Serve
  <2>3. task'[t].pc # "enforce"
    <3>1. CASE task[t].pc = "acquire"
      <4>1. task'[t] = [task[t] EXCEPT !.pc = "using", !.held = e]
        BY <2>1, <3>1 DEF Serve
      <4>2. QED BY <2>1, <4>1 DEF TaskRecord
    <3>2. CASE task[t].pc = "warm" /\ t \in Clients
      <4>1. task'[t] = [task[t] EXCEPT !.pc = "acquire"]
        BY <2>1, <3>2 DEF Serve
      <4>2. QED BY <2>1, <4>1 DEF TaskRecord
    <3>3. CASE ~(task[t].pc = "acquire" \/ (task[t].pc = "warm" /\ t \in Clients))
      <4>1. task'[t] = IdleTask
        BY <2>1, <3>3 DEF Serve
      <4>2. QED BY <4>1 DEF IdleTask
    <3>4. QED BY <3>1, <3>2, <3>3
  <2>4. QED BY <2>2, <2>3 DEF ShapeInv, CallInv
<1>8. QED BY <1>3, <1>4, <1>5, <1>6, <1>7 DEF ShapeInv

LEMMA LaunchShape ==
  ASSUME EngineInv, ShapeInv, Over, NEW b \in Bindings, NEW s \in Engines, Free(s),
         engine' = [engine EXCEPT ![s] = [NoRecord EXCEPT !.proc = "starting"]],
         section' = [phase |-> "launch", victims |-> {}, subject |-> s,
                     loading |-> b],
         UNCHANGED <<older, task, maxResident, down>>
  PROVE  ShapeInv' /\ Gains
<1>1. /\ engine'[s].terminated /\ engine'[s].inflight = 0 /\ engine'[s].lid = NoLid
      /\ \A e \in Engines \ {s} : engine'[e] = engine[e]
  BY DEF EngineInv, TypeOK, NoRecord
<1>2. engine[s].terminated
  BY DEF Free
<1>3. OrderInv'
  <2>1. Live(engine') = Live(engine)
    BY <1>1, <1>2 DEF Live
  <2>2. QED BY <2>1 DEF ShapeInv, OrderInv
<1>4. BindingInv'
  BY <1>1 DEF ShapeInv, BindingInv
<1>5. MemoryInv'
  <2>1. ASSUME NEW e \in Engines, ~down', engine'[e].terminated,
               engine'[e].proc # "off", e # s
        PROVE  engine'[e].proc = "stopping" /\ engine'[e].lid = NoLid
    BY <1>1, <2>1 DEF ShapeInv, MemoryInv, Over
  <2>2. QED BY <1>1, <2>1 DEF ShapeInv, MemoryInv
<1>6. Gains
  <2>1. ASSUME NEW x \in Engines
        PROVE  engine[x].inflight \in Nat
    <3>1. IsFiniteSet(Leases(x))
      BY SetsAssumption, FS_Subset DEF Leases
    <3>2. QED BY <3>1, FS_CardinalityType DEF EngineInv, LeasesCounted
  <2>2. QED BY <1>1, <2>1 DEF Gains
<1>7. CallInv'
  BY DEF ShapeInv, CallInv
<1>8. QED BY <1>3, <1>4, <1>5, <1>6, <1>7 DEF ShapeInv

LEMMA AdmitShape ==
  ASSUME EngineInv, ShapeInv, NEW t, Owner(t), Over, NEW b \in Bindings,
         Admit(t, b), UNCHANGED <<maxResident, down>>
  PROVE  ShapeInv' /\ Gains
<1>1. CASE Leave(t, engine, older)
  BY <1>1, EngineCalm, LeaveShape DEF ShapeInv, OrderInv
<1>2. CASE ~Leave(t, engine, older)
  <2>1. PICK s \in Engines :
          /\ Free(s)
          /\ engine' = [engine EXCEPT ![s] = [NoRecord EXCEPT !.proc = "starting"]]
          /\ section' = [phase |-> "launch", victims |-> {}, subject |-> s,
                         loading |-> b]
    BY <1>2 DEF Admit
  <2>2. UNCHANGED <<older, task>>
    BY <1>2 DEF Admit
  <2>3. QED BY <2>1, <2>2, LaunchShape
<1>3. QED BY <1>1, <1>2

LEMMA MakeRoomShape ==
  ASSUME EngineInv, ShapeInv, NEW t, Owner(t), Over, NEW b \in Bindings,
         MakeRoom(t, b), UNCHANGED <<maxResident, down>>
  PROVE  ShapeInv' /\ Gains
<1>1. CASE Admit(t, b)
  BY <1>1, AdmitShape
<1>2. ASSUME NEW n, NEW V, V = First(n, Evictable(engine), older),
             Stop(engine, older, "room", V, b)
      PROVE  ShapeInv' /\ Gains
  <2>1. V \in SUBSET Live(engine)
    BY <1>2 DEF First, Evictable, Idle
  <2>2. "room" \in Phase \ {"free", "launch"}
    BY DEF Phase
  <2>3. QED BY <1>2, <2>1, <2>2, EngineCalm, StopShape DEF ShapeInv, OrderInv
<1>3. QED BY <1>1, <1>2 DEF MakeRoom

LEMMA DrainExcessShape ==
  ASSUME EngineInv, ShapeInv, NEW t, Owner(t), Over, NEW E, Calm(E),
         NEW O, Sorted(O, Live(engine)), DrainExcess(t, E, O),
         UNCHANGED <<maxResident, down>>
  PROVE  ShapeInv' /\ Gains
<1> DEFINE excess == Cardinality(Live(E)) - maxResident
                       - Cardinality(Draining(E))
           chosen == First(excess, Live(E) \ Draining(E), O)
           busy == chosen \ Idle(E)
           D == [e \in Engines |->
                   IF e \in busy THEN [E[e] EXCEPT !.draining = TRUE] ELSE E[e]]
<1>1. IF chosen \cap Idle(E) = {}
        THEN Leave(t, D, O)
        ELSE Stop(D, O, "clear", chosen \cap Idle(E), Absent)
  BY DEF DrainExcess
<1>2. chosen \cap Idle(E) \in SUBSET Live(engine)
  BY CalmLive DEF First
<1> HIDE DEF chosen
<1>3. ASSUME NEW e \in Engines
      PROVE  /\ D[e] \in Record
             /\ D[e].terminated = E[e].terminated /\ D[e].lid = E[e].lid
             /\ D[e].proc = E[e].proc /\ D[e].inflight = E[e].inflight
             /\ D[e].binding = E[e].binding
  <2>1. E[e] \in Record
    BY DEF Calm, Table
  <2>2. [E[e] EXCEPT !.draining = TRUE] \in Record
    BY <2>1, FieldTypes
  <2>3. CASE e \in busy
    BY <2>1, <2>2, <2>3 DEF Record
  <2>4. CASE e \notin busy
    BY <2>1, <2>4
  <2>5. QED BY <2>3, <2>4
<1>4. Calm(D)
  BY <1>3 DEF Calm, Table
<1> HIDE DEF D
<1>5. "clear" \in Phase \ {"free", "launch"} /\ "clear" \notin Loading
  BY DEF Phase, Loading
<1>6. CASE Leave(t, D, O)
  BY <1>4, <1>6, LeaveShape
<1>7. CASE Stop(D, O, "clear", chosen \cap Idle(E), Absent)
  BY <1>2, <1>4, <1>5, <1>7, StopShape
<1>8. QED BY <1>1, <1>6, <1>7

LEMMA SweepShape ==
  ASSUME EngineInv, ShapeInv, NEW t, Owner(t), Over, NEW E, Calm(E),
         NEW O, Sorted(O, Live(engine)), Sweep(t, E, O),
         UNCHANGED <<maxResident, down>>
  PROVE  ShapeInv' /\ Gains
<1>1. CASE Leave(t, E, O)
  BY <1>1, LeaveShape
<1>2. CASE DrainExcess(t, E, O)
  BY <1>2, DrainExcessShape
<1>3. ASSUME NEW n, NEW V, V = First(n, Evictable(E), O),
             Stop(E, O, "sweep", V, Absent)
      PROVE  ShapeInv' /\ Gains
  <2>1. V \in SUBSET Live(engine)
    BY <1>3, CalmLive DEF First, Evictable, Idle
  <2>2. "sweep" \in Phase \ {"free", "launch"} /\ "sweep" \notin Loading
    BY DEF Phase, Loading
  <2>3. QED BY <1>3, <2>1, <2>2, StopShape
<1>4. QED BY <1>1, <1>2, <1>3 DEF Sweep

LEMMA OwnerOf ==
  ASSUME EngineInv, NEW t \in Tasks, NEW p \in Waiting, Enters(t, p)
  PROVE  Owner(t) /\ Over /\ task[t].pc = p
  BY DEF Owner, Over, Enters

LEMMA UpOwner ==
  ASSUME EngineInv, NEW t \in Tasks, EntersUp(t)
  PROVE  Owner(t) /\ Over /\ task[t].pc \in Upward /\ task[t].lid \in Lids
  BY EntersUpReady DEF Over, EntersUp, Enters

LEMMA OwnerInside ==
  ASSUME EngineInv, NEW t \in Tasks, NEW p, Resumes(t, p)
  PROVE  Owner(t) /\ Over /\ Inside(t) /\ section.phase = p
  BY InsideReady DEF Resumes, Over

\* A mark on one record leaves the table calm.
LEMMA CalmUpdate ==
  ASSUME NEW E, Calm(E), NEW e \in Engines, NEW r \in Record,
         r.terminated = E[e].terminated, r.lid = E[e].lid,
         r.binding = E[e].binding, r.proc = E[e].proc,
         r.inflight <= E[e].inflight, engine \in Table
  PROVE  Calm([E EXCEPT ![e] = r])
<1> DEFINE F == [E EXCEPT ![e] = r]
<1>1. /\ F \in Table /\ F[e] = r /\ \A x \in Engines \ {e} : F[x] = E[x]
  BY DEF Calm, Table
<1> HIDE DEF F
<1>2. r.inflight \in Int /\ E[e].inflight \in Int /\ engine[e].inflight \in Int
  BY DEF Calm, Table, Record
<1>3. F[e].inflight <= engine[e].inflight
  BY <1>1, <1>2 DEF Calm
<1>4. QED BY <1>1, <1>3 DEF Calm, F

LEMMA CalmMark ==
  ASSUME EngineInv, NEW E, Calm(E), NEW e \in Engines
  PROVE  /\ Calm([E EXCEPT ![e].failed = TRUE])
         /\ Calm([E EXCEPT ![e].draining = TRUE])
<1> DEFINE f == [E[e] EXCEPT !.failed = TRUE]
           d == [E[e] EXCEPT !.draining = TRUE]
<1>1. E \in Table /\ E[e] \in Record /\ engine \in Table
  BY Stable DEF Calm, Table
<1>2. f \in Record /\ d \in Record
  BY <1>1, FieldTypes
<1>3. /\ f.terminated = E[e].terminated /\ f.lid = E[e].lid
      /\ f.binding = E[e].binding /\ f.proc = E[e].proc
      /\ f.inflight = E[e].inflight /\ E[e].inflight \in Int
  BY <1>1 DEF Record
<1>4. /\ d.terminated = E[e].terminated /\ d.lid = E[e].lid
      /\ d.binding = E[e].binding /\ d.proc = E[e].proc
      /\ d.inflight = E[e].inflight
  BY <1>1 DEF Record
<1>5. /\ [E EXCEPT ![e].failed = TRUE] = [E EXCEPT ![e] = f]
      /\ [E EXCEPT ![e].draining = TRUE] = [E EXCEPT ![e] = d]
  BY <1>1 DEF Table
<1>6. f.inflight <= E[e].inflight /\ d.inflight <= E[e].inflight
  BY <1>3, <1>4
<1> HIDE DEF f, d
<1>7. Calm([E EXCEPT ![e] = f])
  BY <1>1, <1>2, <1>3, <1>6, CalmUpdate
<1>8. Calm([E EXCEPT ![e] = d])
  BY <1>1, <1>2, <1>4, <1>6, CalmUpdate
<1>9. QED BY <1>5, <1>7, <1>8

LEMMA ReuseShape ==
  ASSUME EngineInv, ShapeInv, NEW t \in Tasks, Reuse(t)
  PROVE  ShapeInv' /\ Gains
<1> DEFINE w == Wanted(t)
           E == [Fresh(engine, w) EXCEPT ![w].draining = FALSE]
<1>1. Owner(t) /\ Over /\ task[t].pc \in Upward /\ task[t].lid \in Lids
  BY UpOwner DEF Reuse
<1>2. /\ w \in Engines /\ engine[w] \in Record /\ ~engine[w].terminated
  BY <1>1, Listed DEF Reuse, Wanted
<1>3. ~engine[w].failed /\ engine[w].proc = "up" /\ engine[w].binding \in Bindings
  BY <1>2 DEF Reuse, Dead, EngineInv, ProcInv, ShapeInv, BindingInv
<1>4. ~down
  BY <1>1 DEF ShapeInv, CallInv, Owner
<1>5. /\ E \in Table /\ E[w].binding = engine[w].binding
      /\ E[w].failed = engine[w].failed /\ E[w].proc = engine[w].proc
      /\ E[w].terminated = engine[w].terminated
      /\ \A x \in Engines \ {w} : E[x] = engine[x]
  BY <1>2, Stable DEF Fresh, Table, Record
<1>6. Serve(t, E, older, w) /\ UNCHANGED <<maxResident, down>>
  BY DEF Reuse
<1> HIDE DEF E, w
<1>7. QED BY <1>1, <1>2, <1>3, <1>4, <1>5, <1>6, ServeShape DEF Over

LEMMA ReplaceShape ==
  ASSUME EngineInv, ShapeInv, NEW t \in Tasks, Replace(t)
  PROVE  ShapeInv' /\ Gains
<1> DEFINE w == Wanted(t)
           F == [engine EXCEPT ![w].failed = TRUE]
           G == [F EXCEPT ![w].draining = TRUE]
           b == registry[task[t].lid]
<1>1. Owner(t) /\ Over /\ task[t].lid \in Lids
  BY UpOwner DEF Replace
<1>2. w \in Engines /\ engine[w] \in Record /\ ~engine[w].terminated /\ w \in Live(engine)
  BY <1>1, Listed DEF Replace, Wanted, Live
<1>3. Calm(F) /\ Calm(G)
  BY <1>2, EngineCalm, CalmMark
<1>5. \/ Leave(t, G, older)
      \/ Stop(F, older, "replace", {w}, b)
  BY DEF Replace
<1>6. UNCHANGED <<maxResident, down>> /\ b \in Bindings
  BY DEF Replace
<1> HIDE DEF F, G, w, b
<1>7. CASE Leave(t, G, older)
  BY <1>1, <1>3, <1>6, <1>7, LeaveShape DEF ShapeInv, OrderInv
<1>8. CASE Stop(F, older, "replace", {w}, b)
  <2>1. "replace" \in Phase \ {"free", "launch"} /\ {w} \in SUBSET Live(engine)
    BY <1>2 DEF Phase
  <2>2. QED BY <1>1, <1>3, <1>6, <1>8, <2>1, StopShape DEF ShapeInv, OrderInv
<1>9. QED BY <1>5, <1>7, <1>8

LEMMA LoadShape ==
  ASSUME EngineInv, ShapeInv, NEW t \in Tasks,
         NotManaged(t) \/ Load(t) \/ AfterReplace(t) \/ AfterRoom(t)
  PROVE  ShapeInv' /\ Gains
<1>1. CASE NotManaged(t)
  <2>1. EntersUp(t) /\ Leave(t, engine, older) /\ UNCHANGED <<maxResident, down>>
    BY <1>1 DEF NotManaged
  <2>2. QED BY <2>1, UpOwner, EngineCalm, LeaveShape DEF ShapeInv, OrderInv
<1>2. CASE Load(t)
  <2>1. /\ EntersUp(t) /\ registry[task[t].lid] \in Bindings
        /\ MakeRoom(t, registry[task[t].lid]) /\ UNCHANGED <<maxResident, down>>
    BY <1>2 DEF Load
  <2>2. QED BY <2>1, UpOwner, MakeRoomShape
<1>3. CASE AfterReplace(t)
  <2>1. /\ Resumes(t, "replace") /\ MakeRoom(t, section.loading)
        /\ UNCHANGED <<maxResident, down>>
    BY <1>3 DEF AfterReplace
  <2>2. section.loading \in Bindings
    BY <2>1, OwnerInside DEF ShapeInv, BindingInv, Loading
  <2>3. QED BY <2>1, <2>2, OwnerInside, MakeRoomShape
<1>4. CASE AfterRoom(t)
  <2>1. /\ Resumes(t, "room") /\ Admit(t, section.loading)
        /\ UNCHANGED <<maxResident, down>>
    BY <1>4 DEF AfterRoom
  <2>2. section.loading \in Bindings
    BY <2>1, OwnerInside DEF ShapeInv, BindingInv, Loading
  <2>3. QED BY <2>1, <2>2, OwnerInside, AdmitShape
<1>5. QED BY <1>1, <1>2, <1>3, <1>4

LEMMA LaunchOkShape ==
  ASSUME EngineInv, ShapeInv, NEW t \in Tasks, LaunchOk(t)
  PROVE  ShapeInv' /\ Gains
<1> DEFINE s == section.subject
           r == Spawned(task[t].lid, section.loading)
           E == [engine EXCEPT ![s] = r]
<1>1. Inside(t) /\ section.phase = "launch" /\ section.phase \in Loading
  BY DEF LaunchOk, Launching, Loading
<1>2. /\ Owner(t) /\ task[t].pc \in Upward
      /\ s \in Engines /\ engine[s].terminated /\ task[t].lid \in Lids
  BY <1>1, LoadingFacts
<1>3. section.loading \in Bindings
  BY <1>1 DEF ShapeInv, BindingInv
<1>4. ~down
  BY <1>2 DEF ShapeInv, CallInv, Owner
<1>5. /\ r \in Record /\ r.binding \in Bindings /\ ~r.failed /\ r.proc = "up"
      /\ ~r.terminated /\ r.inflight = 0 /\ r.lid = task[t].lid
  BY <1>2, <1>3 DEF Spawned, Record, Proc
<1>6. Serve(t, E, older, s) /\ UNCHANGED <<maxResident, down>>
  BY DEF LaunchOk
<1> HIDE DEF r
<1>7. /\ E \in Table /\ E[s] = r
      /\ \A x \in Engines \ {s} : E[x] = engine[x]
  BY <1>2, <1>5, Stable DEF Table
<1>8. s = section.subject
  OBVIOUS
<1> HIDE DEF E, s
<1>9. QED BY <1>2, <1>4, <1>5, <1>6, <1>7, <1>8, ServeShape

LEMMA LaunchFailsShape ==
  ASSUME EngineInv, ShapeInv, NEW t \in Tasks, LaunchFails(t)
  PROVE  ShapeInv' /\ Gains
<1> DEFINE s == section.subject
<1>1. Inside(t) /\ section.phase = "launch" /\ section.phase \in Loading
  BY DEF LaunchFails, Launching, Loading
<1>2. PICK p \in {"off", "stopping"} :
        Leave(t, [engine EXCEPT ![s].proc = p], older)
  BY DEF LaunchFails
<1>3. /\ s \in Engines /\ engine[s].terminated /\ engine[s].lid = NoLid
      /\ task[t].pc \in Upward /\ ~down
  BY <1>1, LoadingFacts DEF ShapeInv, MemoryInv, CallInv
<1>4. /\ section' = FreeSection /\ older' = older
      /\ UNCHANGED <<maxResident, down>>
      /\ engine'[s] = [engine[s] EXCEPT !.proc = p] /\ engine[s] \in Record
      /\ \A e \in Engines \ {s} : engine'[e] = engine[e]
  BY <1>2, <1>3 DEF LaunchFails, Leave, Done, EngineInv, TypeOK
<1>5. /\ engine'[s].terminated /\ engine'[s].lid = NoLid
      /\ engine'[s].proc = p /\ engine'[s].inflight = engine[s].inflight
  BY <1>3, <1>4 DEF Record
<1>6. OrderInv'
  <2>1. Live(engine') = Live(engine)
    BY <1>3, <1>4, <1>5 DEF Live
  <2>2. QED BY <1>4, <2>1 DEF ShapeInv, OrderInv
<1>7. BindingInv'
  BY <1>4, <1>5 DEF ShapeInv, BindingInv, FreeSection, Loading
<1>8. MemoryInv'
  <2>1. ASSUME NEW e \in Engines, engine'[e].terminated, engine'[e].proc # "off"
        PROVE  engine'[e].proc = "stopping" /\ engine'[e].lid = NoLid
    <3>1. CASE e = s
      BY <1>5, <2>1, <3>1
    <3>2. CASE e # s
      BY <1>3, <1>4, <2>1, <3>2 DEF ShapeInv, MemoryInv
    <3>3. QED BY <3>1, <3>2
  <2>2. ~down' /\ section'.phase # "launch"
    BY <1>3, <1>4 DEF FreeSection
  <2>3. QED BY <2>1, <2>2 DEF MemoryInv
<1>9. Gains
  <2>1. ASSUME NEW e \in Engines
        PROVE  engine'[e].inflight = engine[e].inflight /\ engine[e].inflight \in Int
    BY <1>4, <1>5 DEF EngineInv, TypeOK, Record
  <2>2. QED BY <2>1 DEF Gains
<1>10. CallInv'
  BY <1>2, <1>4, LeaveCalls DEF ShapeInv
<1>11. QED BY <1>6, <1>7, <1>8, <1>9, <1>10 DEF ShapeInv

\* The records and their order once t gave its lease back.
Back(t) == [Fresh(engine, task[t].held) EXCEPT ![task[t].held].inflight = @ - 1]
BackOrder(t) ==
  IF engine[task[t].held].terminated THEN older ELSE Touch(older, task[t].held)

\* A release takes one lease off and nothing else.
LEMMA ReleaseTable ==
  ASSUME EngineInv, ShapeInv, NEW t \in Tasks, Enters(t, "release"),
         NEW e, e = task[t].held, NEW E, E = Back(t)
  PROVE  /\ Owner(t) /\ Over /\ task[t].pc = "release" /\ e \in Engines
         /\ Calm(E) /\ Sorted(BackOrder(t), Live(engine))
         /\ \A x \in Engines \ {e} : E[x] = engine[x]
         /\ ~E[e].terminated => resident[E[e].lid] = e /\ e \in Live(engine)
         /\ ~(E[e].draining /\ E[e].inflight = 0 /\ ~E[e].terminated)
              => DrainsIn(E, {})
<1>1. "release" \in Waiting
  BY DEF Waiting, Pc
<1>2. Owner(t) /\ Over /\ task[t].pc = "release" /\ e \in Engines
      /\ t \in Clients
  BY <1>1, OwnerOf DEF EngineInv, TaskInv, Leasing
<1> DEFINE q == [engine[e] EXCEPT !.expired = FALSE]
           r == [q EXCEPT !.inflight = @ - 1]
<1>3. engine[e] \in Record
  BY <1>2, Stable DEF Table
<1>4. /\ q \in Record /\ q.terminated = engine[e].terminated
      /\ q.lid = engine[e].lid /\ q.proc = engine[e].proc
      /\ q.binding = engine[e].binding /\ q.inflight = engine[e].inflight
      /\ q.draining = engine[e].draining
  BY <1>3 DEF Record
<1>5. E = [engine EXCEPT ![e] = r]
  BY <1>2, <1>3, Stable DEF Back, Fresh, Table, Record
<1> HIDE DEF q
<1>6. r \in Record
  BY <1>4, FieldTypes
<1>7. /\ r.terminated = engine[e].terminated /\ r.lid = engine[e].lid
      /\ r.proc = engine[e].proc /\ r.binding = engine[e].binding
      /\ r.inflight = engine[e].inflight - 1 /\ r.draining = engine[e].draining
  BY <1>4, <1>6 DEF Record
<1>8. r.inflight <= engine[e].inflight
  BY <1>3, <1>7 DEF Record
<1> HIDE DEF r
<1>9. Calm(E)
  <2>1. Calm(engine) /\ engine \in Table
    BY EngineCalm, Stable
  <2>2. Calm([engine EXCEPT ![e] = r])
    BY <1>2, <1>6, <1>7, <1>8, <2>1, CalmUpdate
  <2>3. QED BY <1>5, <2>2
<1>10. E[e] = r /\ \A x \in Engines \ {e} : E[x] = engine[x]
  BY <1>2, <1>5, Stable DEF Table
<1>11. Sorted(BackOrder(t), Live(engine))
  <2>1. CASE engine[e].terminated
    BY <2>1 DEF BackOrder, ShapeInv, OrderInv
  <2>2. CASE ~engine[e].terminated
    <3>1. Live(engine) \cup {e} = Live(engine)
      BY <1>2, <2>2 DEF Live
    <3>2. QED BY <1>2, <2>2, <3>1, SortedTouch DEF BackOrder, ShapeInv, OrderInv
  <2>3. QED BY <2>1, <2>2
<1>12. ~E[e].terminated => resident[E[e].lid] = e /\ e \in Live(engine)
  BY <1>2, <1>7, <1>10 DEF EngineInv, ListedIffLive, Live
<1>13. ASSUME ~(E[e].draining /\ E[e].inflight = 0 /\ ~E[e].terminated)
       PROVE  DrainsIn(E, {})
  <2>1. engine[e].inflight > 0
    <3>1. t \in Leases(e) /\ IsFiniteSet(Leases(e))
      BY <1>2, SetsAssumption, FS_Subset DEF Leases, Released, Inside, Enters
    <3>2. QED BY <1>2, <3>1, FS_EmptySet, FS_CardinalityType
              DEF EngineInv, LeasesCounted
  <2>2. E[e].inflight = 0 \/ E[e].inflight > 0
    BY <1>3, <1>7, <1>10, <2>1 DEF Record
  <2>3. QED BY <1>10, <1>13, <2>2, Stable DEF DrainsIn
<1>14. QED BY <1>2, <1>9, <1>10, <1>11, <1>12, <1>13

LEMMA ReleaseShape ==
  ASSUME EngineInv, ShapeInv, NEW t \in Tasks, Release(t)
  PROVE  ShapeInv' /\ Gains
<1> DEFINE e == task[t].held
           E == Back(t)
           O == BackOrder(t)
<1>1. Enters(t, "release") /\ UNCHANGED <<maxResident, failures, down>>
  BY DEF Release
<1>2. IF E[e].draining /\ E[e].inflight = 0 /\ ~E[e].terminated
        THEN Stop(E, O, "retire", {resident[E[e].lid]}, Absent)
        ELSE IF E[e].inflight = 0 THEN Sweep(t, E, O) ELSE Leave(t, E, O)
  BY DEF Release, Back, BackOrder
<1>3. /\ Owner(t) /\ Over /\ Calm(E) /\ Sorted(O, Live(engine))
      /\ ~E[e].terminated => resident[E[e].lid] \in Live(engine)
  BY <1>1, ReleaseTable
<1> HIDE DEF E, O, e
<1>4. CASE Sweep(t, E, O)
  BY <1>1, <1>3, <1>4, SweepShape
<1>5. CASE Leave(t, E, O)
  BY <1>1, <1>3, <1>5, LeaveShape
<1>6. CASE ~E[e].terminated /\ Stop(E, O, "retire", {resident[E[e].lid]}, Absent)
  <2>1. "retire" \in Phase \ {"free", "launch"} /\ "retire" \notin Loading
    BY DEF Phase, Loading
  <2>2. QED BY <1>1, <1>3, <1>6, <2>1, StopShape
<1>7. QED BY <1>2, <1>4, <1>5, <1>6

LEMMA SweepersShape ==
  ASSUME EngineInv, ShapeInv, NEW t \in Tasks,
         AfterRetire(t) \/ EnforceCeiling(t) \/ AfterSweep(t) \/ AfterClear(t)
  PROVE  ShapeInv' /\ Gains
<1>1. Sorted(older, Live(engine)) /\ Calm(engine)
  BY EngineCalm DEF ShapeInv, OrderInv
<1>2. CASE AfterRetire(t)
  BY <1>1, <1>2, OwnerInside, SweepShape DEF AfterRetire
<1>3. CASE EnforceCeiling(t)
  <2>1. "enforce" \in Waiting
    BY DEF Waiting, Pc
  <2>2. QED BY <1>1, <1>3, <2>1, OwnerOf, SweepShape DEF EnforceCeiling
<1>4. CASE AfterSweep(t)
  BY <1>1, <1>4, OwnerInside, DrainExcessShape DEF AfterSweep
<1>5. CASE AfterClear(t)
  BY <1>1, <1>5, OwnerInside, LeaveShape DEF AfterClear
<1>6. QED BY <1>2, <1>3, <1>4, <1>5

LEMMA StoppersShape ==
  ASSUME EngineInv, ShapeInv, NEW t \in Tasks, Evict(t) \/ Reap(t) \/ Shutdown(t)
  PROVE  ShapeInv' /\ Gains
<1>1. /\ Sorted(older, Live(engine)) /\ Calm(engine)
      /\ "clear" \in Phase \ {"free", "launch"} /\ "clear" \notin Loading
      /\ {"evict", "delete", "reap", "shutdown"} \subseteq Waiting
  BY EngineCalm DEF ShapeInv, OrderInv, Phase, Loading, Waiting, Pc
<1>2. Owner(t) /\ Over /\ UNCHANGED <<maxResident, down>>
  BY <1>1, OwnerOf DEF Evict, Reap, Shutdown
<1>3. CASE Leave(t, engine, older)
  BY <1>1, <1>2, <1>3, LeaveShape
<1>4. ASSUME NEW V \in SUBSET Live(engine), Stop(engine, older, "clear", V, Absent)
      PROVE  ShapeInv' /\ Gains
  BY <1>1, <1>2, <1>4, StopShape
<1>5. CASE Reap(t) \/ Shutdown(t)
  <2>1. \A V : V \subseteq Idle(engine) => V \in SUBSET Live(engine)
    BY DEF Idle
  <2>2. QED BY <1>3, <1>4, <1>5, <2>1 DEF Reap, Shutdown
<1>6. CASE Evict(t)
  <2> DEFINE e == resident[task[t].lid]
             E == [engine EXCEPT ![e].draining = TRUE]
  <2>1. task[t].lid \in Lids
    BY <1>6 DEF Evict, Enters, EngineInv, TaskInv, Named
  <2>2. e # NoEngine => e \in Live(engine) /\ e \in Engines /\ engine[e] \in Record
    BY <2>1, Listed DEF Live
  <2>3. CASE e # NoEngine /\ Leave(t, E, older)
    <3>1. Calm(E)
      BY <1>1, <2>2, <2>3, CalmMark
    <3> HIDE DEF E
    <3>2. QED BY <1>1, <1>2, <2>3, <3>1, LeaveShape
  <2>4. CASE e # NoEngine /\ Stop(engine, older, "clear", {e}, Absent)
    BY <1>4, <2>2, <2>4
  <2>5. QED BY <1>3, <1>6, <2>3, <2>4 DEF Evict
<1>7. QED BY <1>5, <1>6

LEMMA MarkFailedShape ==
  ASSUME EngineInv, ShapeInv, NEW t \in Tasks, MarkFailed(t)
  PROVE  ShapeInv' /\ Gains
<1> DEFINE e == resident[task[t].lid]
           F == [engine EXCEPT ![e].failed = TRUE]
           G == [F EXCEPT ![e].draining = TRUE]
<1>1. /\ Sorted(older, Live(engine)) /\ Calm(engine) /\ "mark" \in Waiting
      /\ "clear" \in Phase \ {"free", "launch"} /\ "clear" \notin Loading
  BY EngineCalm DEF ShapeInv, OrderInv, Phase, Loading, Waiting, Pc
<1>2. /\ Owner(t) /\ Over /\ task[t].pc = "mark"
      /\ UNCHANGED <<maxResident, down>>
  BY <1>1, OwnerOf DEF MarkFailed
<1>3. task[t].lid \in Lids
  BY <1>2 DEF Owner, EngineInv, TaskInv, Named
<1>4. \/ e = NoEngine /\ Leave(t, engine, older)
      \/ e # NoEngine /\ Leave(t, G, older)
      \/ e # NoEngine /\ Stop(F, older, "clear", {e}, Absent)
  BY DEF MarkFailed
<1>5. CASE Leave(t, engine, older)
  BY <1>1, <1>2, <1>5, LeaveShape
<1>6. ASSUME e # NoEngine
      PROVE  e \in Live(engine) /\ Calm(F) /\ Calm(G)
  <2>1. e \in Live(engine) /\ e \in Engines
    BY <1>3, <1>6, Listed DEF Live
  <2>2. QED BY <1>1, <2>1, CalmMark
<1> HIDE DEF F, G, e
<1>7. CASE e # NoEngine /\ Leave(t, G, older)
  BY <1>1, <1>2, <1>6, <1>7, LeaveShape
<1>8. CASE e # NoEngine /\ Stop(F, older, "clear", {e}, Absent)
  BY <1>1, <1>2, <1>6, <1>8, StopShape
<1>9. QED BY <1>4, <1>5, <1>7, <1>8

LEMMA LockedShape ==
  ASSUME EngineInv, ShapeInv, NEW t \in Tasks, Locked(t)
  PROVE  ShapeInv' /\ Gains
  BY LoadShape, ReuseShape, ReplaceShape, LaunchOkShape, LaunchFailsShape,
     ReleaseShape, SweepersShape, StoppersShape, MarkFailedShape
  DEF Locked

LEMMA StopNextShape ==
  ASSUME EngineInv, ShapeInv, StopNext
  PROVE  ShapeInv' /\ Gains
<1>1. /\ section.phase # "free" /\ Over
      /\ Stop(engine, older, section.phase, section.victims, section.loading)
      /\ UNCHANGED <<maxResident, down>>
  BY DEF StopNext, Over
<1>2. /\ section.phase \in Phase \ {"free", "launch"}
      /\ section.victims \in SUBSET Live(engine)
  BY DEF StopNext, EngineInv, TypeOK, SectionRecord, SectionInv, Live
<1>3. section.phase \in Loading => section.loading \in Bindings
  BY DEF ShapeInv, BindingInv
<1>4. QED BY <1>1, <1>2, <1>3, EngineCalm, StopShape DEF ShapeInv, OrderInv

\* The steps outside the lock list no engine and unlist none.
LEMMA OutsideShape ==
  ASSUME EngineInv, ShapeInv,
         \A e \in Engines :
           /\ engine'[e].terminated = engine[e].terminated
           /\ engine'[e].lid = engine[e].lid
           /\ engine'[e].binding = engine[e].binding
           /\ engine'[e].inflight = engine[e].inflight
           /\ engine'[e].proc \in {engine[e].proc, "off"},
         older' = older,
         section' = section \/ (section' = FreeSection /\ down'),
         down => down', CallInv'
  PROVE  ShapeInv' /\ Gains
<1>1. OrderInv'
  <2>1. Live(engine') = Live(engine)
    BY DEF Live
  <2>2. QED BY <2>1 DEF ShapeInv, OrderInv
<1>2. BindingInv'
  BY DEF ShapeInv, BindingInv, FreeSection, Loading
<1>3. MemoryInv'
  <2>1. section.phase = "launch" => section.subject \in Engines
    BY DEF EngineInv, SectionInv
  <2>2. QED BY <2>1 DEF ShapeInv, MemoryInv, FreeSection
<1>4. Gains
  <2>1. \A e \in Engines : engine[e].inflight \in Int
    BY DEF EngineInv, TypeOK, Record
  <2>2. QED BY <2>1 DEF Gains
<1>5. QED BY <1>1, <1>2, <1>3, <1>4 DEF ShapeInv

LEMMA KillShape ==
  ASSUME EngineInv, ShapeInv, Kill
  PROVE  ShapeInv' /\ Gains
<1>1. /\ section.subject \in Engines
      /\ engine' = [engine EXCEPT ![section.subject].proc = "off"]
      /\ UNCHANGED <<older, section, task, down>>
  BY DEF Kill, EngineInv, SectionInv
<1>2. \A e \in Engines :
        /\ engine'[e].terminated = engine[e].terminated
        /\ engine'[e].lid = engine[e].lid
        /\ engine'[e].binding = engine[e].binding
        /\ engine'[e].inflight = engine[e].inflight
        /\ engine'[e].proc \in {engine[e].proc, "off"}
  BY <1>1 DEF EngineInv, TypeOK, Record
<1>3. QED BY <1>1, <1>2, OutsideShape DEF ShapeInv, CallInv

LEMMA EnvironmentShape ==
  ASSUME EngineInv, ShapeInv, Environment
  PROVE  ShapeInv' /\ Gains
<1>1. UNCHANGED <<older, section, task, down>>
  BY DEF Environment, ProcessEnds, Breaks, Expires, AdminPut
<1>2. \A e \in Engines :
        /\ engine'[e].terminated = engine[e].terminated
        /\ engine'[e].lid = engine[e].lid
        /\ engine'[e].binding = engine[e].binding
        /\ engine'[e].inflight = engine[e].inflight
        /\ engine'[e].proc \in {engine[e].proc, "off"}
  <2>1. ASSUME NEW x \in Engines, ProcessEnds(x) \/ Breaks(x) \/ Expires(x)
        PROVE  /\ \A e \in Engines \ {x} : engine'[e] = engine[e]
               /\ engine'[x].terminated = engine[x].terminated
               /\ engine'[x].lid = engine[x].lid
               /\ engine'[x].binding = engine[x].binding
               /\ engine'[x].inflight = engine[x].inflight
               /\ engine'[x].proc \in {engine[x].proc, "off"}
    BY <2>1 DEF ProcessEnds, Breaks, Expires, EngineInv, TypeOK, Record
  <2>2. CASE engine' = engine
    BY <2>2
  <2>3. CASE \E x \in Engines : ProcessEnds(x) \/ Breaks(x) \/ Expires(x)
    BY <2>1, <2>3
  <2>4. QED BY <2>2, <2>3 DEF Environment, AdminPut
<1>3. QED BY <1>1, <1>2, OutsideShape DEF ShapeInv, CallInv

\* A call that comes in, a request that goes on and the shutdown.
LEMMA CallersShape ==
  ASSUME EngineInv, ShapeInv, engine' = engine, older' = older,
         section' = section \/ (section' = FreeSection /\ down'),
         down => down', CallInv'
  PROVE  ShapeInv' /\ Gains
  BY OutsideShape

LEMMA RequestShape ==
  ASSUME EngineInv, ShapeInv, NEW c \in Clients, Request(c)
  PROVE  ShapeInv' /\ Gains
<1>1. UNCHANGED <<engine, older, section, down>>
  BY DEF Request, Arrive, UseEnds, UseFails, Report, StreamFails, StreamCloses,
         StreamDropped
<1>2. c \in Tasks /\ task[c] \in TaskRecord /\ task \in [Tasks -> TaskRecord]
  BY DEF Tasks, EngineInv, TypeOK
<1>3. /\ down => task'[c].pc \in {"release", "mark", "idle"}
      /\ task'[c].pc \in {"release", "mark", "warm", "idle"}
  <2>1. ASSUME NEW p \in {"release", "mark"}
        PROVE  [task[c] EXCEPT !.pc = p].pc = p
    BY <1>2 DEF TaskRecord
  <2>2. [task[c] EXCEPT !.pc = "release", !.bad = TRUE].pc = "release"
    BY <1>2 DEF TaskRecord
  <2>3. ASSUME NEW l
        PROVE  [IdleTask EXCEPT !.pc = "warm", !.lid = l].pc = "warm"
    BY DEF IdleTask
  <2>4. ASSUME NEW r, Enqueue(c, r)
        PROVE  task'[c] = r
    BY <1>2, <2>4 DEF Enqueue
  <2>5. CASE \E l \in Lids : Arrive(c, l)
    BY <2>3, <2>4, <2>5 DEF Arrive
  <2>6. CASE UseEnds(c) \/ StreamFails(c) \/ StreamCloses(c) \/ UseFails(c)
    BY <2>1, <2>2, <2>4, <2>6 DEF UseEnds, StreamFails, StreamCloses, UseFails
  <2>7. CASE StreamDropped(c)
    BY <1>2, <2>1, <2>7 DEF StreamDropped
  <2>8. CASE Report(c)
    <3>1. Enqueue(c, [task[c] EXCEPT !.pc = "mark"]) \/ task'[c] = IdleTask
      BY <1>2, <2>8 DEF Report
    <3>2. [task[c] EXCEPT !.pc = "mark"].pc = "mark" /\ IdleTask.pc = "idle"
      BY <2>1 DEF IdleTask
    <3>3. task'[c].pc \in {"mark", "idle"}
      BY <2>4, <3>1, <3>2
    <3>4. QED BY <3>3
  <2>9. QED BY <2>5, <2>6, <2>7, <2>8 DEF Request
<1>4. \A t \in Tasks \ {c} : task'[t] = task[t]
  <2>1. CASE Report(c)
    BY <1>2, <2>1 DEF Report, Enqueue
  <2>2. CASE Request(c) /\ ~ Report(c)
    BY <1>2, <2>2 DEF Request, Arrive, UseEnds, UseFails, StreamFails,
                      StreamCloses, StreamDropped, Enqueue
  <2>3. QED BY <2>1, <2>2
<1>5. QED BY <1>1, <1>3, <1>4, CallersShape DEF ShapeInv, CallInv, Upward

LEMMA OtherCallersShape ==
  ASSUME EngineInv, ShapeInv, (\E a \in Admins : Admin(a)) \/ ReaperWakes
  PROVE  ShapeInv' /\ Gains
<1>1. UNCHANGED <<engine, older, section, down>> /\ ~down
  BY DEF Admin, AdminWarm, AdminEvict, AdminDelete, AdminCeiling, ReaperWakes
<1>2. task \in [Tasks -> TaskRecord] /\ Admins \subseteq Tasks /\ Reaper \in Tasks
  BY DEF EngineInv, TypeOK, Tasks
<1>3. CASE ReaperWakes
  <2>1. [IdleTask EXCEPT !.pc = "reap"].pc = "reap"
    BY DEF IdleTask
  <2>2. QED BY <1>1, <1>2, <1>3, <2>1, CallersShape
            DEF ReaperWakes, Enqueue, ShapeInv, CallInv
<1>4. ASSUME NEW a \in Admins, Admin(a)
      PROVE  ShapeInv' /\ Gains
  <2>1. \A u \in Tasks \ {a} : task'[u] = task[u]
    BY <1>2, <1>4
       DEF Admin, AdminWarm, AdminEvict, AdminDelete, AdminCeiling, Enqueue
  <2>2. QED BY <1>1, <1>4, <2>1, CallersShape DEF ShapeInv, CallInv
<1>5. QED BY <1>3, <1>4

LEMMA BeginShutdownShape ==
  ASSUME EngineInv, ShapeInv, BeginShutdown
  PROVE  ShapeInv' /\ Gains
<1>1. /\ engine' = engine /\ older' = older /\ down'
      /\ section' = section \/ section' = FreeSection
  BY DEF BeginShutdown
<1>2. \A t \in Tasks : task'[t].pc \in {"idle", "release", "shutdown"}
  <2>1. task \in [Tasks -> TaskRecord] /\ Reaper \in Tasks
    BY DEF EngineInv, TypeOK, Tasks
  <2>2. task'[Reaper].pc = "shutdown"
    BY <2>1 DEF BeginShutdown, TaskRecord
  <2>3. \A t \in Tasks \ {Reaper} : task'[t] = task[t]
    BY <2>1 DEF BeginShutdown
  <2>4. QED BY <2>2, <2>3 DEF BeginShutdown, Tasks
<1>3. QED BY <1>1, <1>2, CallersShape DEF CallInv, Upward

LEMMA NextShape ==
  ASSUME EngineInv, ShapeInv, Next
  PROVE  ShapeInv' /\ Gains
  BY LockedShape, StopNextShape, KillShape, EnvironmentShape, RequestShape,
     OtherCallersShape, BeginShutdownShape
  DEF Next

LEMMA InitShape ==
  ASSUME Init
  PROVE  ShapeInv
<1>1. Live(engine) = {}
  BY DEF Init, Live, NoRecord
<1>2. OrderInv
  BY <1>1 DEF OrderInv, Sorted, Init
<1>3. BindingInv /\ CallInv /\ MemoryInv
  BY DEF Init, BindingInv, CallInv, MemoryInv, NoRecord, FreeSection, Loading, IdleTask
<1>4. QED BY <1>2, <1>3 DEF ShapeInv

\* The second invariant holds of every reachable state.
THEOREM Shape == Spec => []ShapeInv
<1>1. Init => ShapeInv
  BY InitShape
<1>2. EngineInv /\ ShapeInv /\ [Next]_vars => ShapeInv'
  <2>1. ASSUME ShapeInv, UNCHANGED vars
        PROVE  ShapeInv'
    BY <2>1 DEF vars, ShapeInv, OrderInv, BindingInv, CallInv, MemoryInv, Live
  <2>2. QED BY <2>1, NextShape
<1>3. QED BY <1>1, <1>2, Invariant, PTL DEF Spec

\* No request is given an engine marked failed or whose process is gone: the
\* exit code is read under the lock, in the step that leases (_acquire).
THEOREM FailedUnleased == Spec => FailedNotLeased
<1>1. EngineInv /\ ShapeInv /\ [Next]_vars => [Gains]_vars
  BY NextShape
<1>2. Spec => [][Gains]_vars
  BY <1>1, Invariant, Shape, PTL DEF Spec
<1>3. QED BY <1>2 DEF FailedNotLeased, Gains

----------------------------------------------------------------------------
(* The ceiling.  Idle engines are bounded whenever no enforcement is       *)
(* pending; while the lock is held, RoomInv says what each phase already   *)
(* knows: an admitted launch leaves room for one more, a clearing leaves   *)
(* idle engines within the ceiling once its victims are gone.              *)

\* No management call outside S has a new ceiling to enforce.
Settled(S) == \A a \in Admins \ S : task[a].pc # "enforce"

\* The engines that stay idle when the owner of the lock is done clearing.
Spared ==
  IF task[Head(queue)].pc \in {"enforce", "release"}
    THEN Idle(engine) \ section.victims
    ELSE Idle(engine)

Roomy ==
  /\ section.phase \in {"free", "replace", "room"} =>
       Cardinality(Idle(engine)) <= maxResident
  /\ section.phase = "launch" => Cardinality(Live(engine)) < maxResident
  /\ section.phase = "clear" => Cardinality(Spared) <= maxResident

RoomInv ==
  Settled(IF section.phase = "free" THEN {} ELSE {Head(queue)}) => Roomy

LEMMA EnginesFinite ==
  ASSUME NEW S \in SUBSET Engines
  PROVE  IsFiniteSet(S) /\ Cardinality(S) \in Nat
  BY SetsAssumption, FS_Subset, FS_CardinalityType

LEMMA Fewer ==
  ASSUME NEW S \in SUBSET Engines, NEW T \in SUBSET S
  PROVE  Cardinality(T) <= Cardinality(S) /\ Cardinality(T) \in Nat
         /\ Cardinality(S) \in Nat
  BY EnginesFinite, FS_Subset

LEMMA CeilingIsNat ==
  ASSUME EngineInv
  PROVE  maxResident \in Nat \ {0}
  BY CeilingAssumption DEF EngineInv, TypeOK

LEMMA EnterRoom ==
  ASSUME RoomInv, NEW t, NEW p, p # "enforce", Enters(t, p), Settled({t})
  PROVE  Cardinality(Idle(engine)) <= maxResident
  BY DEF RoomInv, Roomy, Settled, Enters

LEMMA InsideRoom ==
  ASSUME RoomInv, NEW t, Inside(t), Settled({t})
  PROVE  Roomy
  BY DEF RoomInv, Settled, Inside

\* The same four ways out of a step, for the ceiling.
LEMMA LeaveRoom ==
  ASSUME EngineInv, NEW t \in Tasks, NEW E, NEW O, Leave(t, E, O),
         maxResident' = maxResident,
         Settled({t}) => Cardinality(Idle(E)) <= maxResident
  PROVE  RoomInv'
<1>1. section' = FreeSection /\ engine' = E
  BY DEF Leave, Done
<1>2. \A u \in Tasks \ {t} : task'[u] = task[u]
  BY DEF Leave, Done, EngineInv, TypeOK
<1>3. Settled({})' => Settled({t})
  BY <1>2 DEF Settled, Tasks
<1>4. section'.phase = "free"
  BY <1>1 DEF FreeSection
<1>5. Settled({})' => Cardinality(Idle(engine')) <= maxResident'
  BY <1>1, <1>3
<1>6. QED BY <1>4, <1>5 DEF RoomInv, Roomy

LEMMA StopRoom ==
  ASSUME EngineInv, NEW t, Owner(t), NEW E \in Table, NEW O,
         NEW p \in Phase \ {"free", "launch"}, NEW V \in SUBSET Live(E), NEW b,
         Stop(E, O, p, V, b), maxResident' = maxResident,
         Settled({t}) =>
           /\ p \in {"replace", "room"} => Cardinality(Idle(E)) <= maxResident
           /\ p = "clear" =>
                Cardinality(IF task[t].pc \in {"enforce", "release"}
                              THEN Idle(E) \ V ELSE Idle(E)) <= maxResident
  PROVE  RoomInv'
<1>1. PICK v \in V :
        /\ engine' = [E EXCEPT ![v] = Stopped(E[v])]
        /\ section' = [phase |-> p, victims |-> V \ {v},
                       subject |-> v, loading |-> b]
        /\ UNCHANGED <<registry, task, queue>>
  BY DEF Stop
<1>2. v \in Engines /\ E[v] \in Record
  BY DEF Live, Table
<1>3. /\ engine'[v].terminated
      /\ \A e \in Engines \ {v} : engine'[e] = E[e]
  BY <1>1, <1>2 DEF Stopped, Table, Record
<1>4. Idle(engine') = Idle(E) \ {v} /\ Idle(E) \in SUBSET Engines
  BY <1>3 DEF Idle, Live
<1>5. Idle(engine') \ (V \ {v}) = Idle(E) \ V
  BY <1>4
<1>6. Cardinality(Idle(engine')) <= Cardinality(Idle(E))
      /\ Cardinality(Idle(engine')) \in Nat /\ Cardinality(Idle(E)) \in Nat
  BY <1>4, Fewer
<1>7. /\ section'.phase = p /\ section'.victims = V \ {v}
      /\ task' = task /\ queue' = queue /\ t = Head(queue)
  BY <1>1 DEF Owner
<1>8. ASSUME Settled({t})
      PROVE  Roomy'
  <2>1. p \in {"replace", "room"} => Cardinality(Idle(engine')) <= maxResident'
    BY <1>6, <1>8, CeilingIsNat
  <2>2. p = "clear" => Cardinality(Spared') <= maxResident'
    <3>1. Spared' = IF task[t].pc \in {"enforce", "release"}
                      THEN Idle(engine') \ (V \ {v}) ELSE Idle(engine')
      BY <1>7 DEF Spared
    <3>2. QED BY <1>5, <1>6, <1>8, <3>1, CeilingIsNat
  <2>3. QED BY <1>7, <2>1, <2>2 DEF Roomy
<1>9. QED BY <1>7, <1>8 DEF RoomInv, Settled

\* Before orders the live engines strictly.
LEMMA LiveOrdered ==
  ASSUME BindingInv, NEW O, Sorted(O, Live(engine)), NEW S \in SUBSET Live(engine)
  PROVE  Ordered(S, O)
<1> DEFINE rank == [x \in S |-> Priority[engine[x].binding]]
<1>1. \A x \in S : rank[x] \in Int
  BY BindingAssumption DEF BindingInv, Live
<1>2. \A x, y \in S : Before(O, x, y) <=>
        rank[x] < rank[y] \/ (rank[x] = rank[y] /\ <<x, y>> \in O)
  BY DEF Before
<1>3. /\ \A x \in S : <<x, x>> \notin O
      /\ \A x, y \in S : x # y => <<x, y>> \in O \/ <<y, x>> \in O
      /\ \A x, y, z \in S : <<x, y>> \in O /\ <<y, z>> \in O => <<x, z>> \in O
  BY DEF Sorted
<1> HIDE DEF rank
<1>4. ASSUME NEW x \in S
      PROVE  ~Before(O, x, x)
  <2>1. rank[x] \in Int /\ <<x, x>> \notin O
    BY <1>1, <1>3
  <2>2. ~(rank[x] < rank[x])
    BY <2>1
  <2>3. QED BY <1>2, <2>1, <2>2
<1>5. ASSUME NEW x \in S, NEW y \in S, x # y
      PROVE  Before(O, x, y) \/ Before(O, y, x)
  <2>1. rank[x] \in Int /\ rank[y] \in Int
    BY <1>1
  <2>2. <<x, y>> \in O \/ <<y, x>> \in O
    BY <1>3, <1>5
  <2>3. QED BY <1>2, <2>1, <2>2
<1>6. ASSUME NEW x \in S, NEW y \in S, NEW z \in S,
             Before(O, x, y), Before(O, y, z)
      PROVE  Before(O, x, z)
  <2>1. rank[x] \in Int /\ rank[y] \in Int /\ rank[z] \in Int
    BY <1>1
  <2>2. <<x, y>> \in O /\ <<y, z>> \in O => <<x, z>> \in O
    BY <1>3
  <2>3. QED BY <1>2, <1>6, <2>1, <2>2
<1>7. QED BY <1>4, <1>5, <1>6 DEF Ordered

\* What the ceiling leaves of the engines that are not draining.
LEMMA Undrained ==
  ASSUME NEW E
  PROVE  /\ Live(E) \ Draining(E) \in SUBSET Engines
         /\ Cardinality(Live(E) \ Draining(E))
              = Cardinality(Live(E)) - Cardinality(Draining(E))
         /\ Cardinality(Live(E)) \in Nat /\ Cardinality(Draining(E)) \in Nat
<1>1. Live(E) \in SUBSET Engines /\ Draining(E) \in SUBSET Engines
      /\ Live(E) \cap Draining(E) = Draining(E)
  BY DEF Live, Draining
<1>2. QED BY <1>1, EnginesFinite, FS_Difference

\* What enforcement leaves idle fits: it drains or stops the whole excess.
LEMMA DrainExcessRoom ==
  ASSUME EngineInv, BindingInv, NEW t, Owner(t), NEW E, Calm(E), DrainsIn(E, {}),
         NEW O, Sorted(O, Live(engine)), task[t].pc \in {"release", "enforce"},
         DrainExcess(t, E, O), maxResident' = maxResident
  PROVE  RoomInv'
<1> DEFINE S == Live(E) \ Draining(E)
           excess == Cardinality(Live(E)) - maxResident
                       - Cardinality(Draining(E))
           chosen == First(excess, S, O)
           busy == chosen \ Idle(E)
           D == [e \in Engines |->
                   IF e \in busy THEN [E[e] EXCEPT !.draining = TRUE] ELSE E[e]]
<1>1. IF chosen \cap Idle(E) = {}
        THEN Leave(t, D, O)
        ELSE Stop(D, O, "clear", chosen \cap Idle(E), Absent)
  BY DEF DrainExcess
<1>2. /\ excess \in Int /\ S \in SUBSET Live(engine) /\ IsFiniteSet(S)
      /\ Cardinality(S) - maxResident = excess /\ Cardinality(S) \in Nat
      /\ S \in SUBSET Engines
  BY Undrained, CeilingIsNat, EnginesFinite, CalmLive
<1>3. Ordered(S, O)
  BY <1>2, LiveOrdered
<1>4. /\ chosen \in SUBSET S /\ IsFiniteSet(chosen) /\ Cardinality(chosen) \in Nat
      /\ chosen # S => Cardinality(chosen) >= excess
  BY <1>2, <1>3, FirstSize
<1> HIDE DEF chosen
<1>5. Cardinality(S \ chosen) <= maxResident
  <2>1. CASE chosen = S
    <3>1. S \ chosen = {}
      BY <2>1
    <3>2. QED BY <3>1, FS_EmptySet, CeilingIsNat
  <2>2. CASE chosen # S
    <3>1. S \cap chosen = chosen
      BY <1>4
    <3>2. Cardinality(S \ chosen) = Cardinality(S) - Cardinality(chosen)
      BY <1>2, <3>1, FS_Difference
    <3>3. QED BY <1>2, <1>4, <2>2, <3>2, CeilingIsNat
  <2>3. QED BY <2>1, <2>2
<1>6. Idle(E) \subseteq S
  BY DEF DrainsIn, Idle, Draining, Live
<1>7. Cardinality(Idle(E) \ (chosen \cap Idle(E))) <= maxResident
  <2>1. Idle(E) \ (chosen \cap Idle(E)) \in SUBSET (S \ chosen)
    BY <1>6
  <2>2. QED BY <1>2, <1>5, <2>1, Fewer, CeilingIsNat
<1>8. /\ D \in Table /\ Idle(D) = Idle(E) /\ Live(D) = Live(E)
  <2>1. ASSUME NEW e \in Engines
        PROVE  /\ D[e] \in Record /\ D[e].terminated = E[e].terminated
               /\ D[e].inflight = E[e].inflight
    <3>1. E[e] \in Record
      BY DEF Calm, Table
    <3>2. [E[e] EXCEPT !.draining = TRUE] \in Record
      BY <3>1, FieldTypes
    <3>3. CASE e \in busy
      BY <3>1, <3>2, <3>3 DEF Record
    <3>4. CASE e \notin busy
      BY <3>1, <3>4
    <3>5. QED BY <3>3, <3>4
  <2>2. QED BY <2>1 DEF Table, Idle, Live
<1> HIDE DEF D
<1>9. CASE chosen \cap Idle(E) = {}
  <2>1. Cardinality(Idle(D)) <= maxResident
    BY <1>7, <1>8, <1>9
  <2>2. QED BY <1>1, <1>9, <2>1, LeaveRoom DEF Owner
<1>10. CASE chosen \cap Idle(E) # {}
  <2>1. chosen \cap Idle(E) \in SUBSET Live(D) /\ "clear" \in Phase \ {"free", "launch"}
    BY <1>8 DEF Idle, Phase
  <2>2. Cardinality(IF task[t].pc \in {"enforce", "release"}
                      THEN Idle(D) \ (chosen \cap Idle(E)) ELSE Idle(D))
          <= maxResident
    BY <1>7, <1>8
  <2>3. QED BY <1>1, <1>8, <1>10, <2>1, <2>2, StopRoom
<1>11. QED BY <1>9, <1>10

LEMMA SweepRoom ==
  ASSUME EngineInv, BindingInv, NEW t, Owner(t), NEW E, Calm(E), DrainsIn(E, {}),
         NEW O, Sorted(O, Live(engine)), task[t].pc \in {"release", "enforce"},
         Sweep(t, E, O), maxResident' = maxResident
  PROVE  RoomInv'
<1>1. CASE Cardinality(Live(E)) <= maxResident /\ Leave(t, E, O)
  <2>1. Live(E) \in SUBSET Engines /\ Idle(E) \in SUBSET Live(E)
    BY DEF Live, Idle
  <2>2. Cardinality(Idle(E)) <= maxResident
    BY <1>1, <2>1, Fewer, CeilingIsNat
  <2>3. QED BY <1>1, <2>2, LeaveRoom DEF Owner
<1>2. CASE DrainExcess(t, E, O)
  BY <1>2, DrainExcessRoom
<1>3. ASSUME NEW n, NEW V, V = First(n, Evictable(E), O),
             Stop(E, O, "sweep", V, Absent)
      PROVE  RoomInv'
  <2>1. V \in SUBSET Live(E) /\ E \in Table
    BY <1>3 DEF First, Evictable, Idle, Calm
  <2>2. "sweep" \in Phase \ {"free", "launch"}
    BY DEF Phase
  <2>3. QED BY <1>3, <2>1, <2>2, StopRoom
<1>4. QED BY <1>1, <1>2, <1>3 DEF Sweep

LEMMA AdmitRoom ==
  ASSUME EngineInv, NEW t, Owner(t), NEW b, Admit(t, b), maxResident' = maxResident,
         Settled({t}) => Cardinality(Idle(engine)) <= maxResident
  PROVE  RoomInv'
<1>1. CASE Leave(t, engine, older)
  BY <1>1, LeaveRoom DEF Owner
<1>2. CASE ~Leave(t, engine, older)
  <2>1. PICK s \in Engines :
          /\ Free(s)
          /\ engine' = [engine EXCEPT ![s] = [NoRecord EXCEPT !.proc = "starting"]]
          /\ section' = [phase |-> "launch", victims |-> {}, subject |-> s,
                         loading |-> b]
    BY <1>2 DEF Admit
  <2>2. Cardinality(Live(engine)) < maxResident
    BY <1>2 DEF Admit
  <2>3. Live(engine') = Live(engine)
    <3>1. engine'[s].terminated /\ engine[s].terminated
          /\ \A e \in Engines \ {s} : engine'[e] = engine[e]
      BY <2>1 DEF EngineInv, TypeOK, NoRecord, Free
    <3>2. QED BY <3>1 DEF Live
  <2>4. section'.phase = "launch"
    BY <2>1
  <2>5. QED BY <2>2, <2>3, <2>4 DEF RoomInv, Roomy
<1>3. QED BY <1>1, <1>2

LEMMA MakeRoomRoom ==
  ASSUME EngineInv, NEW t, Owner(t), NEW b, MakeRoom(t, b),
         maxResident' = maxResident,
         Settled({t}) => Cardinality(Idle(engine)) <= maxResident
  PROVE  RoomInv'
<1>1. CASE Admit(t, b)
  BY <1>1, AdmitRoom
<1>2. ASSUME NEW n, NEW V, V = First(n, Evictable(engine), older),
             Stop(engine, older, "room", V, b)
      PROVE  RoomInv'
  <2>1. V \in SUBSET Live(engine) /\ engine \in Table
    BY <1>2, Stable DEF First, Evictable, Idle
  <2>2. "room" \in Phase \ {"free", "launch"}
    BY DEF Phase
  <2>3. QED BY <1>2, <2>1, <2>2, StopRoom
<1>3. QED BY <1>1, <1>2 DEF MakeRoom

LEMMA ServeRoom ==
  ASSUME EngineInv, NEW t, Owner(t), NEW E \in Table, NEW O, NEW e \in Engines,
         Serve(t, E, O, e), maxResident' = maxResident, E[e].inflight \in Nat,
         Settled({t}) => Cardinality(Idle(E)) <= maxResident
  PROVE  RoomInv'
<1>1. section'.phase = "free" /\ t \in Tasks
  BY DEF Serve, FreeSection, Owner
<1>2. \A u \in Tasks \ {t} : task'[u] = task[u]
  BY <1>1 DEF Serve, EngineInv, TypeOK
<1>3. Settled({})' => Settled({t})
  BY <1>2 DEF Settled, Tasks
<1>4. Idle(engine') \in SUBSET Idle(E) /\ Idle(E) \in SUBSET Engines
  <2>1. engine' = E \/ engine' = [E EXCEPT ![e].inflight = @ + 1]
    BY DEF Serve
  <2>2. \A x \in Engines \ {e} : engine'[x] = E[x]
    BY <2>1 DEF Table
  <2>3. /\ engine'[e].terminated = E[e].terminated
        /\ engine'[e].inflight \in {E[e].inflight, E[e].inflight + 1}
    BY <2>1 DEF Table, Record
  <2>4. engine'[e].inflight = 0 => E[e].inflight = 0
    BY <2>3
  <2>5. QED BY <2>2, <2>3, <2>4 DEF Idle, Live
<1>5. Settled({})' => Cardinality(Idle(engine')) <= maxResident'
  BY <1>3, <1>4, Fewer, CeilingIsNat
<1>6. QED BY <1>1, <1>5 DEF RoomInv, Roomy

LEMMA MarkIdle ==
  ASSUME NEW E \in Table, NEW e \in Engines
  PROVE  /\ Idle([E EXCEPT ![e].failed = TRUE]) = Idle(E)
         /\ Idle([E EXCEPT ![e].draining = TRUE]) = Idle(E)
         /\ [E EXCEPT ![e].failed = TRUE] \in Table
         /\ [E EXCEPT ![e].draining = TRUE] \in Table
<1>1. E[e] \in Record
  BY DEF Table
<1>2. /\ [E[e] EXCEPT !.failed = TRUE] \in Record
      /\ [E[e] EXCEPT !.draining = TRUE] \in Record
  BY <1>1, FieldTypes
<1>3. /\ [E[e] EXCEPT !.failed = TRUE].terminated = E[e].terminated
      /\ [E[e] EXCEPT !.failed = TRUE].inflight = E[e].inflight
      /\ [E[e] EXCEPT !.draining = TRUE].terminated = E[e].terminated
      /\ [E[e] EXCEPT !.draining = TRUE].inflight = E[e].inflight
  BY <1>1 DEF Record
<1>4. ASSUME NEW r \in Record, r.terminated = E[e].terminated,
             r.inflight = E[e].inflight
      PROVE  Idle([E EXCEPT ![e] = r]) = Idle(E) /\ [E EXCEPT ![e] = r] \in Table
  BY <1>4 DEF Idle, Live, Table
<1>5. /\ [E EXCEPT ![e].failed = TRUE]
           = [E EXCEPT ![e] = [E[e] EXCEPT !.failed = TRUE]]
      /\ [E EXCEPT ![e].draining = TRUE]
           = [E EXCEPT ![e] = [E[e] EXCEPT !.draining = TRUE]]
  BY DEF Table
<1>6. QED BY <1>2, <1>3, <1>4, <1>5

LEMMA UpRoom ==
  ASSUME RoomInv, NEW t, EntersUp(t), Settled({t})
  PROVE  Cardinality(Idle(engine)) <= maxResident
  BY EnterRoom DEF EntersUp

LEMMA LoadersRoom ==
  ASSUME EngineInv, RoomInv, NEW t \in Tasks,
         NotManaged(t) \/ Load(t) \/ AfterReplace(t) \/ AfterRoom(t)
  PROVE  RoomInv'
<1>1. CASE NotManaged(t)
  BY <1>1, UpRoom, LeaveRoom DEF NotManaged
<1>2. CASE Load(t)
  <2>1. /\ EntersUp(t) /\ MakeRoom(t, registry[task[t].lid])
        /\ UNCHANGED <<maxResident, down>>
    BY <1>2 DEF Load
  <2>2. QED BY <2>1, UpOwner, UpRoom, MakeRoomRoom
<1>3. CASE AfterReplace(t)
  <2>1. /\ Resumes(t, "replace") /\ MakeRoom(t, section.loading)
        /\ UNCHANGED <<maxResident, down>>
    BY <1>3 DEF AfterReplace
  <2>2. Owner(t) /\ Inside(t) /\ section.phase = "replace"
    BY <2>1, OwnerInside
  <2>3. Settled({t}) => Cardinality(Idle(engine)) <= maxResident
    BY <2>2, InsideRoom DEF Roomy
  <2>4. QED BY <2>1, <2>2, <2>3, MakeRoomRoom
<1>4. CASE AfterRoom(t)
  <2>1. /\ Resumes(t, "room") /\ Admit(t, section.loading)
        /\ UNCHANGED <<maxResident, down>>
    BY <1>4 DEF AfterRoom
  <2>2. Owner(t) /\ Inside(t) /\ section.phase = "room"
    BY <2>1, OwnerInside
  <2>3. Settled({t}) => Cardinality(Idle(engine)) <= maxResident
    BY <2>2, InsideRoom DEF Roomy
  <2>4. QED BY <2>1, <2>2, <2>3, AdmitRoom
<1>5. QED BY <1>1, <1>2, <1>3, <1>4

LEMMA ReuseRoom ==
  ASSUME EngineInv, RoomInv, NEW t \in Tasks, Reuse(t)
  PROVE  RoomInv'
<1> DEFINE w == Wanted(t)
           E == [Fresh(engine, w) EXCEPT ![w].draining = FALSE]
<1>1. Owner(t) /\ task[t].lid \in Lids /\ EntersUp(t)
  BY UpOwner DEF Reuse
<1>2. /\ w \in Engines /\ engine[w] \in Record /\ engine[w].inflight \in Nat
  BY <1>1, Listed DEF Reuse, Wanted
<1>3. /\ E \in Table /\ E[w].terminated = engine[w].terminated
      /\ E[w].inflight = engine[w].inflight
      /\ \A x \in Engines \ {w} : E[x] = engine[x]
  BY <1>2, Stable DEF Fresh, Table, Record
<1>4. Serve(t, E, older, w) /\ UNCHANGED <<maxResident, down>>
  BY DEF Reuse
<1> HIDE DEF E, w
<1>5. Idle(E) = Idle(engine)
  BY <1>3 DEF Idle, Live
<1>6. QED BY <1>1, <1>2, <1>3, <1>4, <1>5, UpRoom, ServeRoom

LEMMA ReplaceRoom ==
  ASSUME EngineInv, RoomInv, NEW t \in Tasks, Replace(t)
  PROVE  RoomInv'
<1> DEFINE w == Wanted(t)
           F == [engine EXCEPT ![w].failed = TRUE]
           G == [F EXCEPT ![w].draining = TRUE]
           b == registry[task[t].lid]
<1>1. Owner(t) /\ task[t].lid \in Lids /\ EntersUp(t)
  BY UpOwner DEF Replace
<1>2. w \in Engines /\ ~engine[w].terminated
  BY <1>1, Listed DEF Replace, Wanted
<1>3. /\ F \in Table /\ G \in Table
      /\ Idle(F) = Idle(engine) /\ Idle(G) = Idle(engine)
  <2>1. F \in Table /\ Idle(F) = Idle(engine)
    BY <1>2, Stable, MarkIdle
  <2> HIDE DEF F
  <2>2. QED BY <1>2, <2>1, MarkIdle
<1>4. w \in Live(F)
  BY <1>2, Stable DEF Live, Table, Record
<1>5. Leave(t, G, older) \/ Stop(F, older, "replace", {w}, b)
  BY DEF Replace
<1>6. UNCHANGED <<maxResident, down>>
  BY DEF Replace
<1> HIDE DEF F, G, w, b
<1>7. CASE Leave(t, G, older)
  BY <1>1, <1>3, <1>6, <1>7, UpRoom, LeaveRoom
<1>8. CASE Stop(F, older, "replace", {w}, b)
  <2>1. "replace" \in Phase \ {"free", "launch"} /\ {w} \in SUBSET Live(F)
    BY <1>4 DEF Phase
  <2>2. QED BY <1>1, <1>3, <1>6, <1>8, <2>1, UpRoom, StopRoom
<1>9. QED BY <1>5, <1>7, <1>8

LEMMA LaunchRoom ==
  ASSUME EngineInv, RoomInv, NEW t \in Tasks, LaunchOk(t) \/ LaunchFails(t)
  PROVE  RoomInv'
<1> DEFINE s == section.subject
<1>1. Inside(t) /\ section.phase = "launch" /\ section.phase \in Loading
      /\ maxResident' = maxResident
  BY DEF LaunchOk, LaunchFails, Launching, Loading
<1>2. /\ Owner(t) /\ s \in Engines /\ engine[s].terminated /\ engine \in Table
      /\ task[t].lid \in Lids /\ section.loading \in Bindings \cup {Absent}
  BY <1>1, LoadingFacts, Stable
<1>3. Settled({t}) => Cardinality(Live(engine)) < maxResident
  BY <1>1, InsideRoom DEF Roomy
<1>4. Live(engine) \in SUBSET Engines
  BY DEF Live
<1>5. CASE LaunchOk(t)
  <2> DEFINE r == Spawned(task[t].lid, section.loading)
             E == [engine EXCEPT ![s] = r]
  <2>1. Serve(t, E, older, s)
    BY <1>5 DEF LaunchOk
  <2>2. r \in Record /\ r.inflight = 0
    BY <1>2 DEF Spawned, Record, Proc
  <2> HIDE DEF r
  <2>3. E \in Table /\ E[s] = r /\ \A x \in Engines \ {s} : E[x] = engine[x]
    BY <1>2, <2>2 DEF Table
  <2> HIDE DEF E
  <2>4. Idle(E) \in SUBSET (Live(engine) \cup {s})
    BY <2>3 DEF Idle, Live
  <2>5. Settled({t}) => Cardinality(Idle(E)) <= maxResident
    <3>1. Cardinality(Live(engine) \cup {s}) <= Cardinality(Live(engine)) + 1
          /\ Cardinality(Live(engine)) \in Nat
      BY <1>4, EnginesFinite, FS_AddElement
    <3>2. Live(engine) \cup {s} \in SUBSET Engines
      BY <1>2, <1>4
    <3>3. Cardinality(Idle(E)) <= Cardinality(Live(engine) \cup {s})
          /\ Cardinality(Idle(E)) \in Nat
          /\ Cardinality(Live(engine) \cup {s}) \in Nat
      BY <2>4, <3>2, Fewer
    <3>4. QED BY <1>3, <3>1, <3>3, CeilingIsNat
  <2> HIDE DEF s
  <2>6. QED BY <1>1, <1>2, <2>1, <2>2, <2>3, <2>5, ServeRoom
<1>6. CASE LaunchFails(t)
  <2>1. PICK p : Leave(t, [engine EXCEPT ![s].proc = p], older)
    BY <1>6 DEF LaunchFails
  <2> DEFINE E == [engine EXCEPT ![s].proc = p]
  <2>2. E[s].terminated /\ \A x \in Engines \ {s} : E[x] = engine[x]
    BY <1>2 DEF Table, Record
  <2>3. Leave(t, E, older)
    BY <2>1
  <2> HIDE DEF E
  <2>4. Idle(E) \in SUBSET Live(engine)
    BY <2>2 DEF Idle, Live
  <2>5. Settled({t}) => Cardinality(Idle(E)) <= maxResident
    BY <1>3, <1>4, <2>4, Fewer, CeilingIsNat
  <2>6. QED BY <1>1, <2>3, <2>5, LeaveRoom
<1>7. QED BY <1>5, <1>6

LEMMA ReleaseRoom ==
  ASSUME EngineInv, ShapeInv, RoomInv, NEW t \in Tasks, Release(t)
  PROVE  RoomInv'
<1> DEFINE e == task[t].held
           E == Back(t)
           O == BackOrder(t)
<1>1. Enters(t, "release") /\ maxResident' = maxResident
  BY DEF Release
<1>2. IF E[e].draining /\ E[e].inflight = 0 /\ ~E[e].terminated
        THEN Stop(E, O, "retire", {resident[E[e].lid]}, Absent)
        ELSE IF E[e].inflight = 0 THEN Sweep(t, E, O) ELSE Leave(t, E, O)
  BY DEF Release, Back, BackOrder
<1>3. /\ Owner(t) /\ Calm(E) /\ Sorted(O, Live(engine)) /\ task[t].pc = "release"
      /\ e \in Engines /\ \A x \in Engines \ {e} : E[x] = engine[x]
      /\ ~E[e].terminated => resident[E[e].lid] \in Live(engine)
      /\ ~(E[e].draining /\ E[e].inflight = 0 /\ ~E[e].terminated)
              => DrainsIn(E, {})
  BY <1>1, ReleaseTable
<1> HIDE DEF E, O, e
<1>4. CASE /\ ~(E[e].draining /\ E[e].inflight = 0 /\ ~E[e].terminated)
           /\ Sweep(t, E, O)
  BY <1>1, <1>3, <1>4, SweepRoom DEF ShapeInv
<1>5. CASE E[e].inflight # 0 /\ Leave(t, E, O)
  <2>1. Idle(E) \in SUBSET Idle(engine) /\ Idle(engine) \in SUBSET Engines
    BY <1>3, <1>5 DEF Idle, Live
  <2>2. Settled({t}) => Cardinality(Idle(E)) <= maxResident
    BY <1>1, <2>1, EnterRoom, Fewer, CeilingIsNat
  <2>3. QED BY <1>1, <1>5, <2>2, LeaveRoom
<1>6. CASE ~E[e].terminated /\ Stop(E, O, "retire", {resident[E[e].lid]}, Absent)
  <2>1. "retire" \in Phase \ {"free", "launch"}
    BY DEF Phase
  <2>2. {resident[E[e].lid]} \in SUBSET Live(E) /\ E \in Table
    BY <1>3, <1>6, CalmLive DEF Calm
  <2>3. QED BY <1>1, <1>3, <1>6, <2>1, <2>2, StopRoom
<1>7. QED BY <1>2, <1>4, <1>5, <1>6

LEMMA SweepersRoom ==
  ASSUME EngineInv, ShapeInv, RoomInv, NEW t \in Tasks,
         AfterRetire(t) \/ EnforceCeiling(t) \/ AfterSweep(t) \/ AfterClear(t)
  PROVE  RoomInv'
<1>1. /\ Sorted(older, Live(engine)) /\ Calm(engine) /\ DrainsIn(engine, {})
      /\ BindingInv
  BY EngineCalm, Stable DEF ShapeInv, OrderInv
<1>2. CASE AfterRetire(t)
  <2>1. /\ Owner(t) /\ Inside(t) /\ section.phase = "retire"
        /\ Sweep(t, engine, older) /\ maxResident' = maxResident
    BY <1>2, OwnerInside DEF AfterRetire
  <2>2. task[t].pc = "release"
    BY <2>1 DEF EngineInv, SectionInv, Awaits, Inside
  <2>3. QED BY <1>1, <2>1, <2>2, SweepRoom
<1>3. CASE EnforceCeiling(t)
  <2>1. "enforce" \in Waiting
    BY DEF Waiting, Pc
  <2>2. Owner(t) /\ task[t].pc = "enforce" /\ Sweep(t, engine, older)
        /\ maxResident' = maxResident
    BY <1>3, <2>1, OwnerOf DEF EnforceCeiling
  <2>3. QED BY <1>1, <2>2, SweepRoom
<1>4. CASE AfterSweep(t)
  <2>1. /\ Owner(t) /\ Inside(t) /\ section.phase = "sweep"
        /\ DrainExcess(t, engine, older) /\ maxResident' = maxResident
    BY <1>4, OwnerInside DEF AfterSweep
  <2>2. task[t].pc \in {"release", "enforce"}
    BY <2>1 DEF EngineInv, SectionInv, Awaits, Inside
  <2>3. QED BY <1>1, <2>1, <2>2, DrainExcessRoom
<1>5. CASE AfterClear(t)
  <2>1. /\ Inside(t) /\ section.phase = "clear" /\ section.victims = {}
        /\ Leave(t, engine, older) /\ maxResident' = maxResident
    BY <1>5 DEF AfterClear, Resumes
  <2>2. Settled({t}) => Cardinality(Idle(engine)) <= maxResident
    <3>1. Spared = Idle(engine)
      BY <2>1 DEF Spared
    <3>2. QED BY <2>1, <3>1, InsideRoom DEF Roomy
  <2>3. QED BY <2>1, <2>2, LeaveRoom
<1>6. QED BY <1>2, <1>3, <1>4, <1>5

\* The operations that stop some engines, or none, and sweep nothing.
LEMMA ClearRoom ==
  ASSUME EngineInv, RoomInv, NEW t, Owner(t), NEW E \in Table,
         Idle(E) = Idle(engine),
         NEW p \in {"evict", "delete", "mark", "reap", "shutdown"},
         Enters(t, p), maxResident' = maxResident,
         \/ Leave(t, E, older)
         \/ \E V \in SUBSET Live(E) : Stop(E, older, "clear", V, Absent)
  PROVE  RoomInv'
<1>1. Settled({t}) => Cardinality(Idle(E)) <= maxResident
  BY EnterRoom
<1>2. /\ task[t].pc \notin {"enforce", "release"}
      /\ "clear" \in Phase \ {"free", "launch"}
  BY DEF Enters, Phase
<1>3. CASE Leave(t, E, older)
  BY <1>1, <1>3, LeaveRoom DEF Owner
<1>4. ASSUME NEW V \in SUBSET Live(E), Stop(E, older, "clear", V, Absent)
      PROVE  RoomInv'
  BY <1>1, <1>2, <1>4, StopRoom
<1>5. QED BY <1>3, <1>4

LEMMA StoppersRoom ==
  ASSUME EngineInv, RoomInv, NEW t \in Tasks,
         Evict(t) \/ Reap(t) \/ Shutdown(t) \/ MarkFailed(t)
  PROVE  RoomInv'
<1>1. /\ {"evict", "delete", "reap", "shutdown", "mark"} \subseteq Waiting
      /\ engine \in Table /\ maxResident' = maxResident
  BY Stable DEF Waiting, Pc, Evict, Reap, Shutdown, MarkFailed
<1>2. CASE Reap(t) \/ Shutdown(t)
  <2>1. \A V : V \subseteq Idle(engine) => V \in SUBSET Live(engine)
    BY DEF Idle
  <2>2. \/ Leave(t, engine, older)
        \/ \E V \in SUBSET Live(engine) : Stop(engine, older, "clear", V, Absent)
    BY <1>2, <2>1 DEF Reap, Shutdown
  <2>3. Enters(t, "reap") \/ Enters(t, "shutdown")
    BY <1>2 DEF Reap, Shutdown
  <2>4. Owner(t)
    BY <1>1, <2>3, OwnerOf
  <2>5. QED BY <1>1, <2>2, <2>3, <2>4, ClearRoom
<1>3. CASE Evict(t) \/ MarkFailed(t)
  <2> DEFINE e == resident[task[t].lid]
             D == [engine EXCEPT ![e].draining = TRUE]
             F == [engine EXCEPT ![e].failed = TRUE]
             G == [F EXCEPT ![e].draining = TRUE]
  <2>1. PICK p \in {"evict", "delete", "mark"} : Enters(t, p)
    BY <1>3 DEF Evict, MarkFailed
  <2>2. Owner(t) /\ task[t].pc = p
    BY <1>1, <2>1, OwnerOf
  <2>3. task[t].lid \in Lids
    BY <2>2 DEF EngineInv, TaskInv, Named
  <2>4. \/ Leave(t, engine, older)
        \/ /\ e # NoEngine
           /\ \/ Leave(t, D, older) \/ Leave(t, G, older)
              \/ Stop(engine, older, "clear", {e}, Absent)
              \/ Stop(F, older, "clear", {e}, Absent)
    BY <1>3 DEF Evict, MarkFailed
  <2>5. ASSUME e # NoEngine
        PROVE  /\ e \in Engines /\ {e} \in SUBSET Live(engine)
               /\ D \in Table /\ Idle(D) = Idle(engine)
               /\ F \in Table /\ Idle(F) = Idle(engine) /\ {e} \in SUBSET Live(F)
               /\ G \in Table /\ Idle(G) = Idle(engine)
    <3>1. e \in Engines /\ ~engine[e].terminated /\ engine[e] \in Record
      BY <2>3, <2>5, Listed
    <3>2. /\ D \in Table /\ Idle(D) = Idle(engine)
          /\ F \in Table /\ Idle(F) = Idle(engine)
      BY <1>1, <3>1, MarkIdle
    <3>3. ~F[e].terminated
      BY <1>1, <3>1 DEF Table, Record
    <3> HIDE DEF F
    <3>4. G \in Table /\ Idle(G) = Idle(engine)
      BY <3>1, <3>2, MarkIdle
    <3>5. QED BY <3>1, <3>2, <3>3, <3>4 DEF Live
  <2> HIDE DEF D, F, G, e
  <2>6. ASSUME e # NoEngine
        PROVE  RoomInv'
    <3>1. CASE Leave(t, D, older)
      BY <1>1, <2>1, <2>2, <2>5, <2>6, <3>1, ClearRoom
    <3>2. CASE Leave(t, G, older)
      BY <1>1, <2>1, <2>2, <2>5, <2>6, <3>2, ClearRoom
    <3>3. CASE Stop(engine, older, "clear", {e}, Absent)
      BY <1>1, <2>1, <2>2, <2>5, <2>6, <3>3, ClearRoom
    <3>4. CASE Stop(F, older, "clear", {e}, Absent)
      BY <1>1, <2>1, <2>2, <2>5, <2>6, <3>4, ClearRoom
    <3>5. CASE Leave(t, engine, older)
      BY <1>1, <2>1, <2>2, <3>5, ClearRoom
    <3>6. QED BY <2>4, <3>1, <3>2, <3>3, <3>4, <3>5
  <2>7. CASE Leave(t, engine, older)
    BY <1>1, <2>1, <2>2, <2>7, ClearRoom
  <2>8. QED BY <2>4, <2>6, <2>7
<1>4. QED BY <1>2, <1>3

LEMMA LockedRoom ==
  ASSUME EngineInv, ShapeInv, RoomInv, NEW t \in Tasks, Locked(t)
  PROVE  RoomInv'
  BY LoadersRoom, ReuseRoom, ReplaceRoom, LaunchRoom, ReleaseRoom,
     SweepersRoom, StoppersRoom
  DEF Locked

\* The next victim is stopped: what the phase promised stays promised.
LEMMA StopNextRoom ==
  ASSUME EngineInv, RoomInv, StopNext
  PROVE  RoomInv'
<1> DEFINE t == Head(queue)
<1>1. /\ section.phase # "free" /\ section.victims # {}
      /\ Stop(engine, older, section.phase, section.victims, section.loading)
      /\ maxResident' = maxResident
  BY DEF StopNext
<1>2. Inside(t)
  BY <1>1 DEF EngineInv, SectionInv, Inside
<1>3. Owner(t) /\ engine \in Table
  BY <1>2, InsideReady, Stable
<1>4. /\ section.phase \in Phase \ {"free", "launch"}
      /\ section.victims \in SUBSET Live(engine)
  BY <1>1 DEF EngineInv, TypeOK, SectionRecord, SectionInv, Live
<1>5. Settled({t}) => Roomy
  BY <1>2, InsideRoom
<1>6. Spared = IF task[t].pc \in {"enforce", "release"}
                 THEN Idle(engine) \ section.victims ELSE Idle(engine)
  BY DEF Spared
<1> HIDE DEF t
<1>7. QED BY <1>1, <1>3, <1>4, <1>5, <1>6, StopRoom DEF Roomy

\* A step outside the lock that takes no enforcement back.
LEMMA OutsideRoom ==
  ASSUME RoomInv,
         \A e \in Engines :
           /\ engine'[e].terminated = engine[e].terminated
           /\ engine'[e].inflight = engine[e].inflight,
         maxResident' = maxResident, section' = section,
         section.phase # "free" =>
           /\ Head(queue') = Head(queue)
           /\ task'[Head(queue)].pc = task[Head(queue)].pc,
         \A a \in Admins : task[a].pc = "enforce" => task'[a].pc = "enforce"
  PROVE  RoomInv'
<1>1. Live(engine') = Live(engine) /\ Idle(engine') = Idle(engine)
  BY DEF Live, Idle
<1>2. section.phase # "free" => Spared' = Spared
  BY <1>1 DEF Spared
<1>3. Roomy' <=> Roomy
  BY <1>1, <1>2 DEF Roomy
<1>4. Settled(IF section.phase = "free" THEN {} ELSE {Head(queue)})'
        => Settled(IF section.phase = "free" THEN {} ELSE {Head(queue)})
  BY DEF Settled
<1>5. QED BY <1>3, <1>4 DEF RoomInv

\* A task that queues, or gives up its place and queues again, leaves the
\* owner of the lock where it is.
LEMMA HeadKept ==
  ASSUME EngineInv, section.phase # "free", NEW t \in Tasks,
         \/ task[t].pc \notin Waiting /\ queue' \in {queue, Append(queue, t)}
         \/ ~Inside(t) /\ \E i \in 1..Len(queue) :
              queue[i] = t /\ queue' = Append(Without(i), t)
  PROVE  Head(queue) \in Tasks \ {t} /\ Head(queue') = Head(queue)
<1>1. queue # <<>> /\ queue \in Seq(Tasks)
  BY DEF EngineInv, SectionInv, TypeOK
<1>2. Owner(Head(queue))
  BY <1>1, InsideReady DEF Inside
<1>3. CASE task[t].pc \notin Waiting /\ queue' \in {queue, Append(queue, t)}
  BY <1>1, <1>2, <1>3 DEF Owner
<1>4. ASSUME ~Inside(t), NEW i \in 1..Len(queue), queue[i] = t,
             queue' = Append(Without(i), t)
      PROVE  Head(queue) \in Tasks \ {t} /\ Head(queue') = Head(queue)
  <2>1. Head(queue) # t /\ i # 1 /\ Len(queue) > 1
    BY <1>1, <1>4 DEF Inside
  <2>2. /\ Without(i) \in Seq(Tasks) /\ Len(Without(i)) = Len(queue) - 1
        /\ Without(i)[1] = queue[1]
    BY <1>1, <1>4, <2>1 DEF Without
  <2>3. QED BY <1>1, <1>2, <1>4, <2>1, <2>2 DEF Owner
<1>5. QED BY <1>3, <1>4

LEMMA WorldRoom ==
  ASSUME EngineInv, RoomInv, Kill \/ Environment
  PROVE  RoomInv'
<1>1. UNCHANGED <<maxResident, section, queue, task>>
  BY DEF Kill, Environment, ProcessEnds, Breaks, Expires, AdminPut
<1>2. \A e \in Engines :
        /\ engine'[e].terminated = engine[e].terminated
        /\ engine'[e].inflight = engine[e].inflight
  <2>1. engine \in Table
    BY Stable
  <2>2. CASE engine' = engine
    BY <2>2
  <2>3. ASSUME NEW x, \/ engine' = [engine EXCEPT ![x].proc = "off"]
                      \/ engine' = [engine EXCEPT ![x].broken = TRUE]
                      \/ engine' = [engine EXCEPT ![x].expired = TRUE]
        PROVE  \A e \in Engines :
                 /\ engine'[e].terminated = engine[e].terminated
                 /\ engine'[e].inflight = engine[e].inflight
    BY <2>1, <2>3 DEF Table, Record
  <2>4. QED BY <2>2, <2>3 DEF Kill, Environment, ProcessEnds, Breaks, Expires,
                              AdminPut
<1>3. QED BY <1>1, <1>2, OutsideRoom

LEMMA RequestRoom ==
  ASSUME EngineInv, RoomInv, NEW c \in Clients, Request(c)
  PROVE  RoomInv'
<1>1. UNCHANGED <<engine, maxResident, section>>
  BY DEF Request, Arrive, UseEnds, UseFails, Report, StreamFails, StreamCloses,
         StreamDropped
<1>2. c \in Tasks /\ c \notin Admins /\ task \in [Tasks -> TaskRecord]
  BY SetsAssumption DEF Tasks, EngineInv, TypeOK
<1>3. \A u \in Tasks \ {c} : task'[u] = task[u]
  BY <1>2 DEF Request, Arrive, UseEnds, UseFails, Report, StreamFails, StreamCloses,
              StreamDropped, Enqueue
<1>4. \/ task[c].pc \notin Waiting /\ queue' \in {queue, Append(queue, c)}
      \/ ~Inside(c) /\ \E i \in 1..Len(queue) :
           queue[i] = c /\ queue' = Append(Without(i), c)
  BY DEF Request, Arrive, UseEnds, UseFails, Report, StreamFails, StreamCloses,
         StreamDropped, Enqueue, Waiting
<1>5. section.phase # "free" =>
        Head(queue) \in Tasks \ {c} /\ Head(queue') = Head(queue)
  BY <1>2, <1>4, HeadKept
<1>6. \A a \in Admins : a \in Tasks \ {c}
  BY <1>2 DEF Tasks
<1>7. QED BY <1>1, <1>3, <1>5, <1>6, OutsideRoom

LEMMA CallRoom ==
  ASSUME EngineInv, RoomInv, NEW t \in Tasks, NEW r, Enqueue(t, r),
         task[t].pc = "idle", UNCHANGED <<engine, section>>,
         maxResident' = maxResident \/ (t \in Admins /\ r.pc = "enforce")
  PROVE  RoomInv'
<1>1. /\ task'[t] = r /\ \A u \in Tasks \ {t} : task'[u] = task[u]
      /\ queue' = Append(queue, t) /\ task[t].pc \notin Waiting
  BY DEF Enqueue, EngineInv, TypeOK, Waiting
<1>2. section.phase # "free" =>
        Head(queue) \in Tasks \ {t} /\ Head(queue') = Head(queue)
  BY <1>1, HeadKept
<1>3. CASE maxResident' = maxResident
  <2>1. \A a \in Admins : task[a].pc = "enforce" => a \in Tasks \ {t}
    BY DEF Tasks
  <2>2. QED BY <1>1, <1>2, <1>3, <2>1, OutsideRoom
<1>4. CASE t \in Admins /\ r.pc = "enforce"
  <2>1. /\ section.phase = "free" => ~Settled({})'
        /\ section.phase # "free" => ~Settled({Head(queue)})'
    BY <1>1, <1>2, <1>4 DEF Settled
  <2>2. QED BY <1>2, <2>1 DEF RoomInv
<1>5. QED BY <1>3, <1>4

LEMMA CallersRoom ==
  ASSUME EngineInv, RoomInv, (\E a \in Admins : Admin(a)) \/ ReaperWakes
  PROVE  RoomInv'
<1>1. Admins \subseteq Tasks /\ Reaper \in Tasks
  BY DEF Tasks
<1>2. [IdleTask EXCEPT !.pc = "enforce"].pc = "enforce"
  BY DEF IdleTask
<1>3. CASE ReaperWakes
  BY <1>1, <1>3, CallRoom DEF ReaperWakes
<1>4. ASSUME NEW a \in Admins, Admin(a)
      PROVE  RoomInv'
  BY <1>1, <1>2, <1>4, CallRoom
     DEF Admin, AdminWarm, AdminEvict, AdminDelete, AdminCeiling
<1>5. QED BY <1>3, <1>4

\* The shutdown cancels the reaper, which sweeps nothing.
LEMMA BeginShutdownRoom ==
  ASSUME EngineInv, CallInv, RoomInv, BeginShutdown
  PROVE  RoomInv'
<1>1. /\ Reaper \in Tasks /\ Reaper \notin Clients /\ Reaper \notin Admins
      /\ task[Reaper].pc # "enforce" /\ task[Reaper].pc # "release"
  BY SetsAssumption DEF Tasks, CallInv, EngineInv, TaskInv, Leasing
<1>2. /\ \A a \in Admins : task[a].pc = "idle"
      /\ \A u \in Tasks \ {Reaper} : task'[u] = task[u]
      /\ UNCHANGED <<engine, maxResident>>
      /\ section' = IF Inside(Reaper) THEN FreeSection ELSE section
  BY DEF BeginShutdown, EngineInv, TypeOK
<1>3. CASE Inside(Reaper)
  <2>1. Roomy
    BY <1>2 DEF RoomInv, Settled
  <2>2. Cardinality(Idle(engine)) <= maxResident
    <3>1. /\ Awaits(task[Reaper], section.phase) /\ section.phase \in Phase
          /\ Head(queue) = Reaper
      BY <1>3 DEF EngineInv, SectionInv, Inside, TypeOK, SectionRecord
    <3>2. section.phase \in {"free", "replace", "room", "launch", "clear"}
      BY <1>1, <3>1 DEF Awaits, Phase
    <3>3. Spared = Idle(engine)
      BY <1>1, <3>1 DEF Spared
    <3>4. Live(engine) \in SUBSET Engines /\ Idle(engine) \in SUBSET Live(engine)
      BY DEF Live, Idle
    <3>5. QED BY <2>1, <3>2, <3>3, <3>4, Fewer, CeilingIsNat DEF Roomy
  <2>3. QED BY <1>2, <1>3, <2>2 DEF RoomInv, Roomy, FreeSection
<1>4. CASE ~Inside(Reaper)
  <2>1. \/ task[Reaper].pc \notin Waiting /\ queue' = Append(queue, Reaper)
        \/ \E i \in 1..Len(queue) :
             queue[i] = Reaper /\ queue' = Append(Without(i), Reaper)
    BY DEF BeginShutdown, Waiting
  <2>2. section.phase # "free" =>
          Head(queue) \in Tasks \ {Reaper} /\ Head(queue') = Head(queue)
    BY <1>1, <1>4, <2>1, HeadKept
  <2>3. QED BY <1>2, <1>4, <2>2, OutsideRoom
<1>5. QED BY <1>3, <1>4

LEMMA InitRoom ==
  ASSUME Init
  PROVE  RoomInv
<1>1. Idle(engine) = {}
  BY DEF Init, Idle, Live, NoRecord
<1>2. maxResident \in Nat /\ section.phase = "free"
  BY CeilingAssumption DEF Init, FreeSection
<1>3. QED BY <1>1, <1>2, FS_EmptySet DEF RoomInv, Roomy

LEMMA NextRoom ==
  ASSUME EngineInv, ShapeInv, RoomInv, [Next]_vars
  PROVE  RoomInv'
<1>1. CASE Next
  BY <1>1, LockedRoom, StopNextRoom, WorldRoom, RequestRoom, CallersRoom,
     BeginShutdownRoom
  DEF Next, ShapeInv
<1>2. CASE UNCHANGED vars
  BY <1>2, OutsideRoom DEF vars
<1>3. QED BY <1>1, <1>2

\* The ceiling invariant holds of every reachable state.
THEOREM Room == Spec => []RoomInv
<1>1. Init => RoomInv
  BY InitRoom
<1>2. EngineInv /\ ShapeInv /\ RoomInv /\ [Next]_vars => RoomInv'
  BY NextRoom
<1>3. QED BY <1>1, <1>2, Invariant, Shape, PTL DEF Spec

\* With the lock free and no enforcement pending, no more engines are idle
\* than the ceiling allows (_release, _enforce_ceiling_locked).
THEOREM IdleBounded == Spec => []IdleWithinCeiling
<1>1. RoomInv => IdleWithinCeiling
  BY DEF RoomInv, Settled, Roomy, IdleWithinCeiling
<1>2. QED BY <1>1, Room, PTL

----------------------------------------------------------------------------
(* The steps that start an engine or choose victims.                       *)

\* The processes in memory after the step.
Counted ==
  {e \in Engines :
     engine'[e].proc # "off"
       /\ ~(engine'[e].proc = "stopping" /\ engine'[e].lid = NoLid)}

\* What a step that starts or stops engines promises.
Fits ==
  section.phase # "launch" /\ section'.phase = "launch"
    => Cardinality(Counted) <= maxResident

Exact ==
  section.phase # "sweep" /\ section'.phase = "sweep" /\ TRUE \notin Watermarks
    => Cardinality(Live(engine') \ Draining(engine'))
         >= maxResident + Cardinality(section'.victims)

Fair ==
  section.phase # section'.phase /\ section'.phase \in {"room", "sweep"}
    => \A v \in section'.victims \cup {section'.subject},
          k \in Evictable(engine') \ section'.victims :
         Priority[engine[v].binding] <= Priority[engine[k].binding]

Promise == Fits /\ Exact /\ Fair

\* A step into another phase promises nothing.
LEMMA PlainPromise ==
  ASSUME section'.phase \in {"free", "replace", "retire", "clear", section.phase}
  PROVE  Promise
  BY DEF Promise, Fits, Exact, Fair

LEMMA LeavePhase ==
  ASSUME NEW t, NEW E, NEW O, Leave(t, E, O)
  PROVE  section'.phase = "free"
  BY DEF Leave, Done, FreeSection

LEMMA StopPhase ==
  ASSUME NEW E, NEW O, NEW p, NEW V, NEW b, Stop(E, O, p, V, b)
  PROVE  section'.phase = p
  BY DEF Stop

LEMMA ServePhase ==
  ASSUME NEW t, NEW E, NEW O, NEW e, Serve(t, E, O, e)
  PROVE  section'.phase = "free"
  BY DEF Serve, FreeSection

LEMMA DrainExcessPhase ==
  ASSUME NEW t, NEW E, NEW O, DrainExcess(t, E, O)
  PROVE  section'.phase \in {"free", "clear"}
<1> DEFINE excess == Cardinality(Live(E)) - maxResident
                       - Cardinality(Draining(E))
           chosen == First(excess, Live(E) \ Draining(E), O)
           busy == chosen \ Idle(E)
           D == [e \in Engines |->
                   IF e \in busy THEN [E[e] EXCEPT !.draining = TRUE] ELSE E[e]]
<1>1. Leave(t, D, O) \/ Stop(D, O, "clear", chosen \cap Idle(E), Absent)
  BY DEF DrainExcess
<1> HIDE DEF D, chosen
<1>2. QED BY <1>1, LeavePhase, StopPhase

\* The first n evictable engines go: the one stopped now and the others.
LEMMA VictimsLow ==
  ASSUME EngineInv, BindingInv, NEW E, Calm(E), NEW O, NEW p, NEW n \in Int,
         NEW V, V = First(n, Evictable(E), O), NEW b, Stop(E, O, p, V, b)
  PROVE  Fair
<1> DEFINE S == Evictable(E)
<1>1. PICK v \in V :
        /\ engine' = [E EXCEPT ![v] = Stopped(E[v])]
        /\ section' = [phase |-> p, victims |-> V \ {v},
                       subject |-> v, loading |-> b]
  BY DEF Stop
<1>2. V \in SUBSET S /\ S \in SUBSET Live(engine) /\ S \in SUBSET Engines
  BY CalmLive DEF First, Evictable, Idle, Live
<1>3. IsFiniteSet(S) /\ \A x \in S : engine[x].binding \in Bindings
  BY <1>2, EnginesFinite DEF BindingInv, Live
<1>4. Evictable(engine') \in SUBSET (S \ {v})
  <2>1. v \in Engines /\ E \in Table
    BY <1>2 DEF Calm
  <2>2. /\ engine'[v].terminated
        /\ \A x \in Engines \ {v} : engine'[x] = E[x]
    BY <1>1, <2>1 DEF Stopped, Table, Record
  <2>3. QED BY <2>2 DEF Evictable, Idle, Draining, Live
<1>5. section'.victims \cup {section'.subject} = V /\ section'.victims = V \ {v}
  BY <1>1
<1> HIDE DEF S
<1>6. \A x \in V, k \in S \ V :
        Priority[engine[x].binding] <= Priority[engine[k].binding]
  <2> USE DEF S
  <2>1. QED BY <1>3, FirstLow
<1>7. QED BY <1>4, <1>5, <1>6 DEF Fair

\* A launch is admitted below the ceiling, and nothing else is in memory.
LEMMA AdmitPromise ==
  ASSUME EngineInv, ShapeInv, NEW t, Over, ~down, NEW b, Admit(t, b)
  PROVE  Promise
<1>1. CASE Leave(t, engine, older)
  BY <1>1, LeavePhase, PlainPromise
<1>2. CASE ~Leave(t, engine, older)
  <2>1. PICK s \in Engines :
          /\ Free(s)
          /\ engine' = [engine EXCEPT ![s] = [NoRecord EXCEPT !.proc = "starting"]]
          /\ section' = [phase |-> "launch", victims |-> {}, subject |-> s,
                         loading |-> b]
    BY <1>2 DEF Admit
  <2>2. Cardinality(Live(engine)) < maxResident
    BY <1>2 DEF Admit
  <2>3. \A e \in Engines \ {s} : engine'[e] = engine[e]
    BY <2>1 DEF EngineInv, TypeOK
  <2>4. Counted \in SUBSET (Live(engine) \cup {s})
    <3>1. ASSUME NEW e \in Counted, e # s
          PROVE  e \in Live(engine)
      BY <2>3, <3>1 DEF Counted, ShapeInv, MemoryInv, Over, Live
    <3>2. QED BY <3>1
  <2>5. Live(engine) \in SUBSET Engines /\ Live(engine) \cup {s} \in SUBSET Engines
    BY DEF Live
  <2>6. /\ Cardinality(Live(engine) \cup {s}) <= Cardinality(Live(engine)) + 1
        /\ Cardinality(Live(engine)) \in Nat
    BY <2>5, EnginesFinite, FS_AddElement
  <2>7. Cardinality(Counted) <= Cardinality(Live(engine) \cup {s})
        /\ Cardinality(Counted) \in Nat
        /\ Cardinality(Live(engine) \cup {s}) \in Nat
    BY <2>4, <2>5, Fewer
  <2>8. Cardinality(Counted) <= maxResident
    BY <2>2, <2>6, <2>7, CeilingIsNat
  <2>9. section'.phase = "launch"
    BY <2>1
  <2>10. QED BY <2>8, <2>9 DEF Promise, Fits, Exact, Fair
<1>3. QED BY <1>1, <1>2

LEMMA NeedIsInt ==
  ASSUME EngineInv, NEW m \in Int, NEW i \in Int, NEW w
  PROVE  Need(m, i, w) \in Int
  BY CeilingIsNat DEF Need

LEMMA MakeRoomPromise ==
  ASSUME EngineInv, ShapeInv, NEW t, Over, ~down, NEW b, MakeRoom(t, b)
  PROVE  Promise
<1>1. PICK w, n, V :
        /\ n = Need(Cardinality(Live(engine)), 1, w)
        /\ V = First(n, Evictable(engine), older)
        /\ Admit(t, b) \/ Stop(engine, older, "room", V, b)
  BY DEF MakeRoom
<1>2. CASE Admit(t, b)
  BY <1>2, AdmitPromise
<1>3. CASE Stop(engine, older, "room", V, b)
  <2>1. Live(engine) \in SUBSET Engines
    BY DEF Live
  <2>2. Cardinality(Live(engine)) \in Int
    BY <2>1, EnginesFinite
  <2>3. n \in Int
    BY <1>1, <2>2, NeedIsInt
  <2>4. Fair
    BY <1>1, <1>3, <2>3, EngineCalm, VictimsLow DEF ShapeInv
  <2>5. section'.phase = "room"
    BY <1>3, StopPhase
  <2>6. QED BY <2>4, <2>5 DEF Promise, Fits, Exact
<1>4. QED BY <1>1, <1>2, <1>3

\* A sweep's victims are at most the excess of the engines not draining.
LEMMA SweepPromise ==
  ASSUME EngineInv, ShapeInv, NEW t, NEW E, Calm(E),
         NEW O, Sorted(O, Live(engine)), Sweep(t, E, O)
  PROVE  Promise
<1>1. CASE Leave(t, E, O)
  BY <1>1, LeavePhase, PlainPromise
<1>2. CASE DrainExcess(t, E, O)
  BY <1>2, DrainExcessPhase, PlainPromise
<1>3. CASE ~Leave(t, E, O) /\ ~DrainExcess(t, E, O)
  <2> DEFINE m == Cardinality(Live(E)) - Cardinality(Draining(E))
             S == Evictable(E)
             T == Live(E) \ Draining(E)
  <2>1. PICK w, n, V :
          /\ w \in Watermarks
          /\ n = Need(m, 0, w) /\ V = First(n, S, O)
          /\ Stop(E, O, "sweep", V, Absent)
    BY <1>3 DEF Sweep
  <2>2. /\ m \in Int /\ m = Cardinality(T) /\ T \in SUBSET Engines
        /\ Cardinality(T) \in Nat
    BY Undrained, EnginesFinite
  <2>3. n \in Int /\ (w = FALSE => n = m - maxResident)
    <3> HIDE DEF m
    <3>1. n \in Int
      BY <2>1, <2>2, NeedIsInt
    <3>2. w = FALSE => n = m + 0 - maxResident
      BY <2>1 DEF Need
    <3>3. QED BY <2>2, <3>1, <3>2, CeilingIsNat
  <2>4. Fair
    BY <2>1, <2>3, VictimsLow DEF ShapeInv
  <2>5. section'.phase = "sweep"
    BY <2>1, StopPhase
  <2>6. ASSUME TRUE \notin Watermarks
        PROVE  Cardinality(Live(engine') \ Draining(engine'))
                 >= maxResident + Cardinality(section'.victims)
    <3>1. w = FALSE
      BY <2>1, <2>6, CeilingAssumption
    <3>2. PICK v \in V :
            /\ engine' = [E EXCEPT ![v] = Stopped(E[v])]
            /\ section' = [phase |-> "sweep", victims |-> V \ {v},
                           subject |-> v, loading |-> Absent]
      BY <2>1 DEF Stop
    <3>3. S \in SUBSET Live(engine) /\ S \in SUBSET T /\ IsFiniteSet(S)
      <4>1. S \in SUBSET Live(E) /\ S \in SUBSET T
        BY DEF Evictable, Idle
      <4>2. Live(E) = Live(engine) /\ S \in SUBSET Engines
        BY <4>1, CalmLive DEF Live
      <4>3. QED BY <4>1, <4>2, EnginesFinite
    <3>4. Ordered(S, O)
      BY <3>3, LiveOrdered DEF ShapeInv
    <3> HIDE DEF S, T, m
    <3>5. /\ V \in SUBSET S /\ IsFiniteSet(V) /\ Cardinality(V) \in Nat
          /\ n >= 0 => Cardinality(V) <= n
      BY <2>1, <2>3, <3>3, <3>4, FirstSize
    <3>6. n >= 0
      <4>1. Cardinality({x \in S : Before(O, x, v)}) < n
        BY <2>1, <3>2 DEF First
      <4>2. {x \in S : Before(O, x, v)} \in SUBSET S
        OBVIOUS
      <4>3. Cardinality({x \in S : Before(O, x, v)}) \in Nat
        BY <3>3, <4>2, FS_Subset, FS_CardinalityType
      <4>4. QED BY <2>3, <4>1, <4>3
    <3>7. v \in T /\ v \in Engines
      BY <2>2, <3>2, <3>3, <3>5
    <3>8. Live(engine') \ Draining(engine') = T \ {v}
      <4>1. E \in Table
        BY DEF Calm
      <4>2. /\ engine'[v].terminated
            /\ \A x \in Engines \ {v} : engine'[x] = E[x]
        BY <3>2, <3>7, <4>1 DEF Stopped, Table, Record
      <4>3. QED BY <4>2 DEF T, Live, Draining
    <3>9. Cardinality(T \ {v}) = Cardinality(T) - 1
      BY <2>2, <3>7, EnginesFinite, FS_RemoveElement
    <3>10. Cardinality(V \ {v}) = Cardinality(V) - 1
      BY <3>2, <3>5, FS_RemoveElement
    <3>11. Cardinality(T) - 1 >= maxResident + (Cardinality(V) - 1)
      BY <2>2, <2>3, <3>1, <3>5, <3>6, CeilingIsNat
    <3>12. section'.victims = V \ {v}
      BY <3>2
    <3>13. QED BY <3>8, <3>9, <3>10, <3>11, <3>12
  <2>7. QED BY <2>4, <2>5, <2>6 DEF Promise, Fits, Exact
<1>4. QED BY <1>1, <1>2, <1>3

LEMMA SweepersPromise ==
  ASSUME EngineInv, ShapeInv, NEW t \in Tasks,
         Release(t) \/ AfterRetire(t) \/ EnforceCeiling(t)
  PROVE  Promise
<1>1. Calm(engine) /\ Sorted(older, Live(engine))
  BY EngineCalm DEF ShapeInv, OrderInv
<1>2. CASE AfterRetire(t) \/ EnforceCeiling(t)
  BY <1>1, <1>2, SweepPromise DEF AfterRetire, EnforceCeiling
<1>3. CASE Release(t)
  <2> DEFINE e == task[t].held
             E == Back(t)
             O == BackOrder(t)
  <2>1. \/ Stop(E, O, "retire", {resident[E[e].lid]}, Absent)
        \/ Sweep(t, E, O) \/ Leave(t, E, O)
    BY <1>3 DEF Release, Back, BackOrder
  <2>2. Enters(t, "release")
    BY <1>3 DEF Release
  <2>3. Calm(E) /\ Sorted(O, Live(engine))
    BY <2>2, ReleaseTable
  <2> HIDE DEF E, O
  <2>4. QED BY <2>1, <2>3, SweepPromise, LeavePhase, StopPhase, PlainPromise
<1>4. QED BY <1>2, <1>3

LEMMA LoadersPromise ==
  ASSUME EngineInv, ShapeInv, NEW t \in Tasks,
         Load(t) \/ AfterReplace(t) \/ AfterRoom(t)
  PROVE  Promise
<1>1. ASSUME task[t].pc \in Upward
      PROVE  ~down
  BY <1>1 DEF ShapeInv, CallInv
<1>2. CASE Load(t)
  <2>1. Over /\ ~down
    BY <1>1, <1>2, UpOwner DEF Load
  <2>2. QED BY <1>2, <2>1, MakeRoomPromise DEF Load
<1>3. CASE AfterReplace(t) \/ AfterRoom(t)
  <2>1. /\ Resumes(t, "replace") \/ Resumes(t, "room")
        /\ MakeRoom(t, section.loading) \/ Admit(t, section.loading)
    BY <1>3 DEF AfterReplace, AfterRoom
  <2>2. Over /\ Inside(t) /\ section.phase \in Loading
    BY <2>1, OwnerInside DEF Loading
  <2>3. ~down
    BY <1>1, <2>2, LoadingFacts
  <2>4. QED BY <2>1, <2>2, <2>3, MakeRoomPromise, AdmitPromise
<1>4. QED BY <1>2, <1>3

LEMMA OthersPromise ==
  ASSUME NEW t,
         \/ NotManaged(t) \/ Reuse(t) \/ Replace(t) \/ LaunchOk(t)
         \/ LaunchFails(t) \/ AfterSweep(t) \/ Evict(t) \/ MarkFailed(t)
         \/ Reap(t) \/ Shutdown(t) \/ AfterClear(t)
  PROVE  Promise
<1>1. CASE NotManaged(t) \/ LaunchFails(t) \/ AfterClear(t)
  BY <1>1, LeavePhase, PlainPromise DEF NotManaged, LaunchFails, AfterClear
<1>2. CASE Reuse(t) \/ LaunchOk(t)
  BY <1>2, ServePhase, PlainPromise DEF Reuse, LaunchOk
<1>3. CASE Replace(t)
  BY <1>3, LeavePhase, StopPhase, PlainPromise DEF Replace
<1>4. CASE AfterSweep(t)
  BY <1>4, DrainExcessPhase, PlainPromise DEF AfterSweep
<1>5. CASE Evict(t) \/ MarkFailed(t) \/ Reap(t) \/ Shutdown(t)
  BY <1>5, LeavePhase, StopPhase, PlainPromise
  DEF Evict, MarkFailed, Reap, Shutdown
<1>6. QED BY <1>1, <1>2, <1>3, <1>4, <1>5

LEMMA OutsidePromise ==
  ASSUME \/ StopNext \/ Kill \/ Environment \/ ReaperWakes \/ BeginShutdown
         \/ \E c \in Clients : Request(c)
         \/ \E a \in Admins : Admin(a)
  PROVE  Promise
<1>1. CASE StopNext
  BY <1>1, StopPhase, PlainPromise DEF StopNext
<1>2. CASE ~StopNext
  <2>1. section' = section \/ section' = FreeSection
    BY <1>2
    DEF Kill, Environment, ProcessEnds, Breaks, Expires, AdminPut, ReaperWakes,
        BeginShutdown, Request, Arrive, UseEnds, UseFails, Report, StreamFails,
        StreamCloses, StreamDropped, Admin, AdminWarm, AdminEvict, AdminDelete,
        AdminCeiling
  <2>2. QED BY <2>1, PlainPromise DEF FreeSection
<1>3. QED BY <1>1, <1>2

LEMMA NextPromise ==
  ASSUME EngineInv, ShapeInv, [Next]_vars
  PROVE  Promise
<1>1. CASE \E t \in Tasks : Locked(t)
  BY <1>1, SweepersPromise, LoadersPromise, OthersPromise DEF Locked
<1>2. CASE UNCHANGED vars
  BY <1>2, PlainPromise DEF vars
<1>3. QED BY <1>1, <1>2, OutsidePromise DEF Next

\* Every step that launches or chooses victims keeps its promise.
THEOREM Promises == Spec => [][Promise]_vars
<1>1. EngineInv /\ ShapeInv /\ [Next]_vars => [Promise]_vars
  BY NextPromise
<1>2. QED BY <1>1, Invariant, Shape, PTL DEF Spec

\* When an engine starts, the processes in memory are within the ceiling: an
\* evicted engine's end is awaited before its successor starts.
THEOREM LaunchesFit == Spec => LaunchFits
<1>1. [Promise]_vars =>
        [section.phase # "launch" /\ section'.phase = "launch"
           => Cardinality({e \in Engines : engine'[e].proc # "off"
                /\ ~(engine'[e].proc = "stopping" /\ engine'[e].lid = NoLid)})
              <= maxResident]_vars
  BY DEF Promise, Fits, Counted
<1>2. QED BY <1>1, Promises, PTL DEF LaunchFits

\* Enforcement stops the excess and no more (_enforce_ceiling_locked).
THEOREM SweepsExact == Spec => SweepIsExact
<1>1. [Promise]_vars =>
        [section.phase # "sweep" /\ section'.phase = "sweep"
           /\ TRUE \notin Watermarks
           => Cardinality(Live(engine') \ Draining(engine'))
                >= maxResident + Cardinality(section'.victims)]_vars
  BY DEF Promise, Exact
<1>2. QED BY <1>1, Promises, PTL DEF SweepIsExact

\* No victim of admission or enforcement has a greater priority than an
\* evictable engine that stays (CountAndPriorityPolicy).
THEOREM PrioritiesKept == Spec => PriorityRespected
<1>1. [Promise]_vars =>
        [section.phase # section'.phase /\ section'.phase \in {"room", "sweep"}
           => \A v \in section'.victims \cup {section'.subject},
                 k \in Evictable(engine') \ section'.victims :
                Priority[engine[v].binding] <= Priority[engine[k].binding]]_vars
  BY DEF Promise, Fair
<1>2. QED BY <1>1, Promises, PTL DEF PriorityRespected

----------------------------------------------------------------------------
(* The manager is a pool.  An operation under the lock takes back one      *)
(* lease at most, ends one engine at most and lets others drain            *)
(* (Trimming), or it provides an engine (Providing).  What is known of the *)
(* state after it, EngineInv', says most of that.                          *)

\* Who holds what once t gave its lease back, if that is what it came for.
Rest(t) == [c \in Clients |-> IF c \in Kept(t) THEN task[c].held ELSE NoEngine]

LEMMA Using1 == Using = {c \in Clients : InUse(c)}
  BY DEF Using, InUse

\* The engines that serve an id are the live ones.
LEMMA Serving ==
  ASSUME EngineInv
  PROVE  Pool!Up(resident) = Live(engine)
<1>1. /\ resident \in [Lids -> Engines \cup {NoEngine}]
      /\ \A e \in Live(engine) : engine[e].lid \in Lids /\ resident[engine[e].lid] = e
      /\ \A l \in Lids : resident[l] # NoEngine => resident[l] \in Live(engine)
      /\ NoEngine \notin Live(engine)
  BY SetsAssumption DEF EngineInv, TypeOK, ListedIffLive, Live
<1> QED BY <1>1 DEF Pool!Up

LEMMA ServingNext ==
  ASSUME EngineInv'
  PROVE  Pool!Up(resident') = Live(engine')
<1>1. /\ resident' \in [Lids -> Engines \cup {NoEngine}]
      /\ \A e \in Live(engine') : engine'[e].lid \in Lids /\ resident'[engine'[e].lid] = e
      /\ \A l \in Lids : resident'[l] # NoEngine => resident'[l] \in Live(engine')
      /\ NoEngine \notin Live(engine')
  BY SetsAssumption DEF EngineInv, TypeOK, ListedIffLive, Live
<1> QED BY <1>1 DEF Pool!Up

\* An engine's counter is the number of those who hold it.
LEMMA Leased ==
  ASSUME EngineInv, NEW e \in Engines
  PROVE  /\ Pool!Holders(LeaseOf, e) = Leases(e)
         /\ engine[e].inflight \in Nat
         /\ engine[e].inflight = 0 <=> Pool!Holders(LeaseOf, e) = {}
<1>1. Pool!Holders(LeaseOf, e) = Leases(e)
  BY SetsAssumption DEF Pool!Holders, LeaseOf, Leases
<1>2. IsFiniteSet(Leases(e))
  BY SetsAssumption, FS_Subset DEF Leases
<1>3. engine[e].inflight = Cardinality(Leases(e))
  BY DEF EngineInv, LeasesCounted
<1> QED BY <1>1, <1>2, <1>3, FS_CardinalityType, FS_EmptySet

LEMMA LeasedNext ==
  ASSUME EngineInv', NEW e \in Engines
  PROVE  /\ engine'[e].inflight \in Nat
         /\ engine'[e].inflight = 0 <=> Pool!Holders(LeaseOf', e) = {}
<1>1. Pool!Holders(LeaseOf', e) = Leases(e)'
  BY SetsAssumption DEF Pool!Holders, LeaseOf, Leases
<1>2. IsFiniteSet(Leases(e)')
  BY SetsAssumption, FS_Subset DEF Leases
<1>3. engine'[e].inflight = Cardinality(Leases(e)')
  BY DEF EngineInv, LeasesCounted
<1> QED BY <1>1, <1>2, <1>3, FS_CardinalityType, FS_EmptySet

\* Before an operation of t: what is left without its lease is what there is, unless
\* it is about to give one back.
LEMMA BeforeIt ==
  ASSUME EngineInv, NEW t, Owner(t)
  PROVE  \/ Rest(t) = LeaseOf
         \/ /\ t \in Clients /\ LeaseOf[t] # NoEngine /\ t \notin Using
            /\ Rest(t) = [LeaseOf EXCEPT ![t] = NoEngine]
<1>1. /\ t \in Tasks /\ queue # <<>> /\ t = Head(queue)
  BY DEF Owner
<1>2. \A c \in Clients : c # t => ~ Released(c)
  BY <1>1 DEF Released, Inside
<1>3. CASE Inside(t) \/ task[t].pc # "release"
  <2>1. ASSUME NEW c \in Clients
        PROVE  Rest(t)[c] = LeaseOf[c]
    <3>1. Rest(t)[c] = IF c = t /\ task[t].pc = "release" THEN NoEngine ELSE task[c].held
      BY DEF Rest, Kept
    <3>2. Released(c) <=> c = t /\ task[t].pc = "release"
      BY <1>2, <1>3 DEF Released
    <3> QED BY <3>1, <3>2 DEF LeaseOf
  <2> QED BY <2>1 DEF Rest, LeaseOf
<1>4. CASE ~ Inside(t) /\ task[t].pc = "release"
  <2>1. t \in Clients /\ task[t].held \in Engines
    BY <1>1, <1>4 DEF EngineInv, TaskInv, Leasing
  <2>2. \A c \in Clients : ~ Released(c)
    BY <1>2, <1>4 DEF Released
  <2>3. LeaseOf = [c \in Clients |-> task[c].held]
    BY <2>2 DEF LeaseOf
  <2>4. Rest(t) = [c \in Clients |-> IF c = t THEN NoEngine ELSE task[c].held]
    BY <1>4 DEF Rest, Kept
  <2>5. t \notin Using /\ task[t].held # NoEngine
    BY <1>4, <2>1, SetsAssumption DEF Using
  <2> QED BY <2>1, <2>3, <2>4, <2>5
<1> QED BY <1>3, <1>4

\* What is left when t leaves the section, or goes on to await a process.
LEMMA LeftIt ==
  ASSUME EngineInv, NEW t, Owner(t), Done(t)
  PROVE  LeaseOf' = Rest(t) /\ Using' = Using
<1>1. /\ t \in Tasks /\ task \in [Tasks -> TaskRecord] /\ task[t] \in TaskRecord
      /\ task' = [task EXCEPT ![t] = After(task[t])] /\ section' = FreeSection
  BY DEF Owner, Done, EngineInv, TypeOK
<1>2. /\ task'[t] = After(task[t]) /\ \A u \in Tasks \ {t} : task'[u] = task[u]
      /\ \A c : ~ Released(c)'
  BY <1>1 DEF Released, Inside, FreeSection
<1>3. After(task[t]).held = IF task[t].pc = "release" THEN NoEngine ELSE task[t].held
  BY AfterTask DEF EngineInv, Owner
<1>4. LeaseOf' = Rest(t)
  BY <1>2, <1>3 DEF LeaseOf, Rest, Kept, Tasks
<1>5. InUse(t)' <=> InUse(t)
  <2>1. task[t].pc \in Waiting
    BY DEF Owner
  <2>2. CASE task[t].pc = "mark" /\ task[t].held # NoEngine
    <3>1. After(task[t]) = [task[t] EXCEPT !.pc = "marked"]
      BY <2>2 DEF After
    <3>2. task'[t].pc = "marked"
      BY <1>1, <1>2, <3>1 DEF TaskRecord
    <3> QED BY <2>2, <3>2 DEF InUse
  <2>3. CASE ~ (task[t].pc = "mark" /\ task[t].held # NoEngine)
    <3>1. task'[t].pc \in {"reporting", "idle"} /\ task'[t].held = NoEngine
      BY <1>1, <1>2, <2>3 DEF After, IdleTask, TaskRecord
    <3> QED BY <2>1, <2>3, <3>1 DEF InUse, Waiting
  <2> QED BY <2>2, <2>3
<1>6. \A c \in Clients : InUse(c)' <=> InUse(c)
  BY <1>2, <1>5 DEF InUse, Tasks
<1> QED BY <1>4, <1>6 DEF Using, InUse

LEMMA StaysIn ==
  ASSUME NEW t, Owner(t), section'.phase # "free", UNCHANGED <<task, queue>>
  PROVE  LeaseOf' = Rest(t) /\ Using' = Using
<1>1. \A c : Released(c)' <=> c = t /\ task[t].pc = "release"
  BY DEF Owner, Released, Inside
<1> QED BY <1>1 DEF LeaseOf, Rest, Kept, Using

\* What takes back one lease at most, ends one engine at most, which nobody holds or
\* uses any more, and calls off no drain, is a step of the pool.
LEMMA Trimming ==
  ASSUME EngineInv, EngineInv', NEW t, Owner(t), LeaseOf' = Rest(t), Using' = Using,
         Known' = Known, down' = down,
         \/ resident' = resident
         \/ \E v \in Live(engine) :
              /\ resident' = [resident EXCEPT ![engine[v].lid] = NoEngine]
              /\ down \/ engine'[v].inflight = 0,
         \A e \in Live(engine') :
            /\ e \in Live(engine)
            /\ engine[e].draining => engine'[e].draining
            /\ engine'[e].failed = engine[e].failed /\ engine'[e].proc = engine[e].proc
  PROVE  Pool!Next
<1>1. Pool!Up(resident) = Live(engine) /\ Pool!Up(resident') = Live(engine')
  BY Serving, ServingNext
<1>2. Bad' = Bad \cap Pool!Up(resident')
  <2>1. Bad' = Bad \cap Live(engine')
    BY DEF Bad
  <2> QED BY <1>1, <2>1
<1>3. Pool!Trim(LeaseOf')
  <2>1. \/ UNCHANGED resident
        \/ \E l \in Lids : /\ resident[l] # NoEngine
                           /\ Pool!Unused(LeaseOf', resident[l])
                           /\ resident' = [resident EXCEPT ![l] = NoEngine]
    <3>1. SUFFICES ASSUME NEW v \in Live(engine),
                          resident' = [resident EXCEPT ![engine[v].lid] = NoEngine],
                          down \/ engine'[v].inflight = 0
                   PROVE  \E l \in Lids :
                            /\ resident[l] # NoEngine
                            /\ Pool!Unused(LeaseOf', resident[l])
                            /\ resident' = [resident EXCEPT ![l] = NoEngine]
      OBVIOUS
    <3> DEFINE l == engine[v].lid
    <3>2. /\ v \in Engines /\ v # NoEngine /\ l \in Lids /\ resident[l] = v
          /\ resident \in [Lids -> Engines \cup {NoEngine}]
      BY SetsAssumption DEF Live, EngineInv, ListedIffLive, TypeOK
    <3>3. v \notin Live(engine')
      <4>1. \A k \in Lids : resident[k] = v => k = l
        BY <3>2 DEF EngineInv, ListedIffLive
      <4>2. \A k \in Lids : resident'[k] # v
        BY <3>1, <3>2, <4>1
      <4> QED BY <4>2 DEF Live, EngineInv, ListedIffLive
    <3>4. ASSUME NEW c \in Pool!Holders(LeaseOf', v)
          PROVE  down /\ c \notin Using
      <4>1. c \in Clients /\ LeaseOf'[c] = v
        BY DEF Pool!Holders
      <4>2. task'[c].held = v
        BY <3>2, <4>1 DEF LeaseOf
      <4>3. engine'[v].inflight # 0
        BY <3>2, LeasedNext
      <4>4. ~ InUse(c)'
        BY <3>2, <3>3, <4>1, <4>2 DEF EngineInv, UseInv, Live
      <4>5. c \notin Using'
        BY <4>4 DEF Using, InUse
      <4> QED BY <3>1, <4>3, <4>5
    <3> QED BY <3>1, <3>2, <3>4 DEF Pool!Unused
  <2>2. \A e \in Draining(engine') : e \in Engines /\ Pool!Holders(LeaseOf', e) # {}
    <3>1. \A e \in Draining(engine') : e \in Engines /\ engine'[e].inflight > 0
      BY DEF Draining, Live, EngineInv, DrainInv
    <3> QED BY <3>1, LeasedNext
  <2>3. /\ Draining(engine') \subseteq Live(engine')
        /\ Draining(engine) \cap Live(engine') \subseteq Draining(engine')
        /\ Live(engine') \subseteq Live(engine)
    BY DEF Draining
  <2>4. Draining(engine') = (Draining(engine) \cup Draining(engine')) \cap Live(engine')
    BY <2>3
  <2>5. Draining(engine')
          \in SUBSET {e \in Pool!Up(resident) : Pool!Holders(LeaseOf', e) # {}}
    BY <1>1, <2>2, <2>3
  <2>6. \E D \in SUBSET {e \in Pool!Up(resident) : Pool!Holders(LeaseOf', e) # {}} :
          Draining(engine)' = (Draining(engine) \cup D) \cap Pool!Up(resident')
    <3>1. Draining(engine)' = Draining(engine')
      BY DEF Draining, Live
    <3> QED BY <1>1, <2>4, <2>5, <3>1
  <2>7. \A e \in Draining(engine)' : Pool!Holders(LeaseOf', e) # {}
    BY <2>2 DEF Draining, Live
  <2> QED BY <2>1, <2>6, <2>7 DEF Pool!Trim
<1>4. CASE Rest(t) = LeaseOf
  <2>1. Pool!Trim(LeaseOf) /\ LeaseOf' = LeaseOf
    BY <1>3, <1>4
  <2>2. Pool!Manage
    BY <1>2, <2>1 DEF Pool!Manage
  <2> QED BY <2>2 DEF Pool!Next
<1>5. CASE /\ t \in Clients /\ LeaseOf[t] # NoEngine /\ t \notin Using
           /\ Rest(t) = [LeaseOf EXCEPT ![t] = NoEngine]
  <2>1. Pool!Return(t)
    BY <1>2, <1>3, <1>5 DEF Pool!Return
  <2> QED BY <1>5, <2>1 DEF Pool!Next
<1> QED BY <1>4, <1>5, BeforeIt

\* E is `engine` with the engines outside W neither failed nor relieved of a drain.
Mild(E, W) ==
  /\ E \in Table
  /\ \A e \in Live(E) :
       /\ e \in Live(engine)
       /\ e \notin W =>
            /\ engine[e].draining => E[e].draining
            /\ E[e].failed = engine[e].failed /\ E[e].proc = engine[e].proc

LEMMA LeavePool ==
  ASSUME EngineInv, EngineInv', NEW t, Owner(t), NEW E, Mild(E, {}), NEW O,
         Leave(t, E, O), task[t].pc # "delete", down' = down
  PROVE  Pool!Next
<1>1. /\ LeaseOf' = Rest(t) /\ Using' = Using
      /\ engine' = E /\ resident' = resident /\ registry' = registry
  BY LeftIt DEF Leave, Done
<1>2. Known' = Known
  BY <1>1 DEF Known
<1>3. \A e \in Live(engine') :
        /\ e \in Live(engine)
        /\ engine[e].draining => engine'[e].draining
        /\ engine'[e].failed = engine[e].failed /\ engine'[e].proc = engine[e].proc
  BY <1>1 DEF Mild
<1> QED BY <1>1, <1>2, <1>3, Trimming

LEMMA StopPool ==
  ASSUME EngineInv, EngineInv', NEW t, Owner(t), NEW E, NEW V \in SUBSET Engines,
         \A v \in V : /\ v \in Live(E) /\ Mild(E, {v}) /\ E[v].lid = engine[v].lid
                      /\ down \/ E[v].inflight = 0,
         NEW O, NEW p, p # "free", NEW b, Stop(E, O, p, V, b), down' = down
  PROVE  Pool!Next
<1>1. PICK v \in V :
        /\ resident' = [resident EXCEPT ![E[v].lid] = NoEngine]
        /\ engine' = [E EXCEPT ![v] = Stopped(E[v])]
        /\ section' = [phase |-> p, victims |-> V \ {v}, subject |-> v, loading |-> b]
        /\ UNCHANGED <<registry, task, queue>>
  BY DEF Stop
<1>2. /\ v \in Engines /\ v \in Live(E) /\ E \in Table /\ E[v] \in Record
      /\ v \in Live(engine) /\ E[v].lid = engine[v].lid
      /\ down \/ E[v].inflight = 0
  BY DEF Mild, Table
<1>3. /\ engine'[v].terminated /\ engine'[v].inflight = E[v].inflight
      /\ \A e \in Engines \ {v} : engine'[e] = E[e]
  BY <1>1, <1>2 DEF Stopped, Table, Record
<1>4. LeaseOf' = Rest(t) /\ Using' = Using
  <2>1. section'.phase # "free"
    BY <1>1
  <2> QED BY <1>1, <2>1, StaysIn
<1>5. Known' = Known
  BY <1>1 DEF Known
<1>6. /\ resident' = [resident EXCEPT ![engine[v].lid] = NoEngine]
      /\ down \/ engine'[v].inflight = 0
  BY <1>1, <1>2, <1>3
<1>7. ASSUME NEW e \in Live(engine')
      PROVE  /\ e \in Live(engine)
             /\ engine[e].draining => engine'[e].draining
             /\ engine'[e].failed = engine[e].failed /\ engine'[e].proc = engine[e].proc
  <2>1. e \in Engines /\ e # v /\ engine'[e] = E[e] /\ e \in Live(E)
    BY <1>3 DEF Live
  <2> QED BY <2>1 DEF Mild
<1> QED BY <1>2, <1>4, <1>5, <1>6, <1>7, Trimming

\* The tables that operations work with.
LEMMA EngineMild ==
  ASSUME EngineInv
  PROVE  \A W : Mild(engine, W)
  BY Stable DEF Mild

LEMMA DrainExcessPool ==
  ASSUME EngineInv, EngineInv', NEW t, Owner(t), task[t].pc # "delete",
         NEW E, Mild(E, {}), \A e \in Engines : E[e].lid = engine[e].lid,
         NEW O, DrainExcess(t, E, O), down' = down
  PROVE  Pool!Next
<1> DEFINE excess == Cardinality(Live(E)) - maxResident
                       - Cardinality(Draining(E))
           chosen == First(excess, Live(E) \ Draining(E), O)
           busy == chosen \ Idle(E)
           D == [e \in Engines |->
                   IF e \in busy THEN [E[e] EXCEPT !.draining = TRUE] ELSE E[e]]
           V == chosen \cap Idle(E)
<1>1. IF V = {} THEN Leave(t, D, O) ELSE Stop(D, O, "clear", V, Absent)
  BY DEF DrainExcess
<1> HIDE DEF chosen
<1>2. V \subseteq Engines /\ \A v \in V : v \in Live(E) /\ E[v].inflight = 0
  BY DEF Idle, Live
<1>3. ASSUME NEW e \in Engines
      PROVE  /\ D[e] \in Record
             /\ D[e].terminated = E[e].terminated /\ D[e].lid = E[e].lid
             /\ D[e].proc = E[e].proc /\ D[e].inflight = E[e].inflight
             /\ D[e].failed = E[e].failed
             /\ E[e].draining => D[e].draining
  <2>1. E[e] \in Record
    BY DEF Mild, Table
  <2>2. [E[e] EXCEPT !.draining = TRUE] \in Record
    BY <2>1, FieldTypes
  <2>3. CASE e \in busy
    BY <2>1, <2>2, <2>3 DEF Record
  <2>4. CASE e \notin busy
    BY <2>1, <2>4
  <2> QED BY <2>3, <2>4
<1>4. \A W : Mild(D, W)
  <2>1. D \in Table
    BY <1>3 DEF Table
  <2> HIDE DEF D
  <2>2. \A e \in Live(D) : e \in Live(E)
    BY <1>3 DEF Live
  <2>3. \A e \in Live(D) :
          /\ e \in Live(engine)
          /\ engine[e].draining => D[e].draining
          /\ D[e].failed = engine[e].failed /\ D[e].proc = engine[e].proc
    BY <1>3, <2>2 DEF Mild, Live
  <2> QED BY <2>1, <2>3 DEF Mild
<1> HIDE DEF D, V
<1>5. CASE Leave(t, D, O)
  BY <1>4, <1>5, LeavePool
<1>6. CASE Stop(D, O, "clear", V, Absent)
  <2>1. \A v \in V : /\ v \in Live(D) /\ D[v].lid = engine[v].lid
                     /\ down \/ D[v].inflight = 0
    BY <1>2, <1>3 DEF Live
  <2> QED BY <1>2, <1>4, <1>6, <2>1, StopPool
<1> QED BY <1>1, <1>5, <1>6

LEMMA SweepPool ==
  ASSUME EngineInv, EngineInv', NEW t, Owner(t), task[t].pc # "delete",
         NEW E, Mild(E, {}), \A e \in Engines : E[e].lid = engine[e].lid,
         NEW O, Sweep(t, E, O), down' = down
  PROVE  Pool!Next
<1>1. CASE Leave(t, E, O)
  BY <1>1, LeavePool
<1>2. CASE DrainExcess(t, E, O)
  BY <1>2, DrainExcessPool
<1>3. ASSUME NEW n, NEW V, V = First(n, Evictable(E), O),
             Stop(E, O, "sweep", V, Absent)
      PROVE  Pool!Next
  <2>1. /\ V \in SUBSET Engines
        /\ \A v \in V : /\ v \in Live(E) /\ E[v].lid = engine[v].lid
                        /\ down \/ E[v].inflight = 0
    BY <1>3 DEF First, Evictable, Idle, Live
  <2>2. \A v \in V : Mild(E, {v})
    BY DEF Mild
  <2> QED BY <1>3, <2>1, <2>2, StopPool
<1> QED BY <1>1, <1>2, <1>3 DEF Sweep

LEMMA ReleasePool ==
  ASSUME EngineInv, ShapeInv, EngineInv', NEW t \in Tasks, Release(t)
  PROVE  Pool!Next
<1> DEFINE e == task[t].held
           E == Back(t)
           O == BackOrder(t)
<1>1. Enters(t, "release") /\ down' = down
  BY DEF Release
<1>2. IF E[e].draining /\ E[e].inflight = 0 /\ ~E[e].terminated
        THEN Stop(E, O, "retire", {resident[E[e].lid]}, Absent)
        ELSE IF E[e].inflight = 0 THEN Sweep(t, E, O) ELSE Leave(t, E, O)
  BY DEF Release, Back, BackOrder
<1>3. /\ Owner(t) /\ task[t].pc = "release" /\ e \in Engines /\ Calm(E)
      /\ \A x \in Engines \ {e} : E[x] = engine[x]
      /\ ~E[e].terminated => resident[E[e].lid] = e
  BY <1>1, ReleaseTable
<1>4. E[e].draining = engine[e].draining /\ E[e].failed = engine[e].failed
  <2> DEFINE q == [engine[e] EXCEPT !.expired = FALSE]
             r == [q EXCEPT !.inflight = @ - 1]
  <2>1. engine \in Table /\ engine[e] \in Record
    BY <1>3, Stable DEF Table
  <2>2. q \in Record /\ q.draining = engine[e].draining /\ q.failed = engine[e].failed
    BY <2>1 DEF Record
  <2>3. E = [engine EXCEPT ![e] = r]
    BY <1>3, <2>1 DEF Back, Fresh, Table, Record
  <2> HIDE DEF q
  <2>4. r.draining = q.draining /\ r.failed = q.failed
    BY <2>2 DEF Record
  <2> HIDE DEF r, E, e
  <2>5. E[e] = r
    BY <1>3, <2>1, <2>3 DEF Table
  <2> QED BY <2>2, <2>4, <2>5
<1> HIDE DEF E, O, e
<1>5. \A W : Mild(E, W)
  <2>1. E \in Table /\ Live(E) = Live(engine)
    BY <1>3, CalmLive DEF Calm
  <2>2. \A x \in Live(E) : /\ engine[x].draining => E[x].draining
                           /\ E[x].failed = engine[x].failed
                           /\ E[x].proc = engine[x].proc
    BY <1>3, <1>4 DEF Calm, Live
  <2> QED BY <2>1, <2>2 DEF Mild
<1>6. task[t].pc # "delete" /\ \A x \in Engines : E[x].lid = engine[x].lid
  BY <1>3 DEF Calm
<1>7. CASE Sweep(t, E, O)
  BY <1>1, <1>3, <1>5, <1>6, <1>7, SweepPool
<1>8. CASE Leave(t, E, O)
  BY <1>1, <1>3, <1>5, <1>6, <1>8, LeavePool
<1>9. CASE /\ E[e].inflight = 0 /\ ~E[e].terminated
           /\ Stop(E, O, "retire", {resident[E[e].lid]}, Absent)
  <2>1. Stop(E, O, "retire", {e}, Absent) /\ {e} \in SUBSET Engines
    BY <1>3, <1>9
  <2>2. \A v \in {e} : /\ v \in Live(E) /\ E[v].lid = engine[v].lid
                       /\ down \/ E[v].inflight = 0
    BY <1>3, <1>6, <1>9 DEF Live
  <2> QED BY <1>1, <1>3, <1>5, <2>1, <2>2, StopPool
<1> QED BY <1>2, <1>7, <1>8, <1>9

LEMMA SweepersPool ==
  ASSUME EngineInv, EngineInv', NEW t \in Tasks,
         AfterRetire(t) \/ EnforceCeiling(t) \/ AfterSweep(t)
  PROVE  Pool!Next
<1>1. Mild(engine, {}) /\ \A e \in Engines : engine[e].lid = engine[e].lid
  BY EngineMild
<1>2. CASE AfterRetire(t)
  <2>1. Resumes(t, "retire") /\ Sweep(t, engine, older) /\ down' = down
    BY <1>2 DEF AfterRetire
  <2>2. Owner(t) /\ task[t].pc = "release"
    BY <2>1, OwnerInside DEF EngineInv, SectionInv, Awaits, Inside
  <2> QED BY <1>1, <2>1, <2>2, SweepPool
<1>3. CASE EnforceCeiling(t)
  <2>1. Enters(t, "enforce") /\ Sweep(t, engine, older) /\ down' = down
    BY <1>3 DEF EnforceCeiling
  <2>2. Owner(t) /\ task[t].pc = "enforce"
    BY <2>1, OwnerOf DEF Waiting, Pc
  <2> QED BY <1>1, <2>1, <2>2, SweepPool
<1>4. CASE AfterSweep(t)
  <2>1. Resumes(t, "sweep") /\ DrainExcess(t, engine, older) /\ down' = down
    BY <1>4 DEF AfterSweep
  <2>2. Owner(t) /\ task[t].pc \in {"release", "enforce"}
    BY <2>1, OwnerInside DEF EngineInv, SectionInv, Awaits, Inside
  <2> QED BY <1>1, <2>1, <2>2, DrainExcessPool
<1> QED BY <1>2, <1>3, <1>4

\* A set of engines is worked off one by one.
LEMMA ClearPool ==
  ASSUME EngineInv, EngineInv', NEW t, Owner(t), NEW V \in SUBSET Live(engine),
         \A v \in V : down \/ engine[v].inflight = 0,
         NEW p, p # "free", NEW b, Stop(engine, older, p, V, b), down' = down
  PROVE  Pool!Next
<1>1. V \in SUBSET Engines
  BY DEF Live
<1>2. \A v \in V : /\ v \in Live(engine) /\ Mild(engine, {v})
                   /\ engine[v].lid = engine[v].lid
                   /\ down \/ engine[v].inflight = 0
  BY EngineMild
<1> QED BY <1>1, <1>2, StopPool

LEMMA StopNextPool ==
  ASSUME EngineInv, EngineInv', StopNext
  PROVE  Pool!Next
<1> DEFINE t == Head(queue)
           p == section.phase
           V == section.victims
           b == section.loading
<1>1. p # "free" /\ Stop(engine, older, p, V, b) /\ down' = down
  BY DEF StopNext
<1>2. Owner(t)
  <2>1. Inside(t)
    BY <1>1 DEF EngineInv, SectionInv, Inside
  <2> QED BY <2>1, InsideReady
<1>3. V \in SUBSET Live(engine) /\ \A v \in V : down \/ engine[v].inflight = 0
  BY DEF EngineInv, TypeOK, SectionRecord, SectionInv, Live
<1> HIDE DEF t, p, V, b
<1> QED BY <1>1, <1>2, <1>3, ClearPool

LEMMA ReapersPool ==
  ASSUME EngineInv, EngineInv', NEW t \in Tasks, Reap(t) \/ Shutdown(t)
  PROVE  Pool!Next
<1>1. {"reap", "shutdown"} \subseteq Waiting
  BY DEF Waiting, Pc
<1>2. Owner(t) /\ task[t].pc \in {"reap", "shutdown"} /\ down' = down
  BY <1>1, OwnerOf DEF Reap, Shutdown
<1>3. CASE Leave(t, engine, older)
  BY <1>2, <1>3, EngineMild, LeavePool
<1>4. ASSUME NEW V \in SUBSET Live(engine), \A v \in V : down \/ engine[v].inflight = 0,
             Stop(engine, older, "clear", V, Absent)
      PROVE  Pool!Next
  BY <1>2, <1>4, ClearPool
<1>5. CASE Reap(t)
  <2> DEFINE stale == {e \in Idle(engine) : engine[e].expired
                                            /\ engine[e].binding \notin KeepWarm}
  <2>1. Leave(t, engine, older) \/ Stop(engine, older, "clear", stale, Absent)
    BY <1>5 DEF Reap
  <2>2. stale \in SUBSET Live(engine) /\ \A v \in stale : down \/ engine[v].inflight = 0
    BY DEF Idle
  <2> HIDE DEF stale
  <2> QED BY <1>3, <1>4, <2>1, <2>2
<1>6. CASE Shutdown(t)
  <2>1. \/ Leave(t, engine, older)
        \/ Stop(engine, older, "clear", Live(engine), Absent)
    BY <1>6 DEF Shutdown
  <2>2. down
    BY <1>2, <1>6 DEF Shutdown, Enters, EngineInv, TaskInv
  <2> QED BY <1>3, <1>4, <2>1, <2>2
<1> QED BY <1>5, <1>6

\* A failed engine that is held is only told to drain.
LEMMA FailPool ==
  ASSUME EngineInv, EngineInv', NEW t, Owner(t), task[t].pc \notin {"release", "delete"},
         NEW l \in Lids, resident[l] # NoEngine, NEW O, NEW G \in Table,
         \A e \in Engines \ {resident[l]} : G[e] = engine[e],
         G[resident[l]].terminated = engine[resident[l]].terminated,
         G[resident[l]].failed, G[resident[l]].draining,
         engine[resident[l]].inflight > 0, Leave(t, G, O), down' = down
  PROVE  Pool!Fail(l)
<1> DEFINE w == resident[l]
<1>1. w \in Live(engine) /\ w \in Engines
  BY Listed DEF Live
<1>2. /\ LeaseOf' = Rest(t) /\ Using' = Using
      /\ engine' = G /\ resident' = resident /\ registry' = registry
  BY LeftIt DEF Leave, Done
<1>3. Rest(t) = LeaseOf
  <2>1. ~ \E c \in Clients : Released(c)
    BY DEF Released, Inside, Owner
  <2> QED BY <2>1 DEF Rest, Kept, LeaseOf
<1>4. Known' = Known
  BY <1>2 DEF Known
<1>5. Live(engine') = Live(engine)
  BY <1>1, <1>2 DEF Live
<1>6. Draining(engine)' = Draining(engine) \cup {w}
  <2>1. Draining(engine)' = {e \in Live(engine') : engine'[e].draining}
    BY DEF Draining, Live
  <2> QED BY <1>1, <1>2, <1>5, <2>1 DEF Draining, Live
<1>7. Bad' = Bad \cup {w}
  <2>1. Bad' = {e \in Live(engine') : engine'[e].failed \/ engine'[e].proc # "up"}
    BY DEF Bad, Live
  <2> QED BY <1>1, <1>2, <1>5, <2>1 DEF Bad, Live
<1>8. Pool!Holders(LeaseOf, w) # {}
  BY <1>1, Leased
<1> QED BY <1>2, <1>3, <1>4, <1>6, <1>7, <1>8 DEF Pool!Fail

LEMMA ReplacePool ==
  ASSUME EngineInv, EngineInv', NEW t \in Tasks, Replace(t)
  PROVE  Pool!Next
<1> DEFINE l == task[t].lid
           w == resident[l]
           F == [engine EXCEPT ![w].failed = TRUE]
           G == [F EXCEPT ![w].draining = TRUE]
<1>1. /\ Owner(t) /\ task[t].pc \in Upward /\ l \in Lids /\ w # NoEngine
      /\ down' = down
  BY UpOwner DEF Replace, Wanted
<1>2. /\ w \in Engines /\ engine[w] \in Record /\ w \in Live(engine)
      /\ engine[w].inflight \in Nat /\ engine \in Table
  BY <1>1, Listed, Stable DEF Live
<1>3. \/ F[w].inflight > 0 /\ Leave(t, G, older)
      \/ ~(F[w].inflight > 0) /\ Stop(F, older, "replace", {w}, registry[l])
  BY DEF Replace, Wanted
<1>4. /\ F \in Table /\ F[w].failed
      /\ F[w].terminated = engine[w].terminated /\ F[w].lid = engine[w].lid
      /\ F[w].inflight = engine[w].inflight
      /\ \A e \in Engines \ {w} : F[e] = engine[e]
  BY <1>2 DEF Table, Record
<1> HIDE DEF F
<1>5. /\ G \in Table /\ G[w].draining /\ G[w].failed
      /\ G[w].terminated = F[w].terminated
      /\ \A e \in Engines \ {w} : G[e] = F[e]
  BY <1>2, <1>4 DEF Table, Record
<1> HIDE DEF G, w
<1>6. CASE F[w].inflight > 0 /\ Leave(t, G, older)
  <2>1. Pool!Fail(l)
    BY <1>1, <1>4, <1>5, <1>6, FailPool DEF w, Upward
  <2> QED BY <1>1, <2>1 DEF Pool!Next
<1>7. CASE ~(F[w].inflight > 0) /\ Stop(F, older, "replace", {w}, registry[l])
  <2>1. /\ {w} \in SUBSET Engines /\ w \in Live(F) /\ F[w].inflight = 0
    BY <1>2, <1>4, <1>7 DEF Live
  <2>2. Mild(F, {w})
    BY <1>2, <1>4 DEF Mild, Live
  <2>3. \A v \in {w} : /\ v \in Live(F) /\ Mild(F, {v}) /\ F[v].lid = engine[v].lid
                       /\ down \/ F[v].inflight = 0
    BY <1>4, <2>1, <2>2
  <2> HIDE DEF l
  <2> QED BY <1>1, <1>7, <2>1, <2>3, StopPool
<1> QED BY <1>3, <1>6, <1>7

LEMMA MarkFailedPool ==
  ASSUME EngineInv, EngineInv', NEW t \in Tasks, MarkFailed(t)
  PROVE  Pool!Next
<1> DEFINE l == task[t].lid
           w == resident[l]
           F == [engine EXCEPT ![w].failed = TRUE]
           G == [F EXCEPT ![w].draining = TRUE]
<1>1. /\ Owner(t) /\ task[t].pc = "mark" /\ down' = down
      /\ \/ w = NoEngine /\ Leave(t, engine, older)
         \/ w # NoEngine /\ engine[w].inflight > 0 /\ Leave(t, G, older)
         \/ /\ w # NoEngine /\ ~(engine[w].inflight > 0)
            /\ Stop(F, older, "clear", {w}, Absent)
  <2>1. "mark" \in Waiting
    BY DEF Waiting, Pc
  <2> QED BY <2>1, OwnerOf DEF MarkFailed
<1>2. l \in Lids
  BY <1>1 DEF Owner, EngineInv, TaskInv, Named
<1>3. CASE w = NoEngine /\ Leave(t, engine, older)
  BY <1>1, <1>3, EngineMild, LeavePool
<1>4. ASSUME w # NoEngine
      PROVE  /\ w \in Engines /\ engine[w] \in Record /\ w \in Live(engine)
             /\ engine[w].inflight \in Nat /\ engine \in Table
  BY <1>2, <1>4, Listed, Stable DEF Live
<1>5. ASSUME w # NoEngine
      PROVE  /\ F \in Table /\ F[w].failed
             /\ F[w].terminated = engine[w].terminated /\ F[w].lid = engine[w].lid
             /\ F[w].inflight = engine[w].inflight
             /\ \A e \in Engines \ {w} : F[e] = engine[e]
  BY <1>4, <1>5 DEF Table, Record
<1> HIDE DEF F
<1>6. ASSUME w # NoEngine
      PROVE  /\ G \in Table /\ G[w].draining /\ G[w].failed
             /\ G[w].terminated = F[w].terminated
             /\ \A e \in Engines \ {w} : G[e] = F[e]
  BY <1>4, <1>5, <1>6 DEF Table, Record
<1> HIDE DEF G, w
<1>7. CASE w # NoEngine /\ engine[w].inflight > 0 /\ Leave(t, G, older)
  <2>1. Pool!Fail(l)
    BY <1>1, <1>2, <1>5, <1>6, <1>7, FailPool DEF w
  <2> QED BY <1>2, <2>1 DEF Pool!Next
<1>8. CASE /\ w # NoEngine /\ ~(engine[w].inflight > 0)
           /\ Stop(F, older, "clear", {w}, Absent)
  <2>1. /\ {w} \in SUBSET Engines /\ w \in Live(F) /\ F[w].inflight = 0
    BY <1>4, <1>5, <1>8 DEF Live
  <2>2. Mild(F, {w})
    BY <1>4, <1>5, <1>8 DEF Mild, Live
  <2>3. \A v \in {w} : /\ v \in Live(F) /\ Mild(F, {v}) /\ F[v].lid = engine[v].lid
                       /\ down \/ F[v].inflight = 0
    BY <1>5, <1>8, <2>1, <2>2
  <2> HIDE DEF l
  <2> QED BY <1>1, <1>8, <2>1, <2>3, StopPool
<1> QED BY <1>1, <1>3, <1>7, <1>8

\* The unregistering that ends a delete: an engine that is left is held, and drains.
LEMMA DeletePool ==
  ASSUME EngineInv, EngineInv', NEW t, Owner(t), task[t].pc = "delete", down' = down,
         NEW E \in Table, NEW O, Leave(t, E, O),
         \A e \in Engines :
           /\ E[e].terminated = engine[e].terminated
           /\ E[e].failed = engine[e].failed /\ E[e].proc = engine[e].proc
           /\ E[e].draining <=> engine[e].draining \/ e = resident[task[t].lid],
         \/ resident[task[t].lid] = NoEngine
         \/ engine[resident[task[t].lid]].inflight > 0
  PROVE  Pool!Next
<1> DEFINE l == task[t].lid
           w == resident[l]
<1>1. /\ LeaseOf' = Rest(t) /\ Using' = Using
      /\ engine' = E /\ resident' = resident
      /\ registry' = [registry EXCEPT ![l] = Absent]
  BY LeftIt DEF Leave, Done
<1>2. Rest(t) = LeaseOf
  <2>1. ~ \E c \in Clients : Released(c)
    BY DEF Released, Inside, Owner
  <2> QED BY <2>1 DEF Rest, Kept, LeaseOf
<1>3. l \in Lids
  BY DEF Owner, EngineInv, TaskInv, Named
<1>4. Known' = Known \ {l}
  BY <1>1, <1>3 DEF Known, EngineInv, TypeOK
<1>5. /\ Live(engine') = Live(engine)
      /\ Draining(engine)' = {e \in Live(engine') : engine'[e].draining}
      /\ Bad' = {e \in Live(engine') : engine'[e].failed \/ engine'[e].proc # "up"}
  BY <1>1 DEF Live, Draining, Bad
<1>6. Bad' = Bad
  BY <1>1, <1>5 DEF Bad, Live
<1>7. CASE w = NoEngine
  <2>1. \A e \in Live(engine) : e # w
    BY <1>7, SetsAssumption DEF Live
  <2>2. Draining(engine)' = Draining(engine)
    BY <1>1, <1>5, <2>1 DEF Draining, Live
  <2>3. Pool!Delete(l)
    BY <1>1, <1>2, <1>4, <1>6, <1>7, <2>2 DEF Pool!Delete
  <2> QED BY <1>3, <2>3 DEF Pool!Next
<1>8. CASE w # NoEngine
  <2>1. w \in Live(engine) /\ w \in Engines
    BY <1>3, <1>8, Listed DEF Live
  <2>2. Draining(engine)' = Draining(engine) \cup {w}
    BY <1>1, <1>5, <2>1 DEF Draining, Live
  <2>3. Pool!Holders(LeaseOf, w) # {}
    BY <1>8, <2>1, Leased
  <2>4. Pool!Delete(l)
    BY <1>1, <1>2, <1>4, <1>6, <2>2, <2>3 DEF Pool!Delete
  <2> QED BY <1>3, <2>4 DEF Pool!Next
<1> QED BY <1>7, <1>8

LEMMA EvictPool ==
  ASSUME EngineInv, EngineInv', NEW t \in Tasks, Evict(t)
  PROVE  Pool!Next
<1> DEFINE l == task[t].lid
           w == resident[l]
           E == [engine EXCEPT ![w].draining = TRUE]
<1>1. /\ Owner(t) /\ task[t].pc \in {"evict", "delete"} /\ down' = down
      /\ \/ w = NoEngine /\ Leave(t, engine, older)
         \/ w # NoEngine /\ engine[w].inflight > 0 /\ Leave(t, E, older)
         \/ /\ w # NoEngine /\ ~(engine[w].inflight > 0)
            /\ Stop(engine, older, "clear", {w}, Absent)
  <2>1. {"evict", "delete"} \subseteq Waiting
    BY DEF Waiting, Pc
  <2> QED BY <2>1, OwnerOf DEF Evict
<1>2. l \in Lids /\ engine \in Table
  BY <1>1, Stable DEF Owner, EngineInv, TaskInv, Named
<1>3. CASE w = NoEngine /\ Leave(t, engine, older)
  <2>1. CASE task[t].pc = "evict"
    BY <1>1, <1>3, <2>1, EngineMild, LeavePool
  <2>2. CASE task[t].pc = "delete"
    <3>1. \A e \in Engines : e # resident[task[t].lid]
      BY <1>3, SetsAssumption
    <3> QED BY <1>1, <1>2, <1>3, <2>2, <3>1, DeletePool
  <2> QED BY <1>1, <2>1, <2>2
<1>4. CASE w # NoEngine /\ engine[w].inflight > 0 /\ Leave(t, E, older)
  <2>1. w \in Engines /\ engine[w] \in Record /\ w \in Live(engine)
    BY <1>2, <1>4, Listed DEF Live
  <2>2. /\ E \in Table /\ E[w].draining /\ E[w].failed = engine[w].failed
        /\ E[w].terminated = engine[w].terminated /\ E[w].proc = engine[w].proc
        /\ \A e \in Engines \ {w} : E[e] = engine[e]
    BY <1>2, <2>1 DEF Table, Record
  <2> HIDE DEF E
  <2>3. CASE task[t].pc = "evict"
    <3>1. Mild(E, {})
      BY <2>1, <2>2 DEF Mild, Live
    <3> QED BY <1>1, <1>4, <2>3, <3>1, LeavePool
  <2>4. CASE task[t].pc = "delete"
    <3>1. \A e \in Engines :
            /\ E[e].terminated = engine[e].terminated
            /\ E[e].failed = engine[e].failed /\ E[e].proc = engine[e].proc
            /\ E[e].draining <=> engine[e].draining \/ e = resident[task[t].lid]
      <4>1. ASSUME NEW e \in Engines
            PROVE  /\ E[e].terminated = engine[e].terminated
                   /\ E[e].failed = engine[e].failed /\ E[e].proc = engine[e].proc
                   /\ E[e].draining <=> engine[e].draining \/ e = w
        <5>1. CASE e = w
          BY <2>2, <5>1
        <5>2. CASE e # w
          BY <2>2, <5>2
        <5> QED BY <5>1, <5>2
      <4> QED BY <4>1
    <3>2. engine[resident[task[t].lid]].inflight > 0
      BY <1>4
    <3> HIDE DEF w
    <3> QED BY <1>1, <1>4, <2>2, <2>4, <3>1, <3>2, DeletePool
  <2> QED BY <1>1, <2>3, <2>4
<1>5. CASE /\ w # NoEngine /\ ~(engine[w].inflight > 0)
           /\ Stop(engine, older, "clear", {w}, Absent)
  <2>1. {w} \in SUBSET Live(engine) /\ \A v \in {w} : down \/ engine[v].inflight = 0
    BY <1>2, <1>5, Listed DEF Live
  <2> HIDE DEF w
  <2> QED BY <1>1, <1>5, <2>1, ClearPool
<1> QED BY <1>1, <1>3, <1>4, <1>5

LEMMA AfterClearPool ==
  ASSUME EngineInv, EngineInv', NEW t \in Tasks, AfterClear(t)
  PROVE  Pool!Next
<1>1. /\ Owner(t) /\ Inside(t) /\ Leave(t, engine, older) /\ down' = down
  BY OwnerInside DEF AfterClear
<1>2. CASE task[t].pc # "delete"
  BY <1>1, <1>2, EngineMild, LeavePool
<1>3. CASE task[t].pc = "delete"
  <2>1. resident[task[t].lid] = NoEngine
    BY <1>1, <1>3 DEF EngineInv, SectionInv, Inside
  <2>2. \A e \in Engines : e # resident[task[t].lid]
    BY <2>1, SetsAssumption
  <2> QED BY <1>1, <1>3, <2>1, <2>2, DeletePool, Stable
<1> QED BY <1>2, <1>3

\* An attempt to load ends no lease; a slot that starts serves nobody yet.
LEMMA AdmitPool ==
  ASSUME EngineInv, EngineInv', NEW t, Owner(t), task[t].pc # "delete",
         NEW b, Admit(t, b), down' = down
  PROVE  Pool!Next
<1>1. CASE Leave(t, engine, older)
  BY <1>1, EngineMild, LeavePool
<1>2. CASE ~Leave(t, engine, older)
  <2>1. PICK s \in Engines :
          /\ Free(s)
          /\ engine' = [engine EXCEPT ![s] = [NoRecord EXCEPT !.proc = "starting"]]
          /\ section' = [phase |-> "launch", victims |-> {}, subject |-> s,
                         loading |-> b]
    BY <1>2 DEF Admit
  <2>2. UNCHANGED <<registry, resident, task, queue>>
    BY <1>2 DEF Admit
  <2>3. LeaseOf' = Rest(t) /\ Using' = Using
    BY <2>1, <2>2, StaysIn
  <2>4. /\ engine'[s].terminated /\ engine[s].terminated
        /\ \A e \in Engines \ {s} : engine'[e] = engine[e]
    BY <2>1 DEF EngineInv, TypeOK, NoRecord, Free
  <2>5. \A e \in Live(engine') :
          /\ e \in Live(engine)
          /\ engine[e].draining => engine'[e].draining
          /\ engine'[e].failed = engine[e].failed /\ engine'[e].proc = engine[e].proc
    BY <2>4 DEF Live
  <2>6. Known' = Known
    BY <2>2 DEF Known
  <2> QED BY <2>2, <2>3, <2>5, <2>6, Trimming
<1> QED BY <1>1, <1>2

LEMMA MakeRoomPool ==
  ASSUME EngineInv, EngineInv', NEW t, Owner(t), task[t].pc # "delete",
         NEW b, MakeRoom(t, b), down' = down
  PROVE  Pool!Next
<1>1. CASE Admit(t, b)
  BY <1>1, AdmitPool
<1>2. ASSUME NEW n, NEW V, V = First(n, Evictable(engine), older),
             Stop(engine, older, "room", V, b)
      PROVE  Pool!Next
  <2>1. V \in SUBSET Live(engine) /\ \A v \in V : down \/ engine[v].inflight = 0
    BY <1>2 DEF First, Evictable, Idle
  <2> QED BY <1>2, <2>1, ClearPool
<1> QED BY <1>1, <1>2 DEF MakeRoom

LEMMA LoadersPool ==
  ASSUME EngineInv, EngineInv', NEW t \in Tasks,
         NotManaged(t) \/ Load(t) \/ AfterReplace(t) \/ AfterRoom(t) \/ LaunchFails(t)
  PROVE  Pool!Next
<1>1. CASE NotManaged(t)
  <2>1. Owner(t) /\ task[t].pc \in Upward /\ Leave(t, engine, older) /\ down' = down
    BY <1>1, UpOwner DEF NotManaged
  <2> QED BY <2>1, EngineMild, LeavePool DEF Upward
<1>2. CASE Load(t)
  <2>1. /\ Owner(t) /\ task[t].pc \in Upward /\ MakeRoom(t, registry[task[t].lid])
        /\ down' = down
    BY <1>2, UpOwner DEF Load
  <2> QED BY <2>1, MakeRoomPool DEF Upward
<1>3. CASE AfterReplace(t)
  <2>1. Inside(t) /\ section.phase \in Loading /\ MakeRoom(t, section.loading)
        /\ down' = down
    BY <1>3 DEF AfterReplace, Resumes, Loading
  <2>2. Owner(t) /\ task[t].pc \in Upward
    BY <2>1, LoadingFacts
  <2> QED BY <2>1, <2>2, MakeRoomPool DEF Upward
<1>4. CASE AfterRoom(t)
  <2>1. Inside(t) /\ section.phase \in Loading /\ Admit(t, section.loading)
        /\ down' = down
    BY <1>4 DEF AfterRoom, Resumes, Loading
  <2>2. Owner(t) /\ task[t].pc \in Upward
    BY <2>1, LoadingFacts
  <2> QED BY <2>1, <2>2, AdmitPool DEF Upward
<1>5. CASE LaunchFails(t)
  <2> DEFINE s == section.subject
  <2>1. Inside(t) /\ section.phase \in Loading /\ down' = down
    BY <1>5 DEF LaunchFails, Launching, Loading
  <2>2. /\ Owner(t) /\ task[t].pc \in Upward /\ s \in Engines /\ engine[s].terminated
        /\ engine \in Table /\ engine[s] \in Record
    BY <2>1, LoadingFacts, Stable DEF Table
  <2>3. PICK p \in {"off", "stopping"} :
          Leave(t, [engine EXCEPT ![s].proc = p], older)
    BY <1>5 DEF LaunchFails
  <2> DEFINE E == [engine EXCEPT ![s].proc = p]
  <2>4. /\ E \in Table /\ E[s].terminated
        /\ \A e \in Engines \ {s} : E[e] = engine[e]
    BY <2>2 DEF Table, Record, Proc
  <2>5. Leave(t, E, older)
    BY <2>3
  <2> HIDE DEF E
  <2>6. Mild(E, {})
    BY <2>4 DEF Mild, Live
  <2> QED BY <2>1, <2>2, <2>5, <2>6, LeavePool DEF Upward
<1> QED BY <1>1, <1>2, <1>3, <1>4, <1>5

\* What _ensure_up_locked returns is leased, or warm for who asked.
LEMMA ServePool ==
  ASSUME EngineInv, NEW t, Owner(t), task[t].pc \in Upward, NEW E, NEW O,
         NEW e \in Engines, Serve(t, E, O, e), resident'[task[t].lid] = e,
         Pool!Provide(task[t].lid)
  PROVE  Pool!Next
<1> DEFINE l == task[t].lid
<1>1. /\ t \in Tasks /\ l \in Lids /\ task[t].held = NoEngine
      /\ task \in [Tasks -> TaskRecord] /\ task[t] \in TaskRecord
      /\ task[t].pc \notin {"using", "marked", "mark", "release"}
      /\ (task[t].pc = "acquire" => t \in Clients) /\ Clients \subseteq Tasks
  BY DEF Owner, EngineInv, TypeOK, TaskInv, Upward, Named, Leasing, Tasks
<1>2. LeaseOf = [c \in Clients |-> task[c].held]
  <2>1. \A c \in Clients : ~ Released(c)
    BY <1>1 DEF Released, Inside, Owner
  <2> QED BY <2>1 DEF LeaseOf
<1>3. LeaseOf' = [c \in Clients |-> task'[c].held]
  <2>1. section'.phase = "free"
    BY DEF Serve, FreeSection
  <2> QED BY <2>1 DEF LeaseOf, Released, Inside
<1>4. CASE task[t].pc = "acquire"
  <2>0. task' = [task EXCEPT ![t] = [@ EXCEPT !.pc = "using", !.held = e]]
    BY <1>4 DEF Serve
  <2>1. /\ task'[t].pc = "using" /\ task'[t].held = e
        /\ \A u \in Tasks \ {t} : task'[u] = task[u]
    BY <1>1, <2>0 DEF TaskRecord
  <2>2. LeaseOf' = [LeaseOf EXCEPT ![t] = e]
    BY <1>1, <1>2, <1>3, <2>1
  <2>3. Using' = Using \cup {t}
    <3>1. \A c \in Clients : InUse(c)' <=> InUse(c) \/ c = t
      BY <1>1, <2>1 DEF InUse
    <3> QED BY <1>1, <1>4, <3>1 DEF Using, InUse
  <2>4. LeaseOf[t] = NoEngine
    BY <1>1, <1>2, <1>4
  <2>5. Pool!Lend(t, l)
    BY <2>2, <2>3, <2>4 DEF Pool!Lend
  <2> QED BY <1>1, <1>4, <2>5 DEF Pool!Next
<1>5. CASE task[t].pc # "acquire"
  <2>1. /\ task'[t].pc \in {"acquire", "idle"} /\ task'[t].held = NoEngine
        /\ \A u \in Tasks \ {t} : task'[u] = task[u]
    <3>1. CASE t \in Clients /\ task[t].pc = "warm"
      BY <1>1, <1>5, <3>1 DEF Serve, TaskRecord
    <3>2. CASE ~ (t \in Clients /\ task[t].pc = "warm")
      BY <1>1, <1>5, <3>2 DEF Serve, IdleTask
    <3> QED BY <3>1, <3>2
  <2>2. \A c \in Clients : task'[c].held = task[c].held /\ (InUse(c)' <=> InUse(c))
    BY <1>1, <2>1 DEF InUse
  <2>3. LeaseOf' = LeaseOf /\ Using' = Using
    BY <1>2, <1>3, <2>2 DEF Using, InUse
  <2>4. Pool!Warm(l)
    BY <2>3 DEF Pool!Warm
  <2> QED BY <1>1, <2>4 DEF Pool!Next
<1> QED BY <1>4, <1>5

\* Serving counts one more request, and changes no engine otherwise.
LEMMA ServeTable ==
  ASSUME NEW t, NEW E \in Table, NEW O, NEW e \in Engines, Serve(t, E, O, e)
  PROVE  /\ registry' = registry
         /\ \A x \in Engines :
              /\ engine'[x].terminated = E[x].terminated
              /\ engine'[x].failed = E[x].failed /\ engine'[x].proc = E[x].proc
              /\ engine'[x].draining = E[x].draining
<1>1. E[e] \in Record
  BY DEF Table
<1>2. CASE engine' = E
  BY <1>2 DEF Serve
<1>3. CASE engine' = [E EXCEPT ![e].inflight = @ + 1]
  <2>1. \A x \in Engines \ {e} : engine'[x] = E[x]
    BY <1>3 DEF Table
  <2>2. /\ engine'[e].terminated = E[e].terminated
        /\ engine'[e].failed = E[e].failed /\ engine'[e].proc = E[e].proc
        /\ engine'[e].draining = E[e].draining
    BY <1>1, <1>3 DEF Table, Record
  <2> QED BY <2>1, <2>2 DEF Serve
<1> QED BY <1>2, <1>3 DEF Serve

LEMMA ReusePool ==
  ASSUME EngineInv, ShapeInv, NEW t \in Tasks, Reuse(t)
  PROVE  Pool!Next
<1> DEFINE l == task[t].lid
           w == resident[l]
           r == [engine[w] EXCEPT !.expired = FALSE, !.draining = FALSE]
           E == [engine EXCEPT ![w] = r]
<1>1. /\ Owner(t) /\ task[t].pc \in Upward /\ l \in Lids
      /\ w # NoEngine /\ w \in Engines /\ w \in Live(engine) /\ engine[w] \in Record
      /\ engine \in Table /\ engine[w].proc = "up" /\ ~engine[w].failed
  <2>1. Owner(t) /\ task[t].pc \in Upward /\ l \in Lids /\ w # NoEngine /\ ~Dead(w)
    BY UpOwner DEF Reuse, Wanted
  <2>2. w \in Engines /\ engine[w] \in Record /\ ~engine[w].terminated
    BY <2>1, Listed
  <2> QED BY <2>1, <2>2, Stable DEF Dead, EngineInv, ProcInv, Live
<1>2. /\ r \in Record /\ r.terminated = engine[w].terminated
      /\ r.failed = engine[w].failed /\ r.proc = engine[w].proc /\ ~r.draining
  BY <1>1 DEF Record
<1>3. [Fresh(engine, w) EXCEPT ![w].draining = FALSE] = E
  BY <1>1 DEF Fresh, Table, Record
<1>4. Serve(t, E, older, w) /\ UNCHANGED <<resident, down>>
  BY <1>3 DEF Reuse, Wanted
<1> HIDE DEF r
<1>5. /\ E \in Table /\ E[w] = r /\ \A e \in Engines \ {w} : E[e] = engine[e]
  BY <1>1, <1>2 DEF Table
<1> HIDE DEF E
<1>6. /\ registry' = registry
      /\ \A e \in Engines :
           /\ engine'[e].terminated = engine[e].terminated
           /\ engine'[e].failed = engine[e].failed /\ engine'[e].proc = engine[e].proc
           /\ engine'[e].draining <=> engine[e].draining /\ e # w
  <2>1. ASSUME NEW e \in Engines
        PROVE  /\ E[e].terminated = engine[e].terminated
               /\ E[e].failed = engine[e].failed /\ E[e].proc = engine[e].proc
               /\ E[e].draining = (engine[e].draining /\ e # w)
    <3>0. engine[e].draining \in BOOLEAN /\ r.draining \in BOOLEAN
      BY <1>1, <1>2 DEF Table, Record
    <3>1. CASE e = w
      BY <1>2, <1>5, <3>0, <3>1
    <3>2. CASE e # w
      BY <1>5, <3>0, <3>2
    <3> QED BY <3>1, <3>2
  <2> HIDE DEF w
  <2>2. /\ registry' = registry
        /\ \A e \in Engines :
              /\ engine'[e].terminated = E[e].terminated
              /\ engine'[e].failed = E[e].failed /\ engine'[e].proc = E[e].proc
              /\ engine'[e].draining = E[e].draining
    BY <1>1, <1>4, <1>5, ServeTable
  <2> QED BY <2>1, <2>2
<1>7. Live(engine)' = Live(engine) /\ Bad' = Bad
  BY <1>6 DEF Live, Bad
<1>8. Draining(engine)' = Draining(engine) \ {w}
  BY <1>6 DEF Live, Draining
<1>9. ~ down
  BY <1>1 DEF ShapeInv, CallInv, Upward
<1>10. l \in Known
  BY <1>1, SetsAssumption DEF Reuse, Known
<1>11. w \notin Bad
  BY <1>1 DEF Bad
<1>12. Known' = Known
  BY <1>6 DEF Known
<1>13. Pool!Provide(l)
  BY <1>1, <1>4, <1>7, <1>8, <1>9, <1>10, <1>11, <1>12 DEF Pool!Provide
<1>14. resident'[l] = w
  BY <1>4
<1> HIDE DEF w, l
<1> QED BY <1>1, <1>4, <1>13, <1>14, ServePool DEF l

LEMMA LaunchOkPool ==
  ASSUME EngineInv, ShapeInv, NEW t \in Tasks, LaunchOk(t)
  PROVE  Pool!Next
<1> DEFINE s == section.subject
           l == task[t].lid
           r == Spawned(l, section.loading)
           E == [engine EXCEPT ![s] = r]
<1>1. Inside(t) /\ section.phase = "launch" /\ section.phase \in Loading
  BY DEF LaunchOk, Launching, Loading
<1>2. /\ Owner(t) /\ task[t].pc \in Upward /\ s \in Engines /\ engine[s].terminated
      /\ l \in Lids /\ resident[l] = NoEngine /\ registry[l] # Absent
      /\ section.loading \in Bindings \cup {Absent} /\ engine \in Table
      /\ resident \in [Lids -> Engines \cup {NoEngine}]
  BY <1>1, LoadingFacts, Stable DEF EngineInv, TypeOK
<1>3. /\ r \in Record /\ ~r.terminated /\ ~r.draining /\ ~r.failed /\ r.proc = "up"
  BY <1>2 DEF Spawned, Record, Proc
<1>4. /\ Serve(t, E, older, s) /\ resident' = [resident EXCEPT ![l] = s]
      /\ down' = down
  BY DEF LaunchOk
<1> HIDE DEF r
<1>5. E \in Table /\ E[s] = r /\ \A e \in Engines \ {s} : E[e] = engine[e]
  BY <1>2, <1>3 DEF Table
<1> HIDE DEF E
<1>6. /\ registry' = registry
      /\ ~engine'[s].draining /\ ~engine'[s].failed /\ engine'[s].proc = "up"
      /\ \A e \in Engines \ {s} :
           /\ engine'[e].terminated = engine[e].terminated
           /\ engine'[e].failed = engine[e].failed /\ engine'[e].proc = engine[e].proc
           /\ engine'[e].draining = engine[e].draining
  <2>1. /\ registry' = registry
        /\ \A e \in Engines :
              /\ engine'[e].terminated = E[e].terminated
              /\ engine'[e].failed = E[e].failed /\ engine'[e].proc = E[e].proc
              /\ engine'[e].draining = E[e].draining
    BY <1>2, <1>4, <1>5, ServeTable
  <2>2. \A e \in Engines \ {s} : E[e] = engine[e]
    BY <1>5
  <2> HIDE DEF s
  <2> QED BY <1>2, <1>3, <1>5, <2>1, <2>2
<1>7. Draining(engine)' = Draining(engine) /\ Bad' = Bad
  BY <1>2, <1>6 DEF Live, Draining, Bad
<1>8. Known' = Known /\ l \in Known
  BY <1>2, <1>6 DEF Known
<1>9. ~ down
  BY <1>2 DEF ShapeInv, CallInv, Upward
<1>10. s \in Engines \ Pool!Up(resident)
  <2>1. Pool!Up(resident) = Live(engine)
    BY Serving
  <2> QED BY <1>2, <2>1 DEF Live
<1>11. Pool!Holders(LeaseOf, s) = {}
  <2>1. \A u \in Tasks : task[u].held # s
    BY <1>1 DEF EngineInv, SectionInv
  <2>2. s # NoEngine
    BY <1>2, SetsAssumption
  <2> QED BY <2>1, <2>2 DEF Pool!Holders, LeaseOf, Tasks
<1>12. Pool!Provide(l)
  BY <1>2, <1>4, <1>7, <1>8, <1>9, <1>10, <1>11 DEF Pool!Provide
<1>13. resident'[l] = s
  BY <1>2, <1>4
<1> HIDE DEF s, l
<1> QED BY <1>2, <1>4, <1>12, <1>13, ServePool DEF l

\* Outside the lock, no one's lease ends; a request's call may.
LEMMA CallPool ==
  ASSUME EngineInv, EngineInv', NEW t \in Tasks,
         UNCHANGED <<registry, resident, engine, section, down>>,
         section.phase # "free" =>
           Head(queue) \in Tasks \ {t} /\ Head(queue') = Head(queue),
         \A u \in Tasks \ {t} : task'[u] = task[u],
         t \in Clients => task'[t].held = task[t].held /\ (InUse(t)' => InUse(t))
  PROVE  [Pool!Next]_Pool!vars
<1>1. Clients \subseteq Tasks
  BY DEF Tasks
<1>2. \A c \in Clients : task'[c].held = task[c].held
  BY <1>1
<1>3. \A c \in Clients : Released(c)' <=> Released(c)
  <2>1. section.phase # "free" => queue # <<>> /\ queue' # <<>>
    BY DEF EngineInv, SectionInv
  <2> QED BY <1>1, <2>1 DEF Released, Inside
<1>4. LeaseOf' = LeaseOf
  BY <1>2, <1>3 DEF LeaseOf
<1>5. /\ Known' = Known /\ Draining(engine)' = Draining(engine) /\ Bad' = Bad
      /\ UNCHANGED <<resident, down>>
  BY DEF Known, Draining, Bad, Live
<1>6. \A c \in Clients \ {t} : InUse(c)' <=> InUse(c)
  BY <1>1 DEF InUse
<1>7. CASE t \in Clients /\ InUse(t) /\ ~ InUse(t)'
  <2>1. t \in Using /\ Using' = Using \ {t}
    BY <1>6, <1>7 DEF Using, InUse
  <2>2. Pool!Finish(t)
    BY <1>4, <1>5, <2>1 DEF Pool!Finish
  <2> QED BY <1>7, <2>2 DEF Pool!Next
<1>8. CASE ~ (t \in Clients /\ InUse(t) /\ ~ InUse(t)')
  <2>1. \A c \in Clients : InUse(c)' <=> InUse(c)
    BY <1>6, <1>8
  <2>2. Using' = Using
    BY <2>1 DEF Using, InUse
  <2> QED BY <1>4, <1>5, <2>2 DEF Pool!vars
<1> QED BY <1>7, <1>8

LEMMA RequestPool ==
  ASSUME EngineInv, EngineInv', NEW c \in Clients, Request(c)
  PROVE  [Pool!Next]_Pool!vars
<1>1. UNCHANGED <<registry, resident, engine, section, down>>
  BY DEF Request, Arrive, UseEnds, UseFails, Report, StreamFails, StreamCloses,
         StreamDropped
<1>2. c \in Tasks /\ task \in [Tasks -> TaskRecord] /\ task[c] \in TaskRecord
  BY DEF Tasks, EngineInv, TypeOK
<1>3. \A u \in Tasks \ {c} : task'[u] = task[u]
  BY <1>2 DEF Request, Arrive, UseEnds, UseFails, Report, StreamFails, StreamCloses,
              StreamDropped, Enqueue
<1>4. \/ task[c].pc \notin Waiting /\ queue' \in {queue, Append(queue, c)}
      \/ ~Inside(c) /\ \E i \in 1..Len(queue) :
           queue[i] = c /\ queue' = Append(Without(i), c)
  BY DEF Request, Arrive, UseEnds, UseFails, Report, StreamFails, StreamCloses,
         StreamDropped, Enqueue, Waiting
<1>5. section.phase # "free" =>
        Head(queue) \in Tasks \ {c} /\ Head(queue') = Head(queue)
  BY <1>2, <1>4, HeadKept
<1>6. task'[c].held = task[c].held /\ (InUse(c)' => InUse(c))
  <2>1. ASSUME NEW r, Enqueue(c, r)
        PROVE  task'[c] = r
    BY <1>2, <2>1 DEF Enqueue
  <2>2. CASE \E l \in Lids : Arrive(c, l)
    <3>1. PICK l \in Lids : Arrive(c, l)
      BY <2>2
    <3>2. task'[c] = [IdleTask EXCEPT !.pc = "warm", !.lid = l]
      BY <2>1, <3>1 DEF Arrive
    <3>3. task'[c].pc = "warm" /\ task'[c].held = NoEngine
      BY <3>2 DEF IdleTask
    <3>4. task[c].held = NoEngine
      BY <1>2, <3>1 DEF Arrive, EngineInv, TaskInv
    <3> QED BY <3>3, <3>4 DEF InUse
  <2>3. CASE UseEnds(c) \/ StreamCloses(c)
    <3>1. task'[c] = [task[c] EXCEPT !.pc = "release"]
      BY <2>1, <2>3 DEF UseEnds, StreamCloses
    <3>2. task'[c].pc = "release" /\ task'[c].held = task[c].held
      BY <1>2, <3>1 DEF TaskRecord
    <3> QED BY <3>2 DEF InUse
  <2>4. CASE UseFails(c)
    <3>1. task'[c] = [task[c] EXCEPT !.pc = "release", !.bad = TRUE]
      BY <2>1, <2>4 DEF UseFails
    <3>2. task'[c].pc = "release" /\ task'[c].held = task[c].held
      BY <1>2, <3>1 DEF TaskRecord
    <3> QED BY <3>2 DEF InUse
  <2>5. CASE StreamFails(c)
    <3>1. task'[c] = [task[c] EXCEPT !.pc = "mark"]
      BY <2>1, <2>5 DEF StreamFails
    <3>2. task'[c].held = task[c].held /\ task[c].pc = "using"
      BY <1>2, <2>5, <3>1 DEF TaskRecord, StreamFails
    <3> QED BY <3>2 DEF InUse
  <2>6. CASE StreamDropped(c)
    <3>1. task'[c] = [task[c] EXCEPT !.pc = "release"]
      BY <1>2, <2>6 DEF StreamDropped
    <3>2. task'[c].pc = "release" /\ task'[c].held = task[c].held
      BY <1>2, <3>1 DEF TaskRecord
    <3> QED BY <3>2 DEF InUse
  <2>7. CASE Report(c)
    <3>1. task'[c] = IdleTask \/ task'[c] = [task[c] EXCEPT !.pc = "mark"]
      BY <1>2, <2>1, <2>7 DEF Report
    <3>2. task[c].held = NoEngine
      BY <1>2, <2>7 DEF Report, EngineInv, TaskInv
    <3>3. task'[c].held = NoEngine /\ task'[c].pc \in {"idle", "mark"}
      BY <1>2, <3>1, <3>2 DEF TaskRecord, IdleTask
    <3> QED BY <3>2, <3>3 DEF InUse
  <2> QED BY <2>2, <2>3, <2>4, <2>5, <2>6, <2>7 DEF Request
<1> QED BY <1>1, <1>2, <1>3, <1>5, <1>6, CallPool

LEMMA CallersPool ==
  ASSUME EngineInv, EngineInv', (\E a \in Admins : Admin(a)) \/ ReaperWakes
  PROVE  [Pool!Next]_Pool!vars
<1>1. UNCHANGED <<registry, resident, engine, section, down>>
  BY DEF Admin, AdminWarm, AdminEvict, AdminDelete, AdminCeiling, ReaperWakes
<1>2. PICK t \in Admins \cup {Reaper} : task[t].pc = "idle" /\ \E r : Enqueue(t, r)
  BY DEF Admin, AdminWarm, AdminEvict, AdminDelete, AdminCeiling, ReaperWakes
<1>3. t \in Tasks /\ t \notin Clients /\ task \in [Tasks -> TaskRecord]
  BY SetsAssumption DEF Tasks, EngineInv, TypeOK
<1>4. /\ \A u \in Tasks \ {t} : task'[u] = task[u]
      /\ task[t].pc \notin Waiting /\ queue' = Append(queue, t)
  BY <1>2, <1>3 DEF Enqueue, Waiting
<1>5. section.phase # "free" =>
        Head(queue) \in Tasks \ {t} /\ Head(queue') = Head(queue)
  BY <1>3, <1>4, HeadKept
<1> QED BY <1>1, <1>3, <1>4, <1>5, CallPool

LEMMA BeginShutdownPool ==
  ASSUME EngineInv, EngineInv', BeginShutdown
  PROVE  Pool!Next
<1>1. /\ Reaper \in Tasks /\ Clients \subseteq Tasks \ {Reaper}
      /\ task \in [Tasks -> TaskRecord]
  BY SetsAssumption DEF Tasks, EngineInv, TypeOK
<1>2. /\ \A c \in Clients : task[c].pc \in {"idle", "release"} /\ task'[c] = task[c]
      /\ UNCHANGED <<registry, resident, engine>> /\ down' = TRUE
      /\ section' = IF Inside(Reaper) THEN FreeSection ELSE section
  BY <1>1 DEF BeginShutdown
<1>3. Using = {} /\ Using' = {}
  BY <1>2 DEF Using
<1>4. \A c \in Clients : Released(c)' <=> Released(c)
  <2>1. CASE Inside(Reaper)
    <3>1. \A c \in Clients : ~ Released(c)
      BY <1>1, <2>1 DEF Released, Inside
    <3>2. \A c \in Clients : ~ Released(c)'
      BY <1>2, <2>1 DEF Released, Inside, FreeSection
    <3> QED BY <3>1, <3>2
  <2>2. CASE ~Inside(Reaper)
    <3>1. \/ task[Reaper].pc \notin Waiting /\ queue' = Append(queue, Reaper)
          \/ \E i \in 1..Len(queue) :
               queue[i] = Reaper /\ queue' = Append(Without(i), Reaper)
      BY DEF BeginShutdown, Waiting
    <3>2. section.phase # "free" => Head(queue') = Head(queue)
      BY <1>1, <2>2, <3>1, HeadKept
    <3>3. section.phase # "free" => queue # <<>> /\ queue' # <<>>
      BY <1>2, <2>2 DEF EngineInv, SectionInv
    <3> QED BY <1>2, <2>2, <3>2, <3>3 DEF Released, Inside
  <2> QED BY <2>1, <2>2
<1>5. LeaseOf' = LeaseOf
  BY <1>2, <1>4 DEF LeaseOf
<1>6. /\ Known' = Known /\ Draining(engine)' = Draining(engine) /\ Bad' = Bad
      /\ resident' = resident
  BY <1>2 DEF Known, Draining, Bad, Live
<1>7. Pool!Close
  BY <1>2, <1>3, <1>5, <1>6 DEF Pool!Close
<1> QED BY <1>7 DEF Pool!Next

\* The machine and the registry: a process that ends is one engine less to lease.
LEMMA WorldPool ==
  ASSUME EngineInv, UNCHANGED <<resident, task, queue, section, down>>,
         UNCHANGED registry,
         NEW x \in Engines, NEW r \in Record, engine' = [engine EXCEPT ![x] = r],
         r.terminated = engine[x].terminated, r.failed = engine[x].failed,
         r.draining = engine[x].draining, r.proc \in {engine[x].proc, "off"}
  PROVE  [Pool!Next]_Pool!vars
<1>1. engine'[x] = r /\ \A e \in Engines \ {x} : engine'[e] = engine[e]
  BY DEF EngineInv, TypeOK
<1>2. /\ Known' = Known /\ LeaseOf' = LeaseOf /\ Using' = Using
      /\ UNCHANGED <<resident, down>>
  BY DEF Known, LeaseOf, Using, Released, Inside
<1>3. Live(engine)' = Live(engine) /\ Draining(engine)' = Draining(engine)
  BY <1>1 DEF Live, Draining
<1>4. CASE r.proc = engine[x].proc \/ x \notin Live(engine)
  <2>1. Bad' = Bad
    BY <1>1, <1>3, <1>4 DEF Bad, Live
  <2> QED BY <1>2, <1>3, <2>1 DEF Pool!vars
<1>5. CASE r.proc = "off" /\ x \in Live(engine)
  <2>1. Bad' = Bad \cup {x}
    BY <1>1, <1>3, <1>5 DEF Bad, Live
  <2>2. x \in Pool!Up(resident)
    BY <1>5, Serving
  <2>3. Pool!Die(x)
    BY <1>2, <1>3, <2>1, <2>2 DEF Pool!Die
  <2> QED BY <2>3 DEF Pool!Next
<1> QED BY <1>4, <1>5

LEMMA EnvironmentPool ==
  ASSUME EngineInv, Kill \/ Environment
  PROVE  [Pool!Next]_Pool!vars
<1>1. engine \in Table /\ \A e \in Engines : engine[e] \in Record
  BY Stable DEF Table
<1>2. ASSUME NEW x \in Engines, UNCHANGED <<registry, resident, task, queue, section, down>>,
             \/ engine' = [engine EXCEPT ![x].proc = "off"]
             \/ engine' = [engine EXCEPT ![x].broken = TRUE]
             \/ engine' = [engine EXCEPT ![x].expired = TRUE]
      PROVE  [Pool!Next]_Pool!vars
  <2> DEFINE p == [engine[x] EXCEPT !.proc = "off"]
             b == [engine[x] EXCEPT !.broken = TRUE]
             i == [engine[x] EXCEPT !.expired = TRUE]
  <2>1. \A r \in {p, b, i} :
          /\ r \in Record /\ r.terminated = engine[x].terminated
          /\ r.failed = engine[x].failed /\ r.draining = engine[x].draining
          /\ r.proc \in {engine[x].proc, "off"}
    BY <1>1 DEF Record, Proc
  <2>2. PICK r \in {p, b, i} : engine' = [engine EXCEPT ![x] = r]
    BY <1>2
  <2> QED BY <1>2, <2>1, <2>2, WorldPool
<1>3. CASE Kill
  <2>1. section.subject \in Engines
    BY <1>3 DEF Kill, EngineInv, SectionInv
  <2> QED BY <1>2, <1>3, <2>1 DEF Kill
<1>4. CASE \E e \in Engines : ProcessEnds(e) \/ Breaks(e) \/ Expires(e)
  BY <1>2, <1>4 DEF ProcessEnds, Breaks, Expires
<1>5. ASSUME NEW l \in Lids, NEW b \in Bindings \cup {Reachable}, AdminPut(l, b)
      PROVE  Pool!Next
  <2>1. /\ registry' = [registry EXCEPT ![l] = b]
        /\ UNCHANGED <<resident, engine, task, queue, section, down>>
    BY <1>5 DEF AdminPut
  <2>2. Known' = Known \cup {l}
    BY <2>1, SetsAssumption DEF Known, EngineInv, TypeOK
  <2>3. /\ LeaseOf' = LeaseOf /\ Using' = Using /\ Bad' = Bad
        /\ Draining(engine)' = Draining(engine) /\ UNCHANGED <<resident, down>>
    BY <2>1 DEF LeaseOf, Using, Bad, Released, Inside, Draining, Live
  <2>4. Pool!Put(l)
    BY <2>2, <2>3 DEF Pool!Put
  <2> QED BY <2>4 DEF Pool!Next
<1> QED BY <1>3, <1>4, <1>5 DEF Environment

LEMMA LockedPool ==
  ASSUME EngineInv, ShapeInv, EngineInv', NEW t \in Tasks, Locked(t)
  PROVE  Pool!Next
  BY LoadersPool, ReusePool, ReplacePool, LaunchOkPool, ReleasePool, SweepersPool,
     EvictPool, MarkFailedPool, ReapersPool, AfterClearPool
  DEF Locked

LEMMA NextPool ==
  ASSUME EngineInv, ShapeInv, EngineInv', [Next]_vars
  PROVE  [Pool!Next]_Pool!vars
<1>1. CASE \E t \in Tasks : Locked(t)
  BY <1>1, LockedPool
<1>2. CASE StopNext
  BY <1>2, StopNextPool
<1>3. CASE Kill \/ Environment
  BY <1>3, EnvironmentPool
<1>4. CASE \E c \in Clients : Request(c)
  BY <1>4, RequestPool
<1>5. CASE (\E a \in Admins : Admin(a)) \/ ReaperWakes
  BY <1>5, CallersPool
<1>6. CASE BeginShutdown
  BY <1>6, BeginShutdownPool
<1>7. CASE UNCHANGED vars
  <2>1. UNCHANGED <<registry, resident, engine, task, queue, section, down>>
    BY <1>7 DEF vars
  <2>2. /\ Known' = Known /\ LeaseOf' = LeaseOf /\ Using' = Using /\ Bad' = Bad
        /\ Draining(engine)' = Draining(engine)
    BY <2>1 DEF Known, LeaseOf, Using, Bad, Released, Inside, Draining, Live
  <2> QED BY <2>1, <2>2 DEF Pool!vars
<1> QED BY <1>1, <1>2, <1>3, <1>4, <1>5, <1>6, <1>7 DEF Next

LEMMA InitPool ==
  ASSUME Init
  PROVE  Pool!Init
<1>1. /\ Live(engine) = {} /\ \A c \in Clients : task[c] = IdleTask /\ ~ Released(c)
  BY DEF Init, Live, NoRecord, Released, Inside, FreeSection, Tasks
<1>2. Known \subseteq Lids /\ Using = {} /\ Draining(engine) = {} /\ Bad = {}
  BY <1>1 DEF Known, Using, Draining, Bad, IdleTask
<1>3. LeaseOf = [c \in Clients |-> NoEngine]
  BY <1>1 DEF LeaseOf, IdleTask
<1> QED BY <1>2, <1>3 DEF Init, Pool!Init

\* The engine manager implements the pool: whatever is evicted, reaped, lowered,
\* broken or shut down, a request keeps the engine it uses, none is lent one that
\* failed, and what drains ends with its last lease (acquire, _release, evict).
THEOREM PoolKept == Spec => KeepsPool
<1>1. Init => Pool!Init
  BY InitPool
<1>2. EngineInv /\ ShapeInv /\ EngineInv' /\ [Next]_vars => [Pool!Next]_Pool!vars
  BY NextPool
<1> QED BY <1>1, <1>2, Invariant, Shape, PTL DEF Spec, KeepsPool, Pool!Spec

=============================================================================
