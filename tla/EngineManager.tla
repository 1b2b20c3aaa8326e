--------------------------- MODULE EngineManager ---------------------------
(***************************************************************************)
(* The inference plane's EngineManager: lazily spawned engine processes,   *)
(* one per logical model id, leased to requests, drained, evicted, reaped  *)
(* and replaced, under one asyncio.Lock.                                   *)
(*                                                                         *)
(* An asyncio task runs without interruption between two awaits, so an     *)
(* action is the code between two awaits.  The lock is first-in first-out: *)
(* `queue` holds the tasks that called acquire(), and its head owns the    *)
(* lock.  Inside the critical section only two things are awaited, the end *)
(* of an engine process (handle.terminate) and the start of one            *)
(* (launcher.launch); `section` says which of them the owner is at.        *)
(*                                                                         *)
(* What runs without the lock runs between any two actions: registrations, *)
(* a new ceiling, the death of a process, a request that ends.             *)
(*                                                                         *)
(* Left out: the HTTP payloads, the ports, the engine logs, the capability *)
(* probe (made after the lock, on a handle), reachable upstreams beyond    *)
(* the fact that they are not managed.                                     *)
(***************************************************************************)
EXTENDS Integers, FiniteSets, Sequences

CONSTANTS
  Clients,     \* data-plane requests that may be in progress at once
  Admins,      \* management-plane calls that may be in progress at once
  Reaper,      \* the background reap loop; it runs the shutdown at the end
  Lids,        \* logical model ids
  Engines,     \* identities of engine processes (recycled once gone)
  Bindings,    \* managed bindings a logical id can be registered under
  Priority,    \* [Bindings -> Int]: lifecycle.priority
  KeepWarm,    \* bindings with lifecycle.keep_warm
  Ceilings,    \* values max_resident takes
  Watermarks,  \* answers the resource probe can give
  AdminCalls,  \* management-plane calls that are made
  Mishaps,     \* what happens to engines: "crash", "break", "expire"
  Reachable,   \* a registration that is not managed
  Absent,      \* no registration
  NoEngine, NoLid

Tasks == Clients \cup Admins \cup {Reaper}

ASSUME SetsAssumption ==
  /\ IsFiniteSet(Clients) /\ IsFiniteSet(Admins) /\ IsFiniteSet(Engines)
  /\ Clients \cap Admins = {} /\ Reaper \notin Clients \cup Admins
  /\ NoEngine \notin Engines /\ NoLid \notin Lids
  /\ Reachable \notin Bindings /\ Absent \notin Bindings /\ Reachable # Absent

ASSUME BindingAssumption ==
  /\ Priority \in [Bindings -> Int]
  /\ KeepWarm \subseteq Bindings

ASSUME CeilingAssumption ==
  /\ Ceilings \subseteq Nat \ {0}
  /\ Watermarks \subseteq BOOLEAN

VARIABLES
  registry,    \* Registry._models
  maxResident, \* EngineManager._max_resident
  resident,    \* EngineManager._resident, logical id -> engine
  failures,    \* keys of EngineManager._failures
  engine,      \* the _Resident record of each engine, and its OS process
  older,       \* <<x, y>>: x.last_used < y.last_used
  task,        \* what each task is at
  queue,       \* waiters of EngineManager._lock, the owner first
  section,     \* what the owner of the lock awaits
  down         \* the application's lifespan has ended

vars == <<registry, maxResident, resident, failures, engine, older, task,
          queue, section, down>>

----------------------------------------------------------------------------
(* Types                                                                   *)

Proc == {"off", "starting", "up", "stopping"}
Pc == {"idle", "warm", "acquire", "using", "release", "reporting", "mark",
       "marked", "evict", "delete", "enforce", "reap", "shutdown"}
Waiting == Pc \ {"idle", "using", "reporting", "marked"}
Phase == {"free", "replace", "room", "launch", "retire", "sweep", "clear"}

Record == [lid : Lids \cup {NoLid}, binding : Bindings \cup {Absent},
           inflight : Int, draining : BOOLEAN, failed : BOOLEAN,
           terminated : BOOLEAN, expired : BOOLEAN,
           proc : Proc, broken : BOOLEAN]

TaskRecord == [pc : Pc, lid : Lids \cup {NoLid},
               held : Engines \cup {NoEngine}, bad : BOOLEAN]

SectionRecord == [phase : Phase, victims : SUBSET Engines,
                  subject : Engines \cup {NoEngine},
                  loading : Bindings \cup {Absent}]

TypeOK ==
  /\ registry \in [Lids -> Bindings \cup {Reachable, Absent}]
  /\ maxResident \in Ceilings
  /\ resident \in [Lids -> Engines \cup {NoEngine}]
  /\ failures \subseteq Lids
  /\ engine \in [Engines -> Record]
  /\ older \subseteq Engines \X Engines
  /\ task \in [Tasks -> TaskRecord]
  /\ queue \in Seq(Tasks)
  /\ section \in SectionRecord
  /\ down \in BOOLEAN

NoRecord == [lid |-> NoLid, binding |-> Absent, inflight |-> 0,
             draining |-> FALSE, failed |-> FALSE, terminated |-> TRUE,
             expired |-> FALSE, proc |-> "off", broken |-> FALSE]
Spawned(l, b) == [lid |-> l, binding |-> b, inflight |-> 0,
                  draining |-> FALSE, failed |-> FALSE, terminated |-> FALSE,
                  expired |-> FALSE, proc |-> "up", broken |-> FALSE]
IdleTask == [pc |-> "idle", lid |-> NoLid, held |-> NoEngine, bad |-> FALSE]
FreeSection == [phase |-> "free", victims |-> {}, subject |-> NoEngine,
                loading |-> Absent]

Init ==
  /\ registry \in [Lids -> Bindings \cup {Absent}]
  /\ maxResident \in Ceilings
  /\ resident = [l \in Lids |-> NoEngine]
  /\ failures = {}
  /\ engine = [e \in Engines |-> NoRecord]
  /\ older = {}
  /\ task = [t \in Tasks |-> IdleTask]
  /\ queue = <<>>
  /\ section = FreeSection
  /\ down = FALSE

----------------------------------------------------------------------------
(* Engines.  E is the value of `engine` and O of `older` an operator reads *)
(* or builds on: an action composes several changes before it stores them. *)

Live(E) == {e \in Engines : ~E[e].terminated}
Idle(E) == {e \in Live(E) : E[e].inflight = 0}
Draining(E) == {e \in Live(E) : E[e].draining}
Evictable(E) == Idle(E) \ Draining(E)

\* last_used = now: newer than every other engine, idle time restarts.
Fresh(E, e) == [E EXCEPT ![e].expired = FALSE]
Touch(O, e) == {p \in O : e \notin {p[1], p[2]}}
                 \cup {<<x, e>> : x \in Live(engine) \ {e}}

\* CountAndPriorityPolicy: lowest priority first, then least recently used.
\* MUTANT: the order ignores priorities.
BeforeByAge(O, x, y) == <<x, y>> \in O

Before(O, x, y) ==
  LET px == Priority[engine[x].binding]
      py == Priority[engine[y].binding]
  IN px < py \/ (px = py /\ <<x, y>> \in O)
First(n, S, O) == {e \in S : Cardinality({x \in S : Before(O, x, e)}) < n}

\* How many engines the policy frees for `incoming` loads; w is the probe.
Need(total, incoming, w) ==
  LET over == total + incoming - maxResident
  IN IF w /\ over < 1 THEN 1 ELSE over

\* An engine slot nothing refers to any more.
Free(s) ==
  /\ engine[s].terminated /\ engine[s].proc = "off"
  /\ section.subject # s
  /\ \A t \in Tasks : task[t].held # s

----------------------------------------------------------------------------
(* The lock                                                                *)

Enqueue(t, r) ==
  /\ task' = [task EXCEPT ![t] = r]
  /\ queue' = Append(queue, t)

\* t owns the lock and is inside the critical section.
Inside(t) == section.phase # "free" /\ queue # <<>> /\ t = Head(queue)

\* The queue once the task at position i has left it (a cancelled acquire).
Without(i) == [j \in 1..(Len(queue) - 1) |-> queue[IF j < i THEN j ELSE j + 1]]

\* t owns the lock and starts operation p.
Enters(t, p) ==
  /\ section.phase = "free" /\ queue # <<>>
  /\ t = Head(queue) /\ task[t].pc = p

\* MUTANT: terminate() is fired and not awaited.
ResumesAtOnce(t, p) ==
  Inside(t) /\ section.phase = p /\ section.victims = {}

\* t owns the lock and the last process it awaited in phase p has ended.
Resumes(t, p) ==
  /\ Inside(t) /\ section.phase = p
  /\ section.victims = {} /\ engine[section.subject].proc = "off"

Managed(l) == registry[l] \in Bindings

\* Where a task goes when its operation is over and the lock released.  The
\* shielded release is a task of its own: a request that released its lease on
\* a compute error resumes, and reports it, some time after.
After(r) ==
  IF r.pc = "release" /\ r.bad
    THEN [r EXCEPT !.pc = "reporting", !.held = NoEngine]
  ELSE IF r.pc = "mark" /\ r.held # NoEngine THEN [r EXCEPT !.pc = "marked"]
  ELSE IdleTask

\* delete_model unregisters the id as soon as its evict() returns: no await
\* separates the two.
Done(t) ==
  /\ section' = FreeSection
  /\ queue' = Tail(queue)
  /\ task' = [task EXCEPT ![t] = After(@)]
  /\ registry' = IF task[t].pc = "delete"
                   THEN [registry EXCEPT ![task[t].lid] = Absent]
                   ELSE registry

\* Leave the critical section, keeping the engine records E and their order O.
Leave(t, E, O) ==
  /\ Done(t)
  /\ engine' = E /\ older' = O /\ UNCHANGED resident

----------------------------------------------------------------------------
(* _terminate_locked: unlist the engine, then SIGTERM and wait.  A list of *)
(* victims is worked off one by one; their order is left open.             *)

Stopped(r) ==
  [r EXCEPT !.terminated = TRUE,
            !.proc = IF r.proc = "up" THEN "stopping" ELSE r.proc]

\* MUTANT: the engine is not unlisted when it is terminated.
StopListed(E, O, phase, victims, loading) ==
  \E v \in victims :
    /\ engine' = [E EXCEPT ![v] = Stopped(E[v])]
    /\ older' = {p \in O : v \notin {p[1], p[2]}}
    /\ section' = [phase |-> phase, victims |-> victims \ {v},
                   subject |-> v, loading |-> loading]
    /\ UNCHANGED <<registry, resident, task, queue>>

Stop(E, O, phase, victims, loading) ==
  \E v \in victims :
    /\ resident' = [resident EXCEPT ![E[v].lid] = NoEngine]
    /\ engine' = [E EXCEPT ![v] = Stopped(E[v])]
    /\ older' = {p \in O : v \notin {p[1], p[2]}}
    /\ section' = [phase |-> phase, victims |-> victims \ {v},
                   subject |-> v, loading |-> loading]
    /\ UNCHANGED <<registry, task, queue>>

StopNext ==
  /\ section.phase # "free" /\ section.victims # {}
  /\ engine[section.subject].proc = "off"
  /\ Stop(engine, older, section.phase, section.victims, section.loading)
  /\ UNCHANGED <<maxResident, failures, down>>

\* MUTANT: a process that ignores its SIGTERM is waited for without end.
KillNever == FALSE /\ UNCHANGED vars

\* The grace period is over: SIGKILL.
Kill ==
  /\ section.phase \notin {"free", "launch"}
  /\ engine[section.subject].proc = "stopping"
  /\ engine' = [engine EXCEPT ![section.subject].proc = "off"]
  /\ UNCHANGED <<registry, maxResident, resident, failures, older, task,
                 queue, section, down>>

----------------------------------------------------------------------------
(* _enforce_ceiling_locked                                                 *)

\* The second half: what is still over the ceiling drains; an idle engine
\* the policy left over is torn down at once.
DrainExcess(t, E, O) ==
  LET excess == Cardinality(Live(E)) - maxResident - Cardinality(Draining(E))
      chosen == First(excess, Live(E) \ Draining(E), O)
      busy == chosen \ Idle(E)
      D == [e \in Engines |->
              IF e \in busy THEN [E[e] EXCEPT !.draining = TRUE] ELSE E[e]]
  IN IF chosen \cap Idle(E) = {}
       THEN Leave(t, D, O)
       ELSE Stop(D, O, "clear", chosen \cap Idle(E), Absent)

\* MUTANT: enforcement reserves the slot of an incoming load.
SweepPlusOne(t, E, O) ==
  LET n == Cardinality(Live(E))
      victims == First(Need(n - Cardinality(Draining(E)), 1, FALSE),
                       Evictable(E), O)
  IN IF n <= maxResident THEN Leave(t, E, O)
     ELSE IF victims = {} THEN DrainExcess(t, E, O)
                          ELSE Stop(E, O, "sweep", victims, Absent)

Sweep(t, E, O) ==
  LET n == Cardinality(Live(E))
  IN IF n <= maxResident
       THEN Leave(t, E, O)
       ELSE \E w \in Watermarks :
              LET victims == First(Need(n - Cardinality(Draining(E)), 0, w),
                                   Evictable(E), O)
              IN IF victims = {} THEN DrainExcess(t, E, O)
                                 ELSE Stop(E, O, "sweep", victims, Absent)

EnforceCeiling(t) ==
  /\ Enters(t, "enforce")
  /\ Sweep(t, engine, older)
  /\ UNCHANGED <<maxResident, failures, down>>

AfterSweep(t) ==
  /\ Resumes(t, "sweep")
  /\ DrainExcess(t, engine, older)
  /\ UNCHANGED <<maxResident, failures, down>>

----------------------------------------------------------------------------
(* warm and _acquire: _ensure_up_locked                                    *)

\* _ensure_up_locked returned engine e.  A request goes straight from warm()
\* to lease(): it queues for the lock again before anyone else runs.
Serve(t, E, O, e) ==
  /\ section' = FreeSection
  /\ UNCHANGED registry
  /\ older' = Touch(O, e)
  /\ CASE task[t].pc = "acquire" ->
            /\ engine' = [E EXCEPT ![e].inflight = @ + 1]
            /\ queue' = Tail(queue)
            /\ task' = [task EXCEPT ![t] = [@ EXCEPT !.pc = "using", !.held = e]]
       [] task[t].pc = "warm" /\ t \in Clients ->
            /\ engine' = E
            /\ queue' = Append(Tail(queue), t)
            /\ task' = [task EXCEPT ![t].pc = "acquire"]
       [] OTHER ->
            /\ engine' = E
            /\ queue' = Tail(queue)
            /\ task' = [task EXCEPT ![t] = IdleTask]

EntersUp(t) == Enters(t, "warm") \/ Enters(t, "acquire")
Wanted(t) == resident[task[t].lid]

\* MUTANT: the exit code is not looked at.
DeadIfMarked(e) == engine[e].failed

\* The exit code of the process is read here, and nowhere else.
Dead(e) == engine[e].failed \/ engine[e].proc = "off"

\* registry.require raises UnknownLogicalId, or the id is not managed.
NotManaged(t) ==
  /\ EntersUp(t) /\ registry[task[t].lid] \notin Bindings
  /\ Leave(t, engine, older)
  /\ UNCHANGED <<maxResident, failures, down>>

\* A resident engine is handed out; a pending drain is cancelled.
Reuse(t) ==
  /\ EntersUp(t) /\ registry[task[t].lid] \in Bindings
  /\ Wanted(t) # NoEngine /\ ~Dead(Wanted(t))
  /\ Serve(t, [Fresh(engine, Wanted(t)) EXCEPT ![Wanted(t)].draining = FALSE],
           older, Wanted(t))
  /\ UNCHANGED <<maxResident, resident, failures, down>>

\* A failed engine is not handed out: it drains while it has requests
\* (EngineFailedError), else it is torn down and replaced.
Replace(t) ==
  /\ EntersUp(t) /\ registry[task[t].lid] \in Bindings
  /\ Wanted(t) # NoEngine /\ Dead(Wanted(t))
  /\ failures' = IF engine[Wanted(t)].failed THEN failures
                                        ELSE failures \cup {task[t].lid}
  /\ LET F == [engine EXCEPT ![Wanted(t)].failed = TRUE]
     IN IF F[Wanted(t)].inflight > 0
          THEN Leave(t, [F EXCEPT ![Wanted(t)].draining = TRUE], older)
          ELSE Stop(F, older, "replace", {Wanted(t)}, registry[task[t].lid])
  /\ UNCHANGED <<maxResident, down>>

\* The end of _make_room_locked, then launcher.launch: NoCapacityError, an
\* engine unavailable on this host, or a process that starts.
Admit(t, binding) ==
  \/ Leave(t, engine, older)
  \/ /\ Cardinality(Live(engine)) < maxResident
     /\ \E s \in Engines :
          /\ Free(s)
          /\ engine' = [engine EXCEPT ![s] = [NoRecord EXCEPT !.proc = "starting"]]
          /\ section' = [phase |-> "launch", victims |-> {}, subject |-> s,
                         loading |-> binding]
     /\ UNCHANGED <<registry, resident, older, task, queue>>

MakeRoom(t, binding) ==
  \E w \in Watermarks :
    LET victims == First(Need(Cardinality(Live(engine)), 1, w),
                         Evictable(engine), older)
    IN IF victims = {} THEN Admit(t, binding)
                       ELSE Stop(engine, older, "room", victims, binding)

Load(t) ==
  /\ EntersUp(t) /\ registry[task[t].lid] \in Bindings
  /\ Wanted(t) = NoEngine
  /\ MakeRoom(t, registry[task[t].lid])
  /\ UNCHANGED <<maxResident, failures, down>>

AfterReplace(t) ==
  /\ Resumes(t, "replace")
  /\ MakeRoom(t, section.loading)
  /\ UNCHANGED <<maxResident, failures, down>>

AfterRoom(t) ==
  /\ Resumes(t, "room")
  /\ Admit(t, section.loading)
  /\ UNCHANGED <<maxResident, failures, down>>

Launching(t) == Inside(t) /\ section.phase = "launch"

\* The new process answers its health check: the engine becomes resident.
LaunchOk(t) ==
  LET s == section.subject
      l == task[t].lid
      E == [engine EXCEPT ![s] = Spawned(l, section.loading)]
  IN /\ Launching(t)
     /\ resident' = [resident EXCEPT ![l] = s]
     /\ failures' = failures \ {l}
     /\ Serve(t, E, older, s)
     /\ UNCHANGED <<maxResident, down>>

\* The process exits early, or is not healthy in time: it gets a SIGTERM and
\* nobody keeps its handle.
LaunchFails(t) ==
  /\ Launching(t)
  /\ \E p \in {"off", "stopping"} :
       Leave(t, [engine EXCEPT ![section.subject].proc = p], older)
  /\ UNCHANGED <<maxResident, failures, down>>

----------------------------------------------------------------------------
(* _release                                                                *)

\* MUTANT: no enforcement when an engine goes idle.
ReleaseNoSweep(t) ==
  LET e == task[t].held
      E == [Fresh(engine, e) EXCEPT ![e].inflight = @ - 1]
      O == IF engine[e].terminated THEN older ELSE Touch(older, e)
  IN /\ Enters(t, "release")
     /\ IF E[e].draining /\ E[e].inflight = 0 /\ ~E[e].terminated
          THEN Stop(E, O, "clear", {resident[E[e].lid]}, Absent)
          ELSE Leave(t, E, O)
     /\ UNCHANGED <<maxResident, failures, down>>

\* MUTANT: a drained engine is not torn down by its last release.
ReleaseNoRetire(t) ==
  /\ Enters(t, "release")
  /\ Leave(t, [Fresh(engine, task[t].held)
                 EXCEPT ![task[t].held].inflight = @ - 1], older)
  /\ UNCHANGED <<maxResident, failures, down>>

Release(t) ==
  LET e == task[t].held
      E == [Fresh(engine, e) EXCEPT ![e].inflight = @ - 1]
      O == IF engine[e].terminated THEN older ELSE Touch(older, e)
  IN /\ Enters(t, "release")
     /\ IF E[e].draining /\ E[e].inflight = 0 /\ ~E[e].terminated
          THEN Stop(E, O, "retire", {resident[E[e].lid]}, Absent)
          ELSE IF E[e].inflight = 0 THEN Sweep(t, E, O) ELSE Leave(t, E, O)
     /\ UNCHANGED <<maxResident, failures, down>>

AfterRetire(t) ==
  /\ Resumes(t, "retire")
  /\ Sweep(t, engine, older)
  /\ UNCHANGED <<maxResident, failures, down>>

----------------------------------------------------------------------------
(* evict, mark_failed, reap, shutdown                                      *)

\* MUTANT: evict does not look at the requests in flight.
EvictInUse(t) ==
  LET e == resident[task[t].lid]
  IN /\ Enters(t, "evict") \/ Enters(t, "delete")
     /\ IF e = NoEngine THEN Leave(t, engine, older)
                        ELSE Stop(engine, older, "clear", {e}, Absent)
     /\ UNCHANGED <<maxResident, failures, down>>

\* MUTANT: an idle engine is marked draining too, and waits for a release.
EvictByDrain(t) ==
  LET e == resident[task[t].lid]
  IN /\ Enters(t, "evict") \/ Enters(t, "delete")
     /\ Leave(t, IF e = NoEngine THEN engine
                 ELSE [engine EXCEPT ![e].draining = TRUE], older)
     /\ UNCHANGED <<maxResident, failures, down>>

\* MUTANT: a busy engine is left alone.
EvictIfIdle(t) ==
  LET e == resident[task[t].lid]
  IN /\ Enters(t, "evict") \/ Enters(t, "delete")
     /\ IF e = NoEngine \/ engine[e].inflight > 0
          THEN Leave(t, engine, older)
          ELSE Stop(engine, older, "clear", {e}, Absent)
     /\ UNCHANGED <<maxResident, failures, down>>

\* Free now if idle; if a request is in flight, drain.
Evict(t) ==
  LET e == resident[task[t].lid]
  IN /\ Enters(t, "evict") \/ Enters(t, "delete")
     /\ IF e = NoEngine THEN Leave(t, engine, older)
        ELSE IF engine[e].inflight > 0
               THEN Leave(t, [engine EXCEPT ![e].draining = TRUE], older)
               ELSE Stop(engine, older, "clear", {e}, Absent)
     /\ UNCHANGED <<maxResident, failures, down>>

MarkFailed(t) ==
  LET l == task[t].lid
      e == resident[l]
      F == [engine EXCEPT ![e].failed = TRUE]
  IN /\ Enters(t, "mark")
     /\ failures' = failures \cup {l}
     /\ IF e = NoEngine THEN Leave(t, engine, older)
        ELSE IF engine[e].inflight > 0
               THEN Leave(t, [F EXCEPT ![e].draining = TRUE], older)
               ELSE Stop(F, older, "clear", {e}, Absent)
     /\ UNCHANGED <<maxResident, down>>

\* MUTANT: the keep-warm flag is read the wrong way round.
ReapKeepWarm(t) ==
  LET stale == {e \in Idle(engine) : engine[e].expired
                                     /\ engine[e].binding \in KeepWarm}
  IN /\ Enters(t, "reap")
     /\ IF stale = {} THEN Leave(t, engine, older)
                      ELSE Stop(engine, older, "clear", stale, Absent)
     /\ UNCHANGED <<maxResident, failures, down>>

Reap(t) ==
  LET stale == {e \in Idle(engine) : engine[e].expired
                                     /\ engine[e].binding \notin KeepWarm}
  IN /\ Enters(t, "reap")
     /\ IF stale = {} THEN Leave(t, engine, older)
                      ELSE Stop(engine, older, "clear", stale, Absent)
     /\ UNCHANGED <<maxResident, failures, down>>

Shutdown(t) ==
  /\ Enters(t, "shutdown")
  /\ IF Live(engine) = {} THEN Leave(t, engine, older)
                          ELSE Stop(engine, older, "clear", Live(engine), Absent)
  /\ UNCHANGED <<maxResident, failures, down>>

AfterClear(t) ==
  /\ Resumes(t, "clear")
  /\ Leave(t, engine, older)
  /\ UNCHANGED <<maxResident, failures, down>>

----------------------------------------------------------------------------
(* A data-plane request: warm, lease, use, release, and the report of an   *)
(* engine that answered with a compute error.                              *)

Arrive(c, l) ==
  /\ ~down /\ task[c].pc = "idle" /\ Managed(l)
  /\ Enqueue(c, [IdleTask EXCEPT !.pc = "warm", !.lid = l])
  /\ UNCHANGED <<registry, maxResident, resident, failures, engine, older,
                 section, down>>

\* The upstream call is over: answered, rejected, or its client is gone.
UseEnds(c) ==
  /\ task[c].pc = "using"
  /\ Enqueue(c, [task[c] EXCEPT !.pc = "release"])
  /\ UNCHANGED <<registry, maxResident, resident, failures, engine, older,
                 section, down>>

\* A compute error before the response: the lease is released on the way out
\* of `async with`, and only then the error reaches _data_plane_failure.
UseFails(c) ==
  /\ task[c].pc = "using" /\ engine[task[c].held].broken
  /\ Enqueue(c, [task[c] EXCEPT !.pc = "release", !.bad = TRUE])
  /\ UNCHANGED <<registry, maxResident, resident, failures, engine, older,
                 section, down>>

\* _note_engine_failure: the error is reported under the logical id, if it is
\* still managed.
Report(c) ==
  /\ task[c].pc = "reporting"
  /\ IF Managed(task[c].lid)
       THEN Enqueue(c, [task[c] EXCEPT !.pc = "mark"])
       ELSE /\ task' = [task EXCEPT ![c] = IdleTask]
            /\ UNCHANGED queue
  /\ UNCHANGED <<registry, maxResident, resident, failures, engine, older,
                 section, down>>

\* A compute error in a committed stream: on_error runs under the lease.
StreamFails(c) ==
  /\ task[c].pc = "using" /\ engine[task[c].held].broken /\ Managed(task[c].lid)
  /\ Enqueue(c, [task[c] EXCEPT !.pc = "mark"])
  /\ UNCHANGED <<registry, maxResident, resident, failures, engine, older,
                 section, down>>

\* The relay's `finally`, after on_error.
StreamCloses(c) ==
  /\ task[c].pc = "marked"
  /\ Enqueue(c, [task[c] EXCEPT !.pc = "release"])
  /\ UNCHANGED <<registry, maxResident, resident, failures, engine, older,
                 section, down>>

\* MUTANT: the release is not shielded from the cancellation.
StreamDroppedUnshielded(c) ==
  /\ task[c].pc = "mark" /\ task[c].held # NoEngine /\ ~Inside(c)
  /\ task' = [task EXCEPT ![c] = IdleTask]
  /\ \E i \in 1..Len(queue) : queue[i] = c /\ queue' = Without(i)
  /\ UNCHANGED <<registry, maxResident, resident, failures, engine, older,
                 section, down>>

\* The client hangs up while on_error waits for the lock: the wait is
\* cancelled, the report is lost, the shielded release is not.
StreamDropped(c) ==
  /\ task[c].pc = "mark" /\ task[c].held # NoEngine /\ ~Inside(c)
  /\ task' = [task EXCEPT ![c].pc = "release"]
  /\ \E i \in 1..Len(queue) :
       queue[i] = c /\ queue' = Append(Without(i), c)
  /\ UNCHANGED <<registry, maxResident, resident, failures, engine, older,
                 section, down>>

----------------------------------------------------------------------------
(* The management plane and the reap loop                                  *)

AdminWarm(a, l) ==
  /\ ~down /\ "warm" \in AdminCalls /\ task[a].pc = "idle" /\ Managed(l)
  /\ Enqueue(a, [IdleTask EXCEPT !.pc = "warm", !.lid = l])
  /\ UNCHANGED <<registry, maxResident, resident, failures, engine, older,
                 section, down>>

\* evict_model.
AdminEvict(a, l) ==
  /\ ~down /\ "evict" \in AdminCalls /\ task[a].pc = "idle"
  /\ registry[l] # Absent
  /\ Enqueue(a, [IdleTask EXCEPT !.pc = "evict", !.lid = l])
  /\ UNCHANGED <<registry, maxResident, resident, failures, engine, older,
                 section, down>>

\* delete_model up to its registry.delete.
AdminDelete(a, l) ==
  /\ ~down /\ "delete" \in AdminCalls /\ task[a].pc = "idle"
  /\ registry[l] # Absent
  /\ Enqueue(a, [IdleTask EXCEPT !.pc = "delete", !.lid = l])
  /\ UNCHANGED <<registry, maxResident, resident, failures, engine, older,
                 section, down>>

\* MUTANT: the lower bound of the setting is off by one.
AdminCeilingOff(a, n) ==
  /\ ~down /\ "ceiling" \in AdminCalls /\ task[a].pc = "idle"
  /\ maxResident' = n - 1
  /\ Enqueue(a, [IdleTask EXCEPT !.pc = "enforce"])
  /\ UNCHANGED <<registry, resident, failures, engine, older, section, down>>

\* patch_settings: the ceiling changes at once, its enforcement queues.
AdminCeiling(a, n) ==
  /\ ~down /\ "ceiling" \in AdminCalls /\ task[a].pc = "idle"
  /\ maxResident' = n
  /\ Enqueue(a, [IdleTask EXCEPT !.pc = "enforce"])
  /\ UNCHANGED <<registry, resident, failures, engine, older, section, down>>

\* put_model: nothing but the registry changes.
AdminPut(l, b) ==
  /\ ~down /\ "put" \in AdminCalls
  /\ registry' = [registry EXCEPT ![l] = b]
  /\ UNCHANGED <<maxResident, resident, failures, engine, older, task, queue,
                 section, down>>

ReaperWakes ==
  /\ ~down /\ task[Reaper].pc = "idle"
  /\ Enqueue(Reaper, [IdleTask EXCEPT !.pc = "reap"])
  /\ UNCHANGED <<registry, maxResident, resident, failures, engine, older,
                 section, down>>

\* The server has no call left in progress (a release shielded from its
\* dropped client may be): the reaper is cancelled wherever it is, even as it
\* waits for an engine to end, and the shutdown queues.
BeginShutdown ==
  /\ ~down /\ "shutdown" \in AdminCalls
  /\ \A a \in Admins : task[a].pc = "idle"
  /\ \A c \in Clients : 
       task[c].pc = "idle" \/ (task[c].pc = "release" /\ ~task[c].bad)
  /\ down' = TRUE
  /\ task' = [task EXCEPT ![Reaper].pc = "shutdown"]
  /\ IF task[Reaper].pc = "idle"
       THEN queue' = Append(queue, Reaper)
       ELSE \E i \in 1..Len(queue) :
              queue[i] = Reaper /\ queue' = Append(Without(i), Reaper)
  /\ section' = IF Inside(Reaper) THEN FreeSection ELSE section
  /\ UNCHANGED <<registry, maxResident, resident, failures, engine, older>>

----------------------------------------------------------------------------
(* The engines and the clock                                               *)

\* A process ends: it crashes, or obeys its SIGTERM.
ProcessEnds(e) ==
  /\ engine[e].proc = "stopping" \/ (engine[e].proc = "up" /\ "crash" \in Mishaps)
  /\ engine' = [engine EXCEPT ![e].proc = "off"]
  /\ UNCHANGED <<registry, maxResident, resident, failures, older, task, queue,
                 section, down>>

\* The backend of a running engine enters its error state.
Breaks(e) ==
  /\ "break" \in Mishaps
  /\ e \in Live(engine) /\ engine[e].proc = "up" /\ ~engine[e].broken
  /\ engine' = [engine EXCEPT ![e].broken = TRUE]
  /\ UNCHANGED <<registry, maxResident, resident, failures, older, task, queue,
                 section, down>>

\* idle_timeout has passed since last_used.
Expires(e) ==
  /\ "expire" \in Mishaps
  /\ e \in Live(engine) /\ ~engine[e].expired
  /\ engine[e].binding \notin KeepWarm
  /\ engine' = [engine EXCEPT ![e].expired = TRUE]
  /\ UNCHANGED <<registry, maxResident, resident, failures, older, task, queue,
                 section, down>>

----------------------------------------------------------------------------
Locked(t) ==
  \/ NotManaged(t) \/ Reuse(t) \/ Replace(t) \/ Load(t) \/ AfterReplace(t)
  \/ AfterRoom(t) \/ LaunchOk(t) \/ LaunchFails(t) \/ Release(t)
  \/ AfterRetire(t) \/ EnforceCeiling(t) \/ AfterSweep(t) \/ Evict(t)
  \/ MarkFailed(t) \/ Reap(t) \/ Shutdown(t) \/ AfterClear(t)

Request(c) ==
  \/ \E l \in Lids : Arrive(c, l)
  \/ UseEnds(c) \/ UseFails(c) \/ Report(c)
  \/ StreamFails(c) \/ StreamCloses(c) \/ StreamDropped(c)

Admin(a) ==
  \/ \E l \in Lids : AdminWarm(a, l) \/ AdminEvict(a, l) \/ AdminDelete(a, l)
  \/ \E n \in Ceilings : AdminCeiling(a, n)

Environment ==
  \/ \E e \in Engines : ProcessEnds(e) \/ Breaks(e) \/ Expires(e)
  \/ \E l \in Lids, b \in Bindings \cup {Reachable} : AdminPut(l, b)

Next ==
  \/ \E t \in Tasks : Locked(t)
  \/ StopNext \/ Kill
  \/ \E c \in Clients : Request(c)
  \/ \E a \in Admins : Admin(a)
  \/ ReaperWakes \/ BeginShutdown
  \/ Environment

Spec == Init /\ [][Next]_vars

\* The lock's owner goes on: launcher.launch ends (there is a startup timeout),
\* terminate() ends (SIGKILL after the grace period), the rest is its own code.
LockFairness ==
  /\ \A t \in Tasks : WF_vars(Locked(t))
  /\ WF_vars(StopNext) /\ WF_vars(Kill)

\* A request's own code goes on, and its upstream call ends.
RequestFairness ==
  \A c \in Clients :
    /\ WF_vars(UseEnds(c) \/ UseFails(c) \/ StreamFails(c))
    /\ WF_vars(Report(c)) /\ WF_vars(StreamCloses(c))

LockSpec == Spec /\ LockFairness
FairSpec == Spec /\ LockFairness /\ RequestFairness /\ WF_vars(ReaperWakes)

----------------------------------------------------------------------------
(* Properties                                                              *)

\* inflight is the number of requests that hold a lease on the engine: a lost
\* decrement pins it forever, a lost increment lets it be evicted under use.
Released(c) ==
  Inside(c) /\ task[c].pc = "release"
Leases(e) == {c \in Clients : task[c].held = e /\ ~Released(c)}
LeasesCounted ==
  \A e \in Engines : engine[e].inflight = Cardinality(Leases(e))

\* An engine is never stopped under a request that uses it: not by evict, by
\* admission, by a lowered ceiling, by the reaper, by a failure another request
\* reports, or by the shutdown.
NeverStoppedInUse ==
  \A c \in Clients :
    task[c].pc \in {"using", "marked"} => ~engine[task[c].held].terminated

\* The engines handed out are exactly those the manager lists: a release or a
\* failure report that finds an engine under its id finds its own.
ListedIffLive ==
  /\ \A e \in Engines :
       ~engine[e].terminated =>
         engine[e].lid \in Lids /\ resident[engine[e].lid] = e
  /\ \A l \in Lids :
       resident[l] # NoEngine =>
         ~engine[resident[l]].terminated /\ engine[resident[l]].lid = l

\* With the lock free, a draining engine has a request whose release tears it
\* down.  A draining engine with none would be a slot the policy never frees.
DrainingIsBusy ==
  section.phase = "free" => \A e \in Draining(engine) : engine[e].inflight > 0

\* With the lock free and no enforcement pending, no more engines are idle
\* than the ceiling allows, whatever was leased while they drained.
IdleWithinCeiling ==
  (section.phase = "free" /\ \A a \in Admins : task[a].pc # "enforce")
    => Cardinality(Idle(engine)) <= maxResident

\* A deleted model's engine serves its last requests and nothing else.
UnregisteredDrains ==
  \A l \in Lids :
    (registry[l] = Absent /\ resident[l] # NoEngine)
      => engine[resident[l]].draining

\* When an engine starts, the processes in memory (it included) are within the
\* ceiling: an evicted engine is gone, not going, before its successor starts.
\* Startups that timed out are not counted, nobody waits for their end.
LaunchFits ==
  [][(section.phase # "launch" /\ section'.phase = "launch")
       => Cardinality({e \in Engines : engine'[e].proc # "off"
            /\ ~(engine'[e].proc = "stopping" /\ engine'[e].lid = NoLid)})
          <= maxResident]_vars

\* A failed engine, or one whose process is gone, takes no new request.
FailedNotLeased ==
  [][\A e \in Engines :
       engine'[e].inflight > engine[e].inflight
         => ~engine'[e].failed /\ engine'[e].proc = "up"]_vars

\* Who has leased which engine, and whose call is under way, a report made under
\* the lease included.
LeaseOf == [c \in Clients |-> IF Released(c) THEN NoEngine ELSE task[c].held]
Using == {c \in Clients : \/ task[c].pc \in {"using", "marked"}
                          \/ task[c].pc = "mark" /\ task[c].held # NoEngine}

\* The ids that are registered, and the engines to lease to nobody.
Known == {l \in Lids : registry[l] # Absent}
Bad == {e \in Live(engine) : engine[e].failed \/ engine[e].proc # "up"}

\* The manager is a pool of engines to those who lease them.
Pool == INSTANCE LeasePool WITH
          Ids <- Lids, Requests <- Clients, known <- Known, serving <- resident,
          lease <- LeaseOf, using <- Using, draining <- Draining(engine),
          bad <- Bad, open <- ~ down

\* Whatever is registered, evicted, reaped, deleted, lowered, broken or shut down
\* meanwhile, and wherever the lock's owner is, the manager is a pool: it ends no
\* engine under a request, lends no engine that failed, and lets none linger that
\* was to end with its last lease.
KeepsPool == Pool!Spec

\* Enforcement frees the excess and no more: an engine already draining counts
\* as freed, and no slot is reserved for a load that is not coming.
SweepIsExact ==
  [][(section.phase # "sweep" /\ section'.phase = "sweep" /\ TRUE \notin Watermarks)
       => Cardinality(Live(engine') \ Draining(engine'))
            >= maxResident + Cardinality(section'.victims)]_vars

\* Admission and enforcement never evict an engine while an idle one of lower
\* priority stays.
PriorityRespected ==
  [][(section.phase # section'.phase /\ section'.phase \in {"room", "sweep"})
       => \A v \in section'.victims \cup {section'.subject},
             k \in Evictable(engine') \ section'.victims :
            Priority[engine[v].binding] <= Priority[engine[k].binding]]_vars

\* A request that waits for an engine gets it or an error.
Answered ==
  \A c \in Clients :
    task[c].pc \in {"warm", "acquire"} ~> task[c].pc \in {"idle", "using"}

\* A draining engine is torn down, or a request wanted it again.
DrainEnds == \A e \in Engines : e \in Draining(engine) ~> e \notin Draining(engine)

\* An engine past its idle timeout is torn down, or used again.
IdleReaped ==
  \A e \in Engines :
    (e \in Idle(engine) /\ engine[e].expired)
      ~> (e \notin Idle(engine) \/ ~engine[e].expired)

\* The plane is over its ceiling and no enforcement is pending.
OverCeiling ==
  /\ Cardinality(Live(engine)) > maxResident
  /\ \A a \in Admins : task[a].pc # "enforce"

\* A lowered ceiling is re-asserted: unless some engine stays busy for good,
\* the plane does not stay over its ceiling, however its drains are cancelled.
CeilingReasserted ==
  (\A e \in Engines : []<>(engine[e].inflight = 0)) => []<>~OverCeiling

\* An engine is retired only for a failure of its own: "The engine reported
\* itself unusable (or its process died)" (_Resident.failed).
FailedIsBroken ==
  \A e \in Live(engine) :
    engine[e].failed => engine[e].broken \/ engine[e].proc = "off"
=============================================================================
