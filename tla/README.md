# TheYgent in TLA+

Formal models of TheYgent's stateful components, checked with TLC on small
instances and, where a property matters for every size, proved with TLAPS.
Paths are relative to the repository; `IP/`, `CP/` and `AG/` stand for
`src/apps/inference-plane/src/theygent_inference_plane/`,
`src/apps/control-plane/src/theygent_control_plane/` and
`src/apps/ai-gateway/src/theygent_ai_gateway/`.

    tlc -workers 2 -config MCEngineLeases.cfg MCEngineManager.tla
    tlc -workers 2 -config MCLogSpool.cfg MCRequestLog.tla
    tlc -workers 2 -config MCAgentRun.cfg MCAgentRun.tla
    tlc -workers 2 -config MCMcp.cfg MCMcpManager.tla
    tlc -workers 2 -config MCRunStore.cfg MCRunStore.tla
    tlapm EngineManagerProofs.tla
    tlapm RequestLogProofs.tla
    tlapm McpManagerProofs.tla
    tlapm RunStoreProofs.tla
    tlapm AgentRunProofs.tla
    tlapm AgentRunReplay.tla
    tlapm AgentRunPromise.tla
    tlapm AgentRunRow.tla

In a module, a definition whose comment begins with MUTANT is not part of the
specification: it is a plausible wrong version of the definition that follows
it, and `PROJECT.json` says which property it breaks when it takes its place.

## 1. The system

TheYgent runs user-defined agent graphs. The *control plane* stores agents,
runs and sessions and walks the graphs; the *inference plane* starts and
stops local model servers and proxies completions to them; the *AI gateway*
proxies coding tools to a model provider and keeps a request log. Each is one
asyncio process (the control plane and the durable worker may be several, over
one PostgreSQL). Inside a process a task runs without interruption between two
`await`s, so the hard part of this code is what happens *between* awaits; the
rest is what happens when a process ends between two writes.

| Component | State | Operations | What is hard | What makes it correct |
|---|---|---|---|---|
| Engine manager `IP/manager.py`, `eviction.py`, `launcher.py` | resident engines with leases, drains, failures, one lock, the ceiling | lease, release, warm, evict, mark_failed, reap, enforce_ceiling, shutdown | several awaits of OS processes inside one critical section; the ceiling, the registry and the processes change without the lock; cancelled clients | leases counted; no engine stopped in use; drains end; the ceiling is respected and re-asserted; the failed are not leased |
| Registry, installs, settings `IP/registry.py` ... | id -> binding, in memory and in a JSON file | put, delete, load | memory changes before the file | what was acknowledged survives a restart |
| Downloads `IP/downloader.py` | jobs and their tasks | start, cancel, finish | check before an await, cancel against completion, two writes | a cancelled install registers nothing; one job per id |
| MCP manager `CP/mcp/manager.py`, `client.py` | configs, clients, tool lists, per-name locks; a client's actor task and queue | register, remove, connect, call, close | lock-free drops against locked connects, one retry, cached tool lists | one connection per name; no drop of a replacement; every call answered |
| Run store and sessions `CP/store.py`, `app.py` | run rows, turns | create, set_status, fail_if_active, sweep, append_turn | several instances, late writes, deleted sessions | a terminal outcome stays; positions are gapless |
| Durable runs `CP/durable/` | workflow, steps, human gate | enqueue, step, recv, resume, recover | at-least-once steps, a resume racing a timeout, crashes | a gate consumes one answer; the row follows the workflow |
| Walker `CP/walker.py` | node states of one run | schedule, skip, join | which nodes are live after a branch | every node runs after its inputs, at most once |
| Dispatcher `CP/dispatcher.py` | last fire of each schedule | tick, fire, stamp | a crash or a second instance between fire and stamp | a window fires once |
| Retention `CP/retention.py` | archive cutoff, rows, chunks | sweep, archive batch | several transactions, late records | each record is counted once |
| Request log `AG/requestlog.py` | queue, segments, cursor, counters | record, write, prune, read, send, commit | crash, torn lines, pruning before export, repeated export | every record is exported or accounted for |
| Config sync `AG/configsync.py` | version in effect, file | apply, pull, load | late and repeated answers | the version never goes back |
| Policy and routing `AG/policy.py`, `routing.py` | - | decide | precedence of rules | pure |

How they interact: the control plane calls the inference plane over HTTP for
every model node (a lease), and MCP servers through the MCP manager; the
dispatcher and the webhooks start runs; the durable runtime drives the same
node bodies as steps; the gateway pulls its configuration from the control
plane and posts its request log to it, which retention archives.

`PROJECT.json` lists every component with its state of modelling, and under
`hazards` the places where this code is hard to test, with the properties that
cover them.

## 2. The modules

| Module | Models | Proved in |
|---|---|---|
| `LeasePool` | what the engine manager promises to its requests: a pool of leased engines (abstract) | - |
| `EngineManager` | the engine manager with its HTTP callers; implements `LeasePool` | `EngineManagerProofs` |
| `RequestLog` | the gateway's request log, its export, and the receiver's deduplication | `RequestLogProofs` |
| `FlowGraph` | an agent graph: order, validation, and the rules of its walk (no state) | - |
| `Dataflow` | what a run promises, whatever carries it (abstract) | - |
| `AgentRun` | one run in the durable workflow or the interactive walk; extends `FlowGraph`, implements `Dataflow` | `AgentRunProofs`, `AgentRunReplay`, `AgentRunPromise`, `AgentRunRow` |
| `McpManager` | the connections to one MCP server with their actors | `McpManagerProofs` |
| `SessionLog` | what a chat session promises: a log of whole turns (abstract) | - |
| `RunStore` | one chat session, its turns and its runs, statement by statement; implements `SessionLog` | `RunStoreProofs` |

`AgentRun` composes the walk, the workflow engine, the run's row, the callers
that answer gates and the child runs; `McpManager` composes the manager with
the actors of the clients; `RunStore` composes the handlers of runs, turns and
deletions over one database. Two of them look at a run's row: `RunStore` at the
interactive run in a session, by statement, with deletions; `AgentRun` at the
durable and the interactive run, by operation of its graph.

What is left to do: the small protocols of section 8.

## 3. The engine manager

### Module and code

`EngineManager.tla` models `IP/manager.py` whole, with the eviction policy, the
process handle and the HTTP handlers that call the manager. An action is the
code between two awaits.

| TLA+ | Code |
|---|---|
| `registry` | `Registry._models`: the binding of each logical id, `Reachable` for one that is not managed, `Absent` |
| `resident`, `engine` | `_resident` and the `_Resident` records, with each engine's process (`off`, `starting`, `up`, `stopping`) |
| `older` | the order of the `last_used` stamps of live engines; `expired` says that `idle_timeout` has passed |
| `queue` | the lock: callers of `acquire()` in order, the owner at the head (asyncio's lock is first-in first-out) |
| `section` | what the owner awaits: `launch` for `launcher.launch`, the other phases for a `terminate()`, named after what comes next |
| `task` | where each request, management call and the reaper is; `held` is its lease, `bad` that it has a failure to report |
| `Arrive`, `NotManaged`, `Reuse`, `Replace`, `Load`, `AfterReplace`, `AfterRoom`, `LaunchOk`, `LaunchFails` | `warm`, `_acquire` and `_ensure_up_locked` up to each of its awaits |
| `Release`, `AfterRetire`, `Sweep`, `DrainExcess`, `AfterSweep` | `_release`, `_enforce_ceiling_locked` |
| `UseEnds`, `UseFails`, `StreamFails`, `StreamCloses`, `StreamDropped` | the end of an upstream call, its failure before and after the first byte, and the client that hangs up while the failure report waits for the lock |
| `Report` | `_note_engine_failure`: the request resumes after its shielded release, later than the release, and reports |
| `AdminWarm`, `AdminEvict`, `AdminDelete`, `AdminCeiling`, `AdminPut`, `ReaperWakes`, `BeginShutdown` | the handlers in `IP/app.py` |
| `ProcessEnds`, `Breaks`, `Expires` | the outside: a process dies, a GPU error, time |

What the model abstracts. The victims of one list are stopped in any order
(the code's order is one of them). Two stamps are never equal. The resource
probe answers anything in `Watermarks`. A launch picks any free engine
identity; an identity is reused once nothing refers to it. `capabilities()` is
`warm` followed by an HTTP probe outside the lock and is not a separate
action. Between a process's end and the manager noticing it (a poll every
0.1 s) nothing the manager reads changes, so `Resumes` follows the end
directly. After `BeginShutdown` no request arrives: uvicorn has closed its
connections before the lifespan ends.

### Runs

| Run | Question | Instance |
|---|---|---|
| `engine_leases` | Are leases counted, is no engine stopped in use, is the list exact, do drains and deleted models have users, is the manager the pool of `LeasePool` to its requests? | 2 requests, 1 management call, reaper and shutdown on one id, 2 engine identities (the failed engine and its replacement), all mishaps |
| `engine_ceiling` | Do idle engines stay within the ceiling, is enforcement exact, are priorities respected, does a launch fit in memory? | 3 ids, 2 priorities, ceiling moving in 1..3, 2 requests; the watermark probe is quiet |
| `engine_answered` | Does a queued request get an engine or an error? | crash, evict and delete; only the lock's owner is fair, upstream calls need not end |
| `engine_live` | Does a drain end, is an idle engine reaped, is a lowered ceiling re-asserted although drains are cancelled? | 2 ids, ceiling 1..2; upstream calls end, the reaper wakes |
| `engine_stale_mark` | Is an engine retired only for its own failure? | violated, see below |

`LeasePool` is the manager as its requests see it: at most one engine serves an
id, requests lease it, use it and return it. No lock, queue, policy or process is
visible. `Lend` gives nobody an engine that is bad, `Trim` ends an engine only if
nobody who holds it uses it any more and leaves none draining that nobody holds,
`Delete` leaves an engine only if it is held and drains. `Pool` maps the manager
to it: `LeaseOf` is `held`, from the moment the release has the lock on nobody's;
`Using` is the requests in their upstream call or in a report under the lease;
`Known` the registered ids; `Bad` the live engines that are marked failed or
without a process. `KeepsPool`, checked by `engine_leases`, is the pool's
specification under this mapping. It says of every step what the invariants say
of states, wherever the lock's owner is. `FailedNotLeased` follows from it
and `LeasesCounted`, and is checked by no run of its own.

Why the bounds are enough: every property is about one engine and the requests
on it, or about one list of victims. Two requests give every order of
acquire, release, report and drain on one engine; two identities give an engine
and its successor under the same id; three ids with two priorities give a
victim, a survivor and an incoming load. `CHECK_DEADLOCK FALSE`: with the
shutdown done, or with no call in progress and none wanted, the plane rests.

Fairness. `LockFairness`: the owner of the lock goes on. Its awaits end because
a launch has a startup timeout (`IP/launcher.py:245`) and a termination ends in
SIGKILL (`IP/launcher.py:298`, the action `Kill`). `RequestFairness` adds that
upstream calls end, an assumption about models and clients which the code
leaves to its HTTP timeouts; `Answered` does without it. The reaper's loop
wakes by `asyncio.sleep`. Fairness is weak throughout: the lock's queue is
first-in first-out, so a waiter's turn, once there, stays.

`CeilingReasserted` is conditional: "unless some engine stays busy for good".
Without the condition it is false, and intended to be: a request in flight is
never killed.

### What the runs found

- `engine_stale_mark`: `mark_failed` is given a logical id and retires whatever
  engine is resident under it when it owns the lock (`IP/manager.py:146`). A
  non-streaming request releases its lease before its failure is reported, so
  the broken engine can be torn down and replaced in between, and the report
  retires its healthy successor.

Two behaviours of the code that the model has and no run counts as an error:

- An engine that goes idle while another one's drain covers the excess is
  spared by the sweep (`IP/manager.py:245`). When a lease then cancels that
  drain (`IP/manager.py:358`) nothing runs the sweep again until some engine
  goes idle, and with the second engine used without a pause the plane stays
  over a lowered ceiling with an idle engine resident. The docstring at
  `IP/manager.py:221` gives this situation as the reason for the sweep on the
  release path. `CeilingReasserted` is true because it excuses the plane while
  an engine is busy for good.
- A resident engine is handed out without a look at the binding its id has now
  (`IP/manager.py:344`), and a `PUT` of a model evicts nothing
  (`IP/app.py:488`). The user documentation says that a re-registration "takes
  effect on the next run" (`docs/user-docs/content/concepts/models-and-engines.md:92`);
  it does once the old engine has gone.

### Proofs

`EngineManagerProofs.tla` proves, for every number of clients, management
calls, ids, engines, bindings and ceilings that satisfy the module's named
assumptions, the theorems listed in `PROJECT.json`: `TypeCorrect`,
`LeaseCount`, `NeverStopped`, `Listing`, `DrainsHaveUsers` and `DeletedDrains`
from a first inductive invariant, `FailedUnleased`, `LaunchesFit`,
`SweepsExact`, `PrioritiesKept` and `IdleBounded` from two more, and from the
first two the refinement, `PoolKept` (`KeepsPool`).

None of these invariants is inductive alone. That an engine is never stopped
in use needs that an idle counter means no lease (`LeasesCounted`), that a
victim chosen earlier in a section is still idle when its turn comes
(`SectionInv`: only a lease could change that, and a lease needs the lock),
and that an id finds its own engine (`ListedIffLive`). `EngineInv` is the
conjunction of

- `TypeOK`, and `TaskInv`: which fields a task has at which point;
- `SectionInv`: what each awaited phase left true, in particular that the
  victims are live, and idle unless the plane is shutting down;
- `UseInv`, `DrainInv`, `ProcInv`: the strengthened forms of the safety
  properties that hold while the lock is taken, too;
- `LeasesCounted`, `ListedIffLive`, `UnregisteredDrains`.

The lemmas `LeaveInv`, `StopInv` and `ServeInv` say under which condition
leaving the section, starting a termination or handing out an engine keeps the
invariant; each action's lemma reduces the action to one of them, and
`NextInv` puts them together. Counting leases uses the library's theorems on
cardinalities when one client enters or leaves a set.

The ceiling needs more than the leases. `ShapeInv` adds that `older` orders the
live engines strictly (`OrderInv`), that every live engine has a priority
(`BindingInv`), which calls can still be under way (`CallInv`), and that a
process in memory which is not listed is either the one the lock's owner awaits
or the rest of a startup that failed (`MemoryInv`). From the order follows, by
induction over finite sets, what the policy's choice is: `FirstSize` (the first
n engines are n of them, or all) and `FirstLow` (none of them has a greater
priority than one left out). With these `SweepsExact`, `PrioritiesKept` and
`LaunchesFit` are facts about a single step from a state of both invariants
(`NextPromise`), and so is `FailedUnleased` (`NextShape`).

That idle engines stay within the ceiling is not such a fact: the property
speaks of a free lock, but a section releases it after several awaits, during
which requests queue, ceilings move and calls come in. `RoomInv` says, for each
phase, what the owner of the lock already knows unless some other call has an
enforcement pending: while it makes room or replaces, idle engines fit; while it
launches, one more than the live engines fits; while it clears after an
enforcement, the idle engines that are no victims fit. A ceiling that is lowered
meanwhile breaks the bound and makes the condition false in the same step,
because its enforcement queues at once; the condition becomes true again only in
the enforcement, which restores the bound (`DrainExcessRoom`).

The refinement is proved step by step: every action of the manager is one step
of the pool or none. `Trimming` covers what ends engines: a step that takes back
at most the lease its owner came to return, ends at most one engine, which is
idle or left over at the shutdown, and calls off no drain, is `Return` or
`Manage`. That no holder of the engine still uses it, and that whatever drains
afterwards is held, are not facts about the step; they are `UseInv` and
`DrainInv` after it, which is why the proof takes the invariant on both sides.
`LeavePool` and `StopPool` reduce the operations to it; the failures
(`FailPool`), the unregistering (`DeletePool`) and the leases (`ServePool`) are
steps of their own. That nobody is served after the shutdown began is `CallInv`.

Only model-checked: all liveness (`Answered`, `DrainEnds`, `IdleReaped`,
`CeilingReasserted`), which is out of this prover's reach.

## 4. The request log

### Module and code

`RequestLog.tla` models `AG/requestlog.py` whole, the shutdown in `AG/app.py`
and the control plane's side of an export. The appends, reads, commits and
prunes run in worker threads under one lock: each is one action.

| TLA+ | Code |
|---|---|
| `queue`, `writing` | `RequestLog._queue`, and the batch in the writer's thread |
| `disk`, `opened` | the segments, each a sequence of lines and what follows its last newline; `Spool._opened` |
| `cursor` | the cursor file: the position of the last line exported |
| `exporter` | where `export_once` is, with its batch, the cursor to commit and the batch limit, which only a restart resets |
| `wire`, `rows` | requests that may still arrive; the rows of the control plane, keyed by record id |
| `stats` | `LogStats`, as sets of records instead of numbers (not reset by a restart, so that what was recorded can be compared with what is stored) |
| `Observe`, `Take`, `LeaveOut`, `AppendLines`, `WriteFails` | `record`, `_run`, `_write`, `Spool.append` with `_open` and `_prune`, and its failure |
| `Export`, `TooLarge`, `SendFails`, `Commit`, `CommitFails` | `export_once` up to the request, the three kinds of answer, `Spool.commit`, and the commit that raises |
| `Deliver`, `Lose` | `POST /gateway/events` with its deduplication by id, and the network |
| `CursorLost` | the cursor file that does not parse |
| `Leave`, `Stop`, `StopTimesOut`, `Stopped`, `Crash`, `Start` | the lifespan: the exporter is cancelled first, the log drains for `STOP_SECONDS`; the end at any point; the next start, perhaps under another gateway id |

A write that stops early, in a crash or a failure, leaves any number of its
lines and perhaps a tail: a beginning of the next line (`Torn`), or that line
whole without its newline. Bytes are counted in lines, so a segment of
`SegmentLines` lines is full. A refusal other than "too large" is a failed send.

Left out: the counters of what was exported and of lines that do not parse,
which no property here needs, and a crash between a segment's removal and its
count (`AG/requestlog.py:233`, `235`): the real counters end with the process,
and `stats` is their history.

The counters are kept as the code counts. `unwritten` takes in the whole batch
of a failed append, also the lines that reached the disk, and `pruned` takes in
a segment that was exported to its last line while the cursor is still in it
(`AG/requestlog.py:234`): both may overstate a loss, and no property here says
they do not.

### Runs

| Run | Question | Instance |
|---|---|---|
| `log_spool` | Is what was recorded stored, pending or counted as pruned; does the cursor pass only what is stored; is what is stored free of gaps? | 4 records of 2 gateway ids, segments of 1 line of which 2 are kept, batches of 2 where 1 is accepted, 2 restarts, crash, timeout and lost cursor |
| `log_exported` | Has every missing observation a counter, and does a record on the disk reach the control plane? | 3 observations, one malformed, queue of 2, crash and failed writes |
| `log_glued` | The first question, with failed writes | violated |

The bounds: a batch of two written to a segment of one line gives a segment the
cursor can stand inside of; a third and a fourth record prune it. Two records per
gateway id put the boundary between ids inside a batch. `CHECK_DEADLOCK FALSE`:
with everything exported the log rests.

Fairness (`FairSpec`, for `Exported`): the writer's and the exporter's tasks go
on, the process is started again, an answer that does not come is a timeout of
the HTTP client, and a request sent over and over is at last answered as its
size deserves (strong fairness of `TooLarge` and `Deliver`, an assumption about
the control plane and the network). `Exported` is about lines of the disk; a
record glued to a torn line is not one.

What it found (`log_glued`): a write that fails part way, on a full disk for
one, leaves a line without its newline. `_open` ends such a line once per
process, so the next append continues it: the first record of that append does
not parse, the exporter skips it, and it stays counted as recorded.

### Proofs

`RequestLogProofs.tla` proves, for any records, gateway ids, segment, queue and
batch sizes and any number of restarts, that types are kept (`TypeCorrect`),
`CursorBehindRows` (`Behind`), `StoredInOrder` (`Ordered`) and `Accounted`
(`Counted`) with all mishaps, and `RecordedNotLost` (`NothingRecordedLost`)
under the hypothesis that no write fails, which `log_glued` shows to be needed.
The assumptions are the two of the module.

The argument has three layers.

- The disk. `Grown(D, E, N)` says that of the disk `D` segments may be gone and
  that lines were added only after all of its lines, each torn or a record of
  `N`. Opening, writing and pruning are shown to be such growth (`OpenedGrows`,
  `WrittenGrows`, `PrunedGrows`), and growth composes (`GrownTwice`). A position
  inside the disk stays inside it and before everything added (`InsideKept`,
  `PastAll`), which is why a cursor read before a prune or an append can be
  committed after it.
- The export. `Read` and `Consumed` take a beginning of what is pending and
  `Through` is its last position (`ReadFromTheFront`, `ThroughIs`). `Read`
  counts positions, so this needs that a disk has finitely many
  (`FinitePositions`), and least and greatest elements (`NatMin`, `FirstOf`,
  `FarthestOf`).
- The invariant `Inv`: `TypeOK`; `Tracked`, a record is in one place only, in
  the queue, the batch, the half-written tail, or else on the disk once and
  perhaps sent; `OrderInv`, what is stored, alone or with any batch on the wire,
  has no gap on the disk, so a late delivery makes none; `CursorInv`, what lies
  before the cursor is stored, and before the position to commit is stored or in
  the batch sent; `LifeInv`; `Accounted`. `Tracked` is what makes `OrderInv`
  inductive: a new line's record has never been sent, and the record at the end
  of a batch is at one position.

`RecordedNotLost` adds `RecordedInv`: once the spool is opened its last segment
ends in a newline, as long as no write fails; a line in a pruned segment before
the cursor is stored by `CursorInv`.

Only model-checked: `Exported`, which is liveness.

## 5. A run of a graph

### Modules and code

`FlowGraph.tla` is the graph of `packages/ir` (`topological_order`,
`validate_graph`) and the rules of the walk in `CP/walker.py`, which
`CP/durable/compiler.py` calls too: which edges are live, when a node is
skipped, what each kind of node binds. `AgentRun.tla` runs such a graph.

| TLA+ | Code |
|---|---|
| `graph`, `order`, `input` | the IR document, `topological_order(ir)`, the run's input |
| `row` | the run's row: status and, for a waiting run, `awaiting_node` |
| `journal` | the recorded operations of the workflow (external: DBOS) |
| `mail`, `caller` | `DBOS.send` on a gate's topic, and the requests to `POST /runs/{id}/resume` |
| `child` | the runs a subgraph, a loop or a map starts, by deterministic workflow id |
| `exec` | the execution of the workflow (or of the request) at each process |
| `NextOp` and below | which step `_durable_walk` takes next, node by node |
| `SettleNode`, `Consume` | what the walk does with its result |
| `Replay`, `Begin`, `Write`, `Finish`, `StepFails`, `Commit` | a step: replayed, or begun, its row written in a transaction of its own, its result recorded; all its attempts fail, though one may have made its write |
| `Receive`, `ReadGate`, `Answer` | `DBOS.recv` of a gate, the check of the status and the delivery in `resume_run` |
| `FanOut`, `Join`, `ChildEnds` | `_map_fanout` and its semaphore, the children |
| `Start`, `Crash`, `End` | dequeue or recovery, the end of a process, the return of the workflow |
| `Stream`, `Cancel`, `RequestFails`, `Sweep` | the interactive run: `_stream_graph`, its cancellation, a write of `_complete_graph` that fails, `reconcile_orphaned_runs` |

The workflow engine is external. Of it the model assumes: a recorded step is not
performed again; one that was begun may be; a second record at one position is
refused and stops the execution that brings it; an answer leaves the mailbox in
the transaction that records it; a child whose id exists is not started again.

`Dataflow.tla` is the promise: every node settles once, after the nodes it is
sequenced after; it is skipped exactly if it has inbound data edges and all are
dead; a run completes only with every node settled and at most one output among
those that ran. `KeepsPromise` is the refinement: `fate` is `seen` (how each
node settled first, in whichever execution), `outcome` is how the workflow
ended. It is a statement about the order, the skipping and the replay together:
a node that replays differently, or is taken before an input, is no step of
`Dataflow`.

### Runs

`agent_run` runs eleven graphs: a model with a tool, a router whose branches
rejoin, two outputs told apart by a rule with an error edge, two outputs that
both run, two gates in a row (the first with a deadline that fails the run), a gate
with a deadline and a default answer, nested subgraphs, a loop,
a map that collects or fails fast, a crawler. Two processes, three executions,
two callers, all mishaps. Each graph has one instance of each feature, and the
properties are about one node with its edges, or one gate, or one map: three
elements, two at a time, are enough for a bound to be exceeded; three
executions are a crash of a recovery, or a redundant execution with a crash.

Fairness (`RunEnds`): every behaviour of the model takes finitely many steps
because every loop of the code is bounded (iterations, polls, elements,
attempts) and so is the number of executions. Weak fairness of `Progress`
says that the system does not rest while a process could take the run on. It
includes that a process starts again, and that a child ends.

Two properties excuse `lapped`, a run on which two processes have acted at
once. `agent_overlap` shows why: `_mark_waiting_step` and `_set_running_step`
write the row whatever it says (`CP/durable/compiler.py:911`), so an execution
that was paused inside such a step writes `waiting` over the `completed` of the
one that overtook it, and nothing writes the row again.

Other behaviours the model has, which are not counted as errors:

- `_resolve_ir_step`, `_create_run_step` and the completion are called outside
  the walk's `try` (`CP/durable/compiler.py:1734`, `1756`, `1781`). If one of
  them fails on every attempt the workflow ends with an error and the row stays
  as it was (`Unwritten`); the docstring of `_map_fanout` says that
  "`theygent_run` never raises".
- A write of an interactive request that fails, or whose answer is lost, ends
  the request with an error and leaves the row as it is (`CP/app.py:2671`,
  outside the `try` of `_complete_graph`), where a stream cleans up.
- A resume that reads `waiting` just before the gate's time is up is accepted
  and never used.
- The startup sweep of one control plane fails the interactive runs of a living
  sibling; the sibling's next `streaming` or `completed` puts the row right.

### Proofs

`AgentRunProofs.tla` proves, for any valid graphs, workers, callers, mishaps and
number of executions, `TypeCorrect`, `Bounded` (`MapBounded`) and `OneAnswer`
(`GateTakesOneAnswer`); `AgentRunReplay.tla` proves `Replays` (`ReplayAgrees`),
`AgentRunPromise.tla` proves `Implements` (`KeepsPromise`) and `AgentRunRow.tla`
proves `Visible` (`GateVisible`), `OutcomeTold` (`RowTellsOutcome`) and
`OutcomeKept` (`OutcomeStays`): every safety property of the passing run.
The assumptions are the five named ones of the module.
One of them, `OrderAssumption`, says that the order of a run's graph lists each
node once and puts the source of an edge before its target. TLC evaluates it on
the graphs of the run; for all graphs it is an induction over the recursive
definition of `TopologicalOrder`, which this prover cannot do.

A recovered execution starts from the journal, and the children and answers of
the earlier ones are still there, so neither property is inductive alone.

- `MapBounded` counts the children under way over all executions together,
  while the code's semaphore counts the branches of one. `MapInv` closes the
  gap: the children of a map are started in their order, an execution has begun
  only started ones and joined only ended ones. So an execution that starts a
  child which did not exist has begun every child that did, and those under way
  are among its own branches (`FanOutBounded`).
- `GateTakesOneAnswer` needs that a gate which receives has no answer of its own
  in the journal. `GateInv` says where the answers are that an execution has
  consumed: at gates behind it, or at its own gate after the receiving step. An
  execution whose result is recorded has consumed the whole journal, so no
  answer lies at the gate it is at (`NotYet`); this is where the order's having
  each node once is used. `MailInv` says that an answer is in the mailbox of the
  gate its sender saw, once, until it is used, and that a used one is in the
  journal.
- `ExecOK` and `BusyInv` say which fields an execution has at which point, and
  that an operation under way is the next one of its execution; `RowInv` that
  the row names a gate exactly while it waits, which is what a caller reads.

Each step changes at most one execution, in one of the ways of `ExecSteps`
(lemma `Moves`), and the journal at its end (`Records`); each part of the
invariant is then shown over these ways rather than over the actions.

That a replay agrees rests on the determinism of the walk: where an execution
goes is a function of where it is and of the result it takes. The invariant that
says so is about a witness, not a variable. `CourseInv` says that the run has a
*course*, a finite sequence of places that begins at a fresh execution, in which
each place follows from the one before by a node without I/O or by the result
the journal has at its position (`Link`), and in which nothing that was settled
changes its fate (`Grows`). Every live execution is at a place of the course; the
fates noted first are those of its last place; the journal ends where the last
place has consumed it, or one result later if that result ended its execution
(`Halted`). An execution that is not at the last place goes to the next place of
the course (`OnCourse`), and one that is extends the course (`Extend`). So an
execution that is behind meets the operations that were recorded, and settles
nodes as they were settled. `WalkOK` says what a walk has settled: the steps
behind it, each with a fate its type allows, and one output node at most. The
branch of a map depends on the results of the children, which never change once
they are there (`EndedKept`).

That the run implements `Dataflow` follows from the course. An execution that
is behind settles nothing new (`WalkPromise`). One that extends the course
settles the node it is at: what the node is sequenced after has been walked,
since the order puts it before and no step waits for a capability
(`BeforeWalked`), and the walk's own rule for skipping is the dataflow's
(`SkippedIsDead`), for which no handle may be called like the mark of a skipped
node (`HandlesAssumption`). A run that completes is at the end of its course
without an exception, so every step has been walked and at most one output ran
(`Completes`). A cancelled interactive request takes its outcome from the row;
`DoneInv` says that the row is completed only once the walk has ended well.

What the row says follows from the course too, as long as no two processes have
acted on the run. Then there is one execution at most, and it performs an
operation only past the end of the journal (`Single`), so it acts at the last
place of the course (`ActsAtEnd`), whatever executions died before it. `Tells`
relates the row to that place: a completed row to a walk that has ended well, a
failed one to a walk that raised and is about to fail the run or has (or to an
interactive run nobody executes), a gate's waiting to a row that waits there. A
write that is repeated after a crash is performed at the same place, hence writes
the same. `Closed` says that nothing executes a run that is over, `Rested` that
an interactive execution whose row has an outcome has nothing left to write but
its end; without it a request that begins to stream late could unsay an outcome.

`RunEnds` is only model-checked: it is liveness.

## 6. The MCP connections

### Module and code

`McpManager.tla` models one name of `CP/mcp/manager.py` (names share nothing)
and the actor of `CP/mcp/client.py` that owns a connection. A coroutine's step
is the code between two awaits that can suspend it.

| TLA+ | Code |
|---|---|
| `config`, `current`, `lock` | `_configs[name]`, `_clients[name]`, `_locks[name]` |
| `client` | every client made: its actor's state, its queue (`NoTask` is the sentinel), the call it serves |
| `task` | a `call_tool`, `call_connection_tool`, `register`, `remove`, `close` or `warm`: where it awaits, its connection, its attempt |
| `BeginCall`, `BeginRegister`, `BeginRemove`, `BeginClose`, `BeginWarm` | the callers: a step of a run, and the routes of `CP/app.py` up to their first `await` |
| `Register`, `Replace`, `Drop`, `DropFailed`, `Ended` | `register`, `remove`, `close`, `_drop` with its guard on the client's identity |
| `Ensure`, `Connect`, `Open`, `OpenFails`, `Unreachable`, `Again` | `_ensure_connected` with a factory that may raise, the client's `connect`, the one retry |
| `Handshake`, `Serve`, `Reply`, `GivesUp`, `Dies`, `Drain` | the actor's `_run` and `_serve` |

### Run and proofs

`mcp_calls`: two callers and one management operation, two configurations, so
that a registration, a removal or a close meets a connect, a call in service, a
queued call and a retry. Two callers on one dead connection are the least that
show a second drop; no property relates more than two coroutines.
Fairness (`EveryOperationEnds`): the event loop runs what can run; the
handshake, a call and a close have timeouts (`CP/mcp/client.py`), so a silent
server does not hold a coroutine.

`McpManagerProofs.tla` proves, for any number of callers, management
operations and configurations: `TypeCorrect`, `Fresh` (`CurrentIsFresh`),
`Remembered` (`NoneForgotten`), `GoodKept` (`GoodOnesKept`), and two more
invariants, `Attended` and `OneAtATime`. That a call never
meets a connection of another configuration needs to know who may change either:
`LockInv` says that the lock is held exactly while a connection is replaced or
made, that there is none in use meanwhile, and that the one being made is of
the registered configuration. That a retry closes nothing good needs `HoldInv`
(a failed call's connection is over), which in turn needs `QueueInv`: a call is
in one place of one queue, or served, at the connection its caller waits at.
`KeptInv` is `NoneForgotten` with the connections still opening. `Inv` is their
conjunction with `TypeOK`.

`Attended` says that no call waits at a connection that has ended, and that one
which waits is queued or served there, once, and nowhere else. It is what the
last drain of the queue in `_run` is for: a call put behind the sentinel, or
behind the call that killed the actor, gets an answer too. `WaitInv` is its
inductive form: between its end and its drain (`ending`) a connection still
has its queue, and the call it served has been let go. `OneAtATime` says that
there is one process or session of the server at a time but for those being
closed, from `KeptInv` (a connection that is not closing is in use or being
made) and `LockInv` (not both). Without the per-name lock two of them would be
made for two first calls. Liveness is model-checked.

Behaviours to know of: two callers of one connection id with different
configurations register one after the other and then both call whatever was
registered last (`CP/mcp/manager.py:221`); a configuration removed while the
lock is awaited ends the call with a `KeyError` (`CP/mcp/manager.py:142`, the
result `"key"`) where a call that comes later gets `McpServerNotFound`.

## 7. A chat session and its runs

### Module and code

`RunStore.tla` models the transactions of `POST /runs` with a session,
`POST /sessions/{id}/turns` and `DELETE /sessions/{id}`, in `CP/app.py` and
`CP/store.py`. An action is one statement, or the last statement with its
commit. The database is external: read committed, row locks until the end of a
transaction, foreign keys checked by the statement that needs them.

| TLA+ | Code |
|---|---|
| `exists`, `message`, `run` | the session's row, its messages, the rows of the runs |
| `locked` | `SELECT ... FOR UPDATE` of the session in `append_turn` |
| `tx` | what an open transaction has written: a status, a turn, the rows it deletes and detaches |
| `Ensure`, `Insert`, `Stream`, `Answer`, `Fail`, `Escape`, `Close` | `_stream_run`, `_complete_run` |
| `Disconnect`, `Cleanup` | the cancelled stream and `_terminalize_interrupted` |
| `CheckTurn`, `Lock`, `Place`, `Commit` | `append_session_turns`, `append_turn` |
| `CheckDelete`, `Detach`, `Clear`, `Drop` | `delete_session_endpoint`, `delete_chat_session` |
| `Restart` | the end of the process, and `reconcile_orphaned_runs` |

### Run and proofs

`run_store`: two runs, a client's turn, two deletions, one restart: two
appends and a deletion in every order, and two deletions that race.
Fairness (`RequestsEnd`): some step of some request that can go on does. The
database grants a row to one who waits and the model answers or fails; a
request takes finitely many steps. A deadlock of two transactions would violate
it.

`SessionLog` is what the session looks like from outside: a turn is appended
whole, in the same instant as its run completes; a deletion takes all turns
away at once and lets the runs go; a run ends once. `Log` maps the rows to it:
`Turns` is who said the messages, by their positions, `Outcome` the status of a
run, with `created` and `running` as one and `empty` for a completion without a
turn. What an open transaction has written is no part of it. `KeepsLog`, checked
by `run_store`, is `SessionLog`'s specification under this mapping.

`RunStoreProofs.tla` proves, for any number of requests and restarts,
`TypeCorrect`, `Whole` (`TurnsWhole`), `Agree` (`OutcomeAndTurn`), `EndedKept`
(`EndedStays`, which no run checks by itself as `KeepsLog` implies it) and the
refinement, `KeepsItsLog` (`KeepsLog`). `TurnsWhole` needs that the positions of
an open transaction are the next two until it commits (`PlaceInv`: whoever has
placed a turn holds the session's row, and nobody else does), that messages are
dense and in pairs (`DenseInv`), and that a session that is gone has no messages
(`GoneInv`); `OutcomeAndTurn` needs in addition which status a row has while its
handler is at which place (`RowInv`). Densities are about `Max` of a finite set;
`NextPosition` is the lemma for it.

For the refinement `LogGrows` shows that appending a turn to dense messages
appends its speaker to `Turns`, and `LogInv` that a turn about to be committed
has not been said, which needs that a request commits one turn (`OnceInv`). Then
each action is a step of the log or none (`CommitSays`, `DropSays`,
`RestartSays`; the statements before a commit are stutters), `StepSays` puts
them together and `InitSays` is the start.

Behaviours to know of: a run request or a new turn that races a deletion fails
on the foreign key, or the deletion does (an error 500, nothing written);
an error that is not expected where the model is asked, or a client that is
gone before its stream begins (`Escape`), leaves the row `created` until the
next restart; a run of a deleted session that is in flight when a
session of the same id is made appends its turn to the new one.

What the model of the database leaves out. A commit whose acknowledgement is
lost. `Detach` takes the rows of all attached runs at once, while the database
locks them one by one: two deletions that lock several runs in different orders
are told apart by the database as a deadlock, and one of them fails; here one
waits for the other. `Clear` does not wait for the message rows of another
deletion, which changes nothing, as that deletion holds or waits for the rows
`Drop` needs. `Restart` is of the only process: the startup sweep of a sibling
on the same database is in `AgentRun`.

## 8. Not modelled

`components` in `PROJECT.json` lists every part. Of 54,000 lines the models
stand for about one in seventeen. Most of the rest is CRUD, conversion,
rendering and I/O with services, where a transition system has nothing to say:
the handlers and stores of agents, drafts, connections and settings, the
catalogs, providers, crawlers and retrieval, reports and conversations,
authentication and secrets, the transfer of archives, the browser interface,
the site and the deployment files.

Small protocols that are not modelled:

- The schedule dispatcher fires a run and stamps the fire afterwards in a
  transaction of its own (`CP/dispatcher.py:125`, the stamp in a `finally`). A
  process that ends in between fires the window again after its restart, and a
  second instance in non-durable mode fires it, too, where
  `docs/user-docs/content/running/triggers.md:156` says that a restart "doesn't
  double-fire within a window". The model would be this one step.
- Retention archives and deletes in batches under one advisory lock; config
  synchronisation is one task that polls and applies; the gates' counters are
  one upsert each.
- A download's cancellation against its completion, and the files behind the
  registry, installs and settings: the engine manager's model takes the
  registry in memory as what is registered.
- The gateway's policy and routing are pure functions without a second
  definition in the repository to check them against.

Left out of modelled components: in `AgentRun` contents, prompts and templates,
tracing, the numbering of a map's concurrent operations, more than one call in a
model's turn, the write that fails a waiting run whose workflow is gone from
DBOS's own database (`CP/app.py:1791`: it takes the loss of that database, or a
workflow removed by hand), and an interactive stream whose last write commits
but seems to fail, which then writes `failed` over it (`CP/app.py:2599`); in `McpManager` the tool list and its cache, results, which
transport it is, cancelled callers; in `RunStore` reads, owners and metadata.
A tool call that timed out may have taken effect when it is repeated
(`CP/mcp/manager.py:184`): the model repeats it, and has no property about it
since the code promises at-least-once only.
