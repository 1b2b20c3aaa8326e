----------------------------- MODULE McpManager -----------------------------
(***************************************************************************)
(* The connections to one MCP server: the manager's registration, its lazy *)
(* connect under a lock, the retry of a call on a new connection, and the  *)
(* actor that owns a connection and serves its calls one at a time.        *)
(* Names do not share state, so one name is modelled.                      *)
(*                                                                         *)
(* Coroutines interleave where the code awaits something that can suspend  *)
(* it: the lock, a connect, an answer, the end of an actor.  A close that  *)
(* is not part of a registration takes no lock.                            *)
(*                                                                         *)
(* Left out: the tools of a server (a call names one it has), results,     *)
(* which transport it is, cancelled callers.                               *)
(***************************************************************************)
EXTENDS Naturals, Sequences, FiniteSets

CONSTANTS Callers,    \* coroutines of runs: each makes one call
          Admins,     \* coroutines of the admin routes, one operation each
          Configs,    \* configurations of the server
          NoTask, NoConfig

ASSUME NoneAssumption == NoTask \notin Callers \cup Admins /\ NoConfig \notin Configs

Tasks == Callers \cup Admins

VARIABLES config,   \* the registered configuration
          client,   \* the connections made, one after another
          current,  \* the connection calls use
          lock,     \* who holds the name's lock
          task      \* the coroutines

vars == <<config, current, lock, client, task>>

NoClient == 0
Clients == DOMAIN client

\* A task's operation, its configuration, where it is, the connection it uses or
\* ends, its attempt, and how its operation ended.
NewTask == [op |-> "none", want |-> NoConfig, pc |-> "new", client |-> NoClient,
            attempt |-> 1, result |-> "none"]

\* A connection: its configuration, the state of its actor, the queue of calls
\* (NoTask is the sentinel that ends it), the call being served, and if it is
\* being closed.
NewClient(cfg) == [config |-> cfg, state |-> "opening", queue |-> <<>>,
                   serving |-> NoTask, closing |-> FALSE]

Goto(t, pc) == [task EXCEPT ![t].pc = pc]
Done(t, result) == [task EXCEPT ![t].pc = "done", ![t].result = result]

\* These calls get an error.
Failed(f, ts) == [t \in Tasks |-> IF t \in ts THEN [f[t] EXCEPT !.pc = "failed"] ELSE f[t]]
Queued(c) == {client[c].queue[i] : i \in DOMAIN client[c].queue} \ {NoTask}
Served(c) == {client[c].serving} \ {NoTask}

\* close(): a ready actor is sent the sentinel; one that is not is cancelled.
Closed(f, c) ==
  [f EXCEPT ![c].closing = TRUE,
            ![c].queue = IF f[c].state = "ready" THEN Append(@, NoTask) ELSE @]

-----------------------------------------------------------------------------
(* Registration. *)

\* What follows a registration: an operation by configuration goes on.
Registered(t) ==
  IF task[t].op = "conncall" THEN Goto(t, "ensure") ELSE Done(t, "ok")

Begin(t, op, want, pc) ==
  /\ task[t].pc = "new"
  /\ task' = [task EXCEPT ![t].op = op, ![t].want = want, ![t].pc = pc]
  /\ UNCHANGED <<config, current, lock, client>>

\* A call of a registered server, or by configuration, which registers what differs.
BeginCall(t) ==
  \/ Begin(t, "call", NoConfig, "ensure")
  \/ \E want \in Configs :
       Begin(t, "conncall", want, IF config # want THEN "register" ELSE "ensure")

\* The routes of an admin.
BeginRegister(t, want) == Begin(t, "register", want, "register")

BeginRemove(t) == config # NoConfig /\ Begin(t, "remove", NoConfig, "register")

\* A server registered by its name is looked up first, a connection's is not.
BeginClose(t) == Begin(t, "close", NoConfig, "drop")

\* To warm a server up, or to list its tools.
BeginWarm(t) == config # NoConfig /\ Begin(t, "warm", NoConfig, "ensure")

BeginAdmin(t) ==
  \/ \E want \in Configs : BeginRegister(t, want)
  \/ BeginRemove(t) \/ BeginClose(t) \/ BeginWarm(t)

\* MUTANT: a registration does not take the lock.
RegisterUnlocked(t) ==
  /\ task[t].pc = "register"
  /\ IF current = NoClient
     THEN /\ config' = task[t].want
          /\ task' = Registered(t)
          /\ UNCHANGED <<current, lock, client>>
     ELSE /\ current' = NoClient
          /\ client' = Closed(client, current)
          /\ task' = [task EXCEPT ![t].pc = "replace", ![t].client = current]
          /\ UNCHANGED <<config, lock>>

\* Under the lock, the connection is dropped; the configuration is replaced once
\* the connection has ended.
Register(t) ==
  /\ task[t].pc = "register" /\ lock = NoTask
  /\ IF current = NoClient
     THEN /\ config' = task[t].want
          /\ task' = Registered(t)
          /\ UNCHANGED <<current, lock, client>>
     ELSE /\ lock' = t
          /\ current' = NoClient
          /\ client' = Closed(client, current)
          /\ task' = [task EXCEPT ![t].pc = "replace", ![t].client = current]
          /\ UNCHANGED config

Replace(t) ==
  /\ task[t].pc = "replace" /\ client[task[t].client].state = "dead"
  /\ config' = task[t].want
  /\ lock' = NoTask
  /\ task' = Registered(t)
  /\ UNCHANGED <<current, client>>

\* close(name): the connection is dropped without the lock.
Drop(t) ==
  /\ task[t].pc = "drop"
  /\ IF current = NoClient
     THEN task' = Done(t, "ok") /\ UNCHANGED <<current, client>>
     ELSE /\ current' = NoClient
          /\ client' = Closed(client, current)
          /\ task' = [task EXCEPT ![t].pc = "ending", ![t].client = current]
  /\ UNCHANGED <<config, lock>>

-----------------------------------------------------------------------------
(* Calls. *)

\* The task has connection c.  A warm-up is over; a call is queued at
\* it, unless its actor has ended.
Connected(t, c) ==
  IF task[t].op = "warm" THEN task' = Done(t, "ok") /\ UNCHANGED client
  ELSE IF client[c].state = "dead"
  THEN task' = [task EXCEPT ![t].pc = "failed", ![t].client = c] /\ UNCHANGED client
  ELSE /\ task' = [task EXCEPT ![t].pc = "wait", ![t].client = c]
       /\ client' = [client EXCEPT ![c].queue = Append(@, t)]

\* The registration is looked up, then the connection.
Ensure(t) ==
  /\ task[t].pc = "ensure"
  /\ IF config = NoConfig THEN task' = Done(t, "unknown") /\ UNCHANGED client
     ELSE IF current # NoClient THEN Connected(t, current)
     ELSE task' = Goto(t, "connect") /\ UNCHANGED client
  /\ UNCHANGED <<config, current, lock>>

\* MUTANT: the lock taken, the connection is not looked at again.
ConnectAgain(t) ==
  /\ task[t].pc = "connect" /\ lock = NoTask
  /\ IF config = NoConfig
     THEN task' = Done(t, "key") /\ UNCHANGED <<lock, client>>
     ELSE /\ client' = Append(client, NewClient(config))
          /\ task' = [task EXCEPT ![t].pc = "opening", ![t].client = Len(client) + 1]
          /\ lock' = t
  /\ UNCHANGED <<config, current>>

\* Under the lock, somebody else's connection is used, or one is made.  The
\* configuration may have been removed while the lock was awaited, or the factory
\* cannot make a client of it.
Connect(t) ==
  /\ task[t].pc = "connect" /\ lock = NoTask
  /\ \/ /\ current # NoClient
        /\ Connected(t, current)
        /\ UNCHANGED lock
     \/ /\ current = NoClient /\ config = NoConfig
        /\ task' = Done(t, "key")
        /\ UNCHANGED <<lock, client>>
     \/ /\ current = NoClient /\ config # NoConfig
        /\ task' = Done(t, "unreachable")
        /\ UNCHANGED <<lock, client>>
     \/ /\ current = NoClient /\ config # NoConfig
        /\ client' = Append(client, NewClient(config))
        /\ task' = [task EXCEPT ![t].pc = "opening", ![t].client = Len(client) + 1]
        /\ lock' = t
  /\ UNCHANGED <<config, current>>

\* The connection was ready: it is the one calls use now.
Open(t) ==
  LET c == task[t].client
  IN /\ task[t].pc = "opening" /\ client[c].state # "opening" /\ ~ client[c].closing
     /\ current' = c
     /\ lock' = NoTask
     /\ Connected(t, c)
     /\ UNCHANGED config

\* The handshake fails or takes too long: the actor is cancelled, its end awaited.
OpenFails(t) ==
  LET c == task[t].client
  IN /\ task[t].pc = "opening" /\ client[c].state = "opening" /\ ~ client[c].closing
     /\ client' = Closed(client, c)
     /\ UNCHANGED <<config, current, lock, task>>

\* It has ended: the connect has failed.
Unreachable(t) ==
  /\ task[t].pc = "opening"
  /\ client[task[t].client].state = "dead" /\ client[task[t].client].closing
  /\ lock' = NoTask
  /\ task' = Done(t, "unreachable")
  /\ UNCHANGED <<config, current, client>>

\* MUTANT: it is tried until it works.
AgainAndAgain(t) == [task EXCEPT ![t].pc = "ensure", ![t].attempt = @ + 1]

\* A failed call is tried once more.
Again(t) == IF task[t].attempt = 2 THEN Done(t, "failed")
            ELSE [task EXCEPT ![t].pc = "ensure", ![t].attempt = 2]

\* MUTANT: whatever connection is in use is dropped.
DropAny(t) ==
  /\ task[t].pc = "failed"
  /\ IF current # NoClient
     THEN /\ current' = NoClient /\ client' = Closed(client, current)
          /\ task' = [task EXCEPT ![t].pc = "ending", ![t].client = current]
     ELSE /\ task' = Again(t)
          /\ UNCHANGED <<current, client>>
  /\ UNCHANGED <<config, lock>>

\* The connection a call failed on is dropped, unless it was replaced already.
DropFailed(t) ==
  LET c == task[t].client
  IN /\ task[t].pc = "failed"
     /\ IF current = c
        THEN current' = NoClient /\ client' = Closed(client, c)
        ELSE UNCHANGED <<current, client>>
     /\ task' = IF current = c THEN Goto(t, "ending") ELSE Again(t)
     /\ UNCHANGED <<config, lock>>

\* The dropped connection has ended: a close is over, a failed call goes on.
Ended(t) ==
  /\ task[t].pc = "ending" /\ client[task[t].client].state = "dead"
  /\ task' = IF task[t].op = "close" THEN Done(t, "ok") ELSE Again(t)
  /\ UNCHANGED <<config, current, lock, client>>

-----------------------------------------------------------------------------
(* The actor that owns a connection. *)

\* The handshake is done.
Handshake(c) ==
  /\ client[c].state = "opening" /\ ~ client[c].closing
  /\ client' = [client EXCEPT ![c].state = "ready"]
  /\ UNCHANGED <<config, current, lock, task>>

\* The next call is taken; the sentinel ends the service.
Serve(c) ==
  /\ client[c].state = "ready" /\ client[c].serving = NoTask /\ client[c].queue # <<>>
  /\ client' = [client EXCEPT ![c].queue = Tail(@),
                              ![c].serving = Head(client[c].queue),
                              ![c].state = IF Head(client[c].queue) = NoTask THEN "ending"
                                           ELSE "ready"]
  /\ UNCHANGED <<config, current, lock, task>>

\* The server answers.
Reply(c) ==
  /\ client[c].state = "ready" /\ client[c].serving # NoTask
  /\ client' = [client EXCEPT ![c].serving = NoTask]
  /\ task' = Done(client[c].serving, "answered")
  /\ UNCHANGED <<config, current, lock>>

\* The call in service gets an error and the actor ends.
Break(c) ==
  /\ client' = [client EXCEPT ![c].state = "ending", ![c].serving = NoTask]
  /\ task' = Failed(task, Served(c))
  /\ UNCHANGED <<config, current, lock>>

\* The call fails or times out, or a close that waited long enough, or found the
\* connection not ready, cancels the actor.
GivesUp(c) ==
  /\ \/ client[c].state = "ready" /\ (client[c].serving # NoTask \/ client[c].closing)
     \/ client[c].state = "opening" /\ client[c].closing
  /\ Break(c)

\* The transport fails while nothing is called.
Dies(c) ==
  /\ client[c].state = "ready" /\ client[c].serving = NoTask
  /\ Break(c)

\* MUTANT: the queue is left as it is.
DrainNothing(c) ==
  /\ client[c].state = "ending"
  /\ client' = [client EXCEPT ![c].state = "dead"]
  /\ UNCHANGED <<config, current, lock, task>>

\* The actor ends: calls still queued, those that came as it tore its transport
\* down among them, are failed.
Drain(c) ==
  /\ client[c].state = "ending"
  /\ client' = [client EXCEPT ![c].state = "dead", ![c].queue = <<>>]
  /\ task' = Failed(task, Queued(c))
  /\ UNCHANGED <<config, current, lock>>

-----------------------------------------------------------------------------
Init ==
  /\ config \in Configs \cup {NoConfig}
  /\ current = NoClient
  /\ lock = NoTask
  /\ client = <<>>
  /\ task = [t \in Tasks |-> NewTask]

Step(t) == \/ Register(t) \/ Replace(t) \/ Drop(t) \/ Ensure(t) \/ Connect(t) \/ Open(t)
           \/ OpenFails(t) \/ Unreachable(t) \/ DropFailed(t) \/ Ended(t)

Act(c) == Handshake(c) \/ Serve(c) \/ Reply(c) \/ GivesUp(c) \/ Drain(c)

Next == \/ \E t \in Callers : BeginCall(t)
        \/ \E t \in Admins : BeginAdmin(t)
        \/ \E t \in Tasks : Step(t)
        \/ \E c \in Clients : Act(c) \/ Dies(c)

Spec == Init /\ [][Next]_vars

\* The event loop runs what can run: a coroutine that may go on, an actor that has
\* a call, a timeout that is over.  Every operation takes finitely many steps.
FairSpec == Spec /\ WF_vars((\E t \in Tasks : Step(t)) \/ \E c \in Clients : Act(c))

-----------------------------------------------------------------------------
(* Properties. *)

States == {"opening", "ready", "ending", "dead"}
Ops == {"none", "call", "conncall", "register", "remove", "close", "warm"}
Places == {"new", "register", "replace", "drop", "ensure", "connect", "opening", "wait",
           "failed", "ending", "done"}

Connection == [config : Configs, state : States, queue : Seq(Tasks \cup {NoTask}),
               serving : Tasks \cup {NoTask}, closing : BOOLEAN]
Coroutine == [op : Ops, want : Configs \cup {NoConfig}, pc : Places, client : Nat,
              attempt : {1, 2},
              result : {"none", "ok", "unknown", "key", "unreachable", "failed", "answered"}]

\* The variables keep their types.
TypeOK ==
  /\ config \in Configs \cup {NoConfig}
  /\ client \in Seq(Connection)
  /\ current \in Clients \cup {NoClient}
  /\ lock \in Tasks \cup {NoTask}
  /\ task \in [Tasks -> Coroutine]

\* Calls use a connection that was made from the configuration now registered.
CurrentIsFresh == current # NoClient => client[current].config = config

\* A connection that is up is the one calls use or is being closed: none is
\* replaced, or made beside another, and forgotten.
NoneForgotten ==
  \A c \in Clients : client[c].state = "ready" =>
    \/ c = current \/ client[c].closing
    \/ \E t \in Tasks : task[t].pc = "opening" /\ task[t].client = c

\* A call that failed closes no connection that is still good: a failure of one
\* connection does not end the calls on its replacement.
GoodOnesKept ==
  [][\A t \in Tasks, c \in Clients :
       task[t].pc = "failed" /\ task'[t].pc # "failed" /\ client'[c].closing /\ ~ client[c].closing
         => client[c].state # "ready"]_vars

\* Every operation comes to an end: no call waits at a connection that is gone,
\* nobody waits for a lock that is never released.
EveryOperationEnds == \A t \in Tasks : (task[t].pc # "new") ~> (task[t].pc = "done")

=============================================================================
