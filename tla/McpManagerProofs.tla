-------------------------- MODULE McpManagerProofs --------------------------
(* What McpManager promises for any number of coroutines and configurations. *)
EXTENDS McpManager, SequenceTheorems, TLAPS

Locking == {"replace", "opening"}
Holding == {"replace", "opening", "wait", "failed", "ending"}

\* The lock is held exactly while a connection is replaced or made; meanwhile calls
\* have no connection, and the one being made is of the registered configuration.
LockInv ==
  /\ \A t \in Tasks : task[t].pc \in Locking <=> lock = t
  /\ \A t \in Tasks : task[t].pc \in Locking => current = NoClient
  /\ \A t \in Tasks : task[t].pc = "opening" => client[task[t].client].config = config

\* A coroutine refers to a connection that was made; one whose call failed, to one
\* that is over.
HoldInv ==
  /\ \A t \in Tasks : task[t].pc \in Holding => task[t].client \in Clients
  /\ \A t \in Tasks : task[t].pc = "failed" => client[task[t].client].state \in {"ending", "dead"}

\* A call is in one place at its connection, and its caller waits for it there.
Distinct(q, s) ==
  \A i \in DOMAIN q :
    /\ q[i] # NoTask => q[i] # s
    /\ \A j \in DOMAIN q : q[i] = q[j] /\ i # j => q[i] = NoTask
WaitsAt(t, c) == t \in Tasks /\ task[t].pc = "wait" /\ task[t].client = c
QueueInv ==
  \A c \in Clients :
    /\ \A t \in Queued(c) \cup Served(c) : WaitsAt(t, c)
    /\ Distinct(client[c].queue, client[c].serving)

\* A connection that may yet serve calls is in use, on its way, or being closed.
KeptInv ==
  \A c \in Clients : client[c].state \in {"opening", "ready"} =>
    \/ c = current \/ client[c].closing
    \/ \E t \in Tasks : task[t].pc = "opening" /\ task[t].client = c

Inv == TypeOK /\ CurrentIsFresh /\ LockInv /\ HoldInv /\ QueueInv /\ KeptInv

\* A call that waits is in the queue of its connection, or served there; an actor
\* that has ended has neither.
WaitInv ==
  /\ \A t \in Tasks, c \in Clients : WaitsAt(t, c) => t \in Queued(c) \cup Served(c)
  /\ \A c \in Clients : client[c].state \in {"ending", "dead"} => client[c].serving = NoTask
  /\ \A c \in Clients : client[c].state = "dead" => client[c].queue = <<>>

-----------------------------------------------------------------------------
(* One connection changes.                                                 *)

LEMMA Updated ==
  ASSUME client \in Seq(Connection), NEW c \in Clients, NEW r \in Connection,
         client' = [client EXCEPT ![c] = r]
  PROVE  /\ client' \in Seq(Connection)
         /\ Clients' = Clients
         /\ client'[c] = r
         /\ \A d \in Clients : d # c => client'[d] = client[d]
<1>1. c \in 1..Len(client) /\ Clients = 1..Len(client)
  BY DEF Clients
<1>2. Len(client') = Len(client) /\ client' \in Seq(Connection)
  BY <1>1, ExceptSeq
<1>3. Clients' = 1..Len(client')
  BY <1>2 DEF Clients
<1> QED BY <1>1, <1>2, <1>3

LEMMA Made ==
  ASSUME client \in Seq(Connection), NEW r \in Connection, client' = Append(client, r)
  PROVE  /\ client' \in Seq(Connection)
         /\ Clients' = Clients \cup {Len(client) + 1}
         /\ Len(client) + 1 \in Nat /\ Len(client) + 1 \notin Clients
         /\ client'[Len(client) + 1] = r
         /\ \A d \in Clients : client'[d] = client[d]
<1>1. Clients = 1..Len(client) /\ Len(client) \in Nat
  BY DEF Clients
<1>2. /\ client' \in Seq(Connection) /\ Len(client') = Len(client) + 1
      /\ client'[Len(client) + 1] = r
      /\ \A d \in 1..Len(client) : client'[d] = client[d]
  BY AppendProperties
<1>3. Clients' = 1..Len(client')
  BY <1>2 DEF Clients
<1> QED BY <1>1, <1>2, <1>3

\* closing a connection: what it queues and serves stays, with a sentinel perhaps.
LEMMA ClosedOne ==
  ASSUME client \in Seq(Connection), NEW c \in Clients, client' = Closed(client, c)
  PROVE  /\ client' \in Seq(Connection)
         /\ Clients' = Clients
         /\ client'[c].closing
         /\ \A d \in Clients : /\ client'[d].config = client[d].config
                               /\ client'[d].state = client[d].state
                               /\ client'[d].serving = client[d].serving
         /\ \A d \in Clients : d # c => client'[d] = client[d]
         /\ client'[c].queue \in {client[c].queue, Append(client[c].queue, NoTask)}
<1> DEFINE q == IF client[c].state = "ready" THEN Append(client[c].queue, NoTask)
                ELSE client[c].queue
<1> DEFINE r == [client[c] EXCEPT !.closing = TRUE, !.queue = q]
<1>1. client[c] \in Connection
  BY ElementOfSeq DEF Clients
<1>2. q \in Seq(Tasks \cup {NoTask})
  BY <1>1, AppendProperties DEF Connection
<1>3. r \in Connection
  BY <1>1, <1>2 DEF Connection
<1>4. client' = [client EXCEPT ![c] = r]
  BY <1>1 DEF Closed, Connection
<1>5. r.closing /\ r.config = client[c].config /\ r.state = client[c].state
      /\ r.serving = client[c].serving /\ r.queue = q
  BY <1>1 DEF Connection
<1>6. /\ client' \in Seq(Connection) /\ Clients' = Clients /\ client'[c] = r
      /\ \A d \in Clients : d # c => client'[d] = client[d]
  <2> HIDE DEF r
  <2> QED BY <1>3, <1>4, Updated
<1> HIDE DEF r
<1> QED BY <1>5, <1>6

-----------------------------------------------------------------------------
(* Queues of calls.                                                        *)

Calls(q) == {q[i] : i \in DOMAIN q} \ {NoTask}
Slots == Tasks \cup {NoTask}

LEMMA QueueAppend ==
  ASSUME NEW q \in Seq(Slots), NEW s, NEW e \in Slots, Distinct(q, s),
         e # NoTask => e \notin Calls(q) /\ e # s
  PROVE  /\ Append(q, e) \in Seq(Slots)
         /\ Calls(Append(q, e)) = Calls(q) \cup ({e} \ {NoTask})
         /\ Distinct(Append(q, e), s)
<1> DEFINE r == Append(q, e)
<1>1. /\ r \in Seq(Slots) /\ Len(r) = Len(q) + 1 /\ Len(q) \in Nat
      /\ \A i \in 1..Len(q) : r[i] = q[i]
      /\ r[Len(q) + 1] = e
  BY AppendProperties
<1>2. DOMAIN r = 1..(Len(q) + 1) /\ DOMAIN q = 1..Len(q)
  BY <1>1
<1> HIDE DEF r
<1>3. \A i \in DOMAIN r : \/ i \in DOMAIN q /\ r[i] = q[i]
                          \/ i = Len(q) + 1 /\ r[i] = e
  BY <1>1, <1>2
<1>4. \A i \in DOMAIN q : i \in DOMAIN r /\ r[i] = q[i]
  BY <1>1, <1>2
<1>5. Len(q) + 1 \in DOMAIN r
  BY <1>1, <1>2
<1>6. Calls(r) = Calls(q) \cup ({e} \ {NoTask})
  BY <1>1, <1>3, <1>4, <1>5 DEF Calls
<1>7. Distinct(r, s)
  BY <1>3 DEF Distinct, Calls
<1> QED BY <1>1, <1>6, <1>7 DEF r

LEMMA QueueTake ==
  ASSUME NEW q \in Seq(Slots), q # <<>>, Distinct(q, NoTask)
  PROVE  /\ Tail(q) \in Seq(Slots) /\ Head(q) \in Slots
         /\ Calls(Tail(q)) \cup ({Head(q)} \ {NoTask}) \subseteq Calls(q)
         /\ Distinct(Tail(q), Head(q))
<1> DEFINE r == Tail(q)
           e == Head(q)
<1>1. /\ r \in Seq(Slots) /\ e \in Slots /\ Len(r) = Len(q) - 1 /\ Len(q) \in Nat
      /\ Len(q) > 0 /\ e = q[1]
      /\ \A i \in 1..Len(r) : r[i] = q[i + 1]
  BY HeadTailProperties
<1>2. DOMAIN r = 1..(Len(q) - 1) /\ DOMAIN q = 1..Len(q)
  BY <1>1
<1> HIDE DEF r, e
<1>3. \A i \in DOMAIN r : i + 1 \in DOMAIN q /\ r[i] = q[i + 1] /\ i + 1 # 1 /\ i \in Nat
  BY <1>1, <1>2
<1>4. 1 \in DOMAIN q
  BY <1>1, <1>2
<1>5. Calls(r) \cup ({e} \ {NoTask}) \subseteq Calls(q)
  BY <1>1, <1>3, <1>4 DEF Calls
<1>6. \A i, j \in DOMAIN r : i # j => i + 1 # j + 1
  BY <1>3
<1>7. Distinct(r, e)
  BY <1>1, <1>3, <1>4, <1>6 DEF Distinct
<1> QED BY <1>1, <1>5, <1>7 DEF r, e

LEMMA QueueRest ==
  /\ \A q, s : Distinct(q, s) => Distinct(q, NoTask)
  /\ \A s : Distinct(<<>>, s)
  /\ Calls(<<>>) = {}
BY DEF Distinct, Calls

WaitersStay ==
  \A t \in Tasks : task[t].pc = "wait" =>
    task'[t].pc = "wait" /\ task'[t].client = task[t].client

\* While those that wait go on waiting and no call is added, QueueInv stays.
LEMMA QueueKept ==
  ASSUME QueueInv, WaitersStay, Clients' = Clients,
         \A c \in Clients :
           /\ Distinct(client'[c].queue, client'[c].serving)
           /\ (Queued(c) \cup Served(c))' \subseteq Queued(c) \cup Served(c)
  PROVE  QueueInv'
BY DEF QueueInv, WaitsAt, WaitersStay

LEMMA QueueSame ==
  ASSUME QueueInv, WaitersStay, UNCHANGED client
  PROVE  QueueInv'
<1>1. Clients' = Clients
  BY DEF Clients
<1>2. \A c \in Clients : Queued(c)' = Queued(c) /\ Served(c)' = Served(c)
  BY DEF Queued, Served
<1> QED BY <1>1, <1>2, QueueKept DEF QueueInv

\* Closing a connection keeps what is queued and served.
LEMMA ClosedQueues ==
  ASSUME client \in Seq(Connection), QueueInv, NoTask \notin Tasks,
         NEW c \in Clients, client' = Closed(client, c)
  PROVE  \A d \in Clients :
           /\ Queued(d)' = Queued(d) /\ Served(d)' = Served(d)
           /\ Distinct(client'[d].queue, client'[d].serving)
<1>1. /\ \A d \in Clients : client'[d].serving = client[d].serving
      /\ \A d \in Clients : d # c => client'[d] = client[d]
      /\ client'[c].queue \in {client[c].queue, Append(client[c].queue, NoTask)}
  BY ClosedOne
<1>2. client[c].queue \in Seq(Slots)
  <2>1. client[c] \in Connection
    BY ElementOfSeq DEF Clients
  <2> QED BY <2>1 DEF Connection, Slots
<1>3. NoTask \in Slots
  BY DEF Slots
<1>4. Distinct(client[c].queue, client[c].serving)
  BY DEF QueueInv
<1>5. /\ Calls(Append(client[c].queue, NoTask)) = Calls(client[c].queue)
      /\ Distinct(Append(client[c].queue, NoTask), client[c].serving)
  <2>1. /\ Calls(Append(client[c].queue, NoTask))
             = Calls(client[c].queue) \cup ({NoTask} \ {NoTask})
        /\ Distinct(Append(client[c].queue, NoTask), client[c].serving)
    BY <1>2, <1>3, <1>4, QueueAppend
  <2> QED BY <2>1
<1>6. \A d \in Clients : Queued(d) = Calls(client[d].queue)
                         /\ Queued(d)' = Calls(client'[d].queue)
  BY DEF Queued, Calls
<1>7. Calls(client'[c].queue) = Calls(client[c].queue)
      /\ Distinct(client'[c].queue, client'[c].serving)
  BY <1>1, <1>4, <1>5
<1> QED BY <1>1, <1>6, <1>7 DEF Served, QueueInv

-----------------------------------------------------------------------------
(* The steps of a coroutine.                                               *)

\* A step of t that touches no connection and no lock.
LEMMA Moved ==
  ASSUME Inv, NEW t \in Tasks, UNCHANGED <<config, current, lock, client>>,
         task' \in [Tasks -> Coroutine],
         \A u \in Tasks : u # t => task'[u] = task[u],
         task[t].pc \notin Locking \cup {"wait"},
         task'[t].pc \notin Locking \cup {"wait", "failed"},
         task'[t].pc \in Holding => task'[t].client \in Clients
  PROVE  Inv'
<1> USE DEF Inv
<1>0. Clients' = Clients
  BY DEF Clients
<1>1. TypeOK'
  BY <1>0 DEF TypeOK
<1>2. CurrentIsFresh'
  BY DEF CurrentIsFresh
<1>3. LockInv'
  BY DEF LockInv, Locking
<1>4. HoldInv'
  BY <1>0 DEF HoldInv, Holding
<1>5. QueueInv'
  BY QueueSame DEF WaitersStay
<1>6. KeptInv'
  BY <1>0 DEF KeptInv, Locking
<1> QED BY <1>1, <1>2, <1>3, <1>4, <1>5, <1>6

LEMMA BeginInv ==
  ASSUME Inv, NEW t \in Tasks, NEW op \in Ops, NEW want \in Configs \cup {NoConfig},
         NEW pc \in {"register", "ensure", "drop"}, Begin(t, op, want, pc)
  PROVE  Inv'
<1>1. /\ task' \in [Tasks -> Coroutine]
      /\ \A u \in Tasks : u # t => task'[u] = task[u]
      /\ task'[t].pc = pc
  BY DEF Begin, Inv, TypeOK, Coroutine, Places
<1> QED BY <1>1, Moved DEF Begin, Locking, Holding

\* The lock is free: nobody replaces a connection or makes one.
LEMMA RegisteredTask ==
  ASSUME TypeOK, NEW t \in Tasks
  PROVE  /\ Registered(t) \in [Tasks -> Coroutine]
         /\ Registered(t)[t].pc \in {"ensure", "done"}
         /\ \A u \in Tasks : u # t => Registered(t)[u] = task[u]
<1>1. task \in [Tasks -> Coroutine] /\ task[t] \in Coroutine
  BY DEF TypeOK
<1>2. CASE task[t].op = "conncall"
  <2>1. Registered(t) = [task EXCEPT ![t] = [task[t] EXCEPT !.pc = "ensure"]]
    BY <1>2 DEF Registered, Goto
  <2>2. [task[t] EXCEPT !.pc = "ensure"] \in Coroutine
    BY <1>1 DEF Coroutine, Places
  <2> QED BY <1>1, <2>1, <2>2 DEF Coroutine
<1>3. CASE task[t].op # "conncall"
  <2>1. Registered(t) = [task EXCEPT ![t] = [task[t] EXCEPT !.pc = "done", !.result = "ok"]]
    BY <1>1, <1>3 DEF Registered, Done
  <2>2. [task[t] EXCEPT !.pc = "done", !.result = "ok"] \in Coroutine
    BY <1>1 DEF Coroutine, Places
  <2> QED BY <1>1, <2>1, <2>2 DEF Coroutine
<1> QED BY <1>2, <1>3

LEMMA RegisterInv ==
  ASSUME Inv, NEW t \in Tasks, Register(t), NoTask \notin Tasks
  PROVE  Inv'
<1> USE DEF Inv
<1>1. CASE current = NoClient
  <2>1. /\ task' = Registered(t) /\ config' = task[t].want
        /\ UNCHANGED <<current, lock, client>> /\ lock = NoTask /\ task[t].pc = "register"
    BY <1>1 DEF Register
  <2>2. Clients' = Clients
    BY <2>1 DEF Clients
  <2>3. TypeOK'
    BY <2>1, <2>2, RegisteredTask DEF TypeOK, Coroutine
  <2>4. CurrentIsFresh'
    BY <1>1, <2>1 DEF CurrentIsFresh
  <2>5. LockInv'
    BY <2>1, RegisteredTask DEF LockInv, Locking
  <2>6. HoldInv'
    BY <2>1, <2>2, RegisteredTask DEF HoldInv, Holding
  <2>7. QueueInv'
    BY <2>1, RegisteredTask, QueueSame DEF WaitersStay
  <2>8. KeptInv'
    BY <2>1, <2>2, RegisteredTask DEF KeptInv
  <2> QED BY <2>3, <2>4, <2>5, <2>6, <2>7, <2>8
<1>2. CASE current # NoClient
  <2>1. /\ current \in Clients /\ client' = Closed(client, current)
        /\ current' = NoClient /\ lock' = t /\ UNCHANGED config
        /\ task' = [task EXCEPT ![t].pc = "replace", ![t].client = current]
        /\ lock = NoTask /\ task[t].pc = "register"
    BY <1>2 DEF Register, TypeOK
  <2>2. /\ task' \in [Tasks -> Coroutine] /\ task'[t].pc = "replace"
        /\ task'[t].client = current
        /\ \A u \in Tasks : u # t => task'[u] = task[u]
    <3>1. current \in Nat
      BY <2>1 DEF TypeOK, Clients
    <3>2. task \in [Tasks -> Coroutine] /\ task[t] \in Coroutine
      BY DEF TypeOK
    <3> QED BY <2>1, <3>1, <3>2 DEF Coroutine, Places
  <2>3. /\ client' \in Seq(Connection) /\ Clients' = Clients /\ client'[current].closing
        /\ \A d \in Clients : client'[d].state = client[d].state
        /\ \A d \in Clients : d # current => client'[d] = client[d]
    BY <2>1, ClosedOne DEF TypeOK
  <2>4. TypeOK'
    BY <2>1, <2>2, <2>3 DEF TypeOK
  <2>5. CurrentIsFresh'
    BY <2>1 DEF CurrentIsFresh
  <2>6. LockInv'
    BY <2>1, <2>2 DEF LockInv, Locking
  <2>7. HoldInv'
    BY <2>1, <2>2, <2>3 DEF HoldInv, Holding
  <2>8. QueueInv'
    <3>1. \A d \in Clients : /\ Queued(d)' = Queued(d) /\ Served(d)' = Served(d)
                             /\ Distinct(client'[d].queue, client'[d].serving)
      BY <2>1, ClosedQueues DEF TypeOK
    <3> QED BY <2>1, <2>2, <2>3, <3>1, QueueKept DEF WaitersStay
  <2>9. KeptInv'
    BY <2>1, <2>2, <2>3 DEF KeptInv, LockInv, Locking
  <2> QED BY <2>4, <2>5, <2>6, <2>7, <2>8, <2>9
<1> QED BY <1>1, <1>2

LEMMA ReplaceInv ==
  ASSUME Inv, NEW t \in Tasks, Replace(t), NoTask \notin Tasks
  PROVE  Inv'
<1> USE DEF Inv
<1>1. /\ task' = Registered(t) /\ config' = task[t].want
      /\ UNCHANGED <<current, client>> /\ lock' = NoTask /\ task[t].pc = "replace"
  BY DEF Replace
<1>2. Clients' = Clients /\ lock = t /\ current = NoClient
  BY <1>1 DEF Clients, LockInv, Locking
<1>3. TypeOK'
  BY <1>1, <1>2, RegisteredTask DEF TypeOK, Coroutine
<1>4. CurrentIsFresh'
  BY <1>1, <1>2 DEF CurrentIsFresh
<1>5. LockInv'
  BY <1>1, <1>2, RegisteredTask DEF LockInv, Locking
<1>6. HoldInv'
  BY <1>1, <1>2, RegisteredTask DEF HoldInv, Holding
<1>7. QueueInv'
  BY <1>1, RegisteredTask, QueueSame DEF WaitersStay
<1>8. KeptInv'
  BY <1>1, <1>2, RegisteredTask DEF KeptInv
<1> QED BY <1>3, <1>4, <1>5, <1>6, <1>7, <1>8

LEMMA TaskDone ==
  ASSUME TypeOK, NEW t \in Tasks,
         NEW r \in {"ok", "unknown", "key", "unreachable", "failed", "answered"}
  PROVE  /\ Done(t, r) \in [Tasks -> Coroutine]
         /\ Done(t, r)[t].pc = "done"
         /\ \A u \in Tasks : u # t => Done(t, r)[u] = task[u]
<1>1. task \in [Tasks -> Coroutine] /\ task[t] \in Coroutine
  BY DEF TypeOK
<1>2. Done(t, r) = [task EXCEPT ![t] = [task[t] EXCEPT !.pc = "done", !.result = r]]
  BY <1>1 DEF Done
<1>3. [task[t] EXCEPT !.pc = "done", !.result = r] \in Coroutine
  BY <1>1 DEF Coroutine, Places
<1> QED BY <1>1, <1>2, <1>3 DEF Coroutine

\* A task goes on elsewhere, with a connection to mind or the one it had.
SentTo(t, pc, c) == [task EXCEPT ![t].pc = pc, ![t].client = c]

LEMMA TaskSent ==
  ASSUME TypeOK, NEW t \in Tasks, NEW pc \in Places, NEW c \in Nat,
         task' = SentTo(t, pc, c)
  PROVE  /\ task' \in [Tasks -> Coroutine]
         /\ task'[t].pc = pc /\ task'[t].client = c
         /\ \A u \in Tasks : u # t => task'[u] = task[u]
<1> DEFINE r == [task[t] EXCEPT !.pc = pc, !.client = c]
<1>1. task \in [Tasks -> Coroutine] /\ task[t] \in Coroutine
  BY DEF TypeOK
<1>2. task' = [task EXCEPT ![t] = r]
  BY <1>1 DEF SentTo
<1>3. r \in Coroutine /\ r.pc = pc /\ r.client = c
  BY <1>1 DEF Coroutine
<1> HIDE DEF r
<1> QED BY <1>1, <1>2, <1>3

LEMMA TaskGoes ==
  ASSUME TypeOK, NEW t \in Tasks, NEW pc \in Places, task' = Goto(t, pc)
  PROVE  /\ task' \in [Tasks -> Coroutine]
         /\ task'[t].pc = pc /\ task'[t].client = task[t].client
         /\ \A u \in Tasks : u # t => task'[u] = task[u]
<1> DEFINE r == [task[t] EXCEPT !.pc = pc]
<1>1. task \in [Tasks -> Coroutine] /\ task[t] \in Coroutine
  BY DEF TypeOK
<1>2. task' = [task EXCEPT ![t] = r]
  BY <1>1 DEF Goto
<1>3. r \in Coroutine /\ r.pc = pc /\ r.client = task[t].client
  BY <1>1 DEF Coroutine
<1> HIDE DEF r
<1> QED BY <1>1, <1>2, <1>3

LEMMA TaskAgain ==
  ASSUME TypeOK, NEW t \in Tasks
  PROVE  /\ Again(t) \in [Tasks -> Coroutine]
         /\ Again(t)[t].pc \in {"ensure", "done"}
         /\ \A u \in Tasks : u # t => Again(t)[u] = task[u]
<1>1. task \in [Tasks -> Coroutine] /\ task[t] \in Coroutine
  BY DEF TypeOK
<1>2. CASE task[t].attempt = 2
  BY <1>2, TaskDone DEF Again
<1>3. CASE task[t].attempt # 2
  <2>1. Again(t) = [task EXCEPT ![t] = [task[t] EXCEPT !.pc = "ensure", !.attempt = 2]]
    BY <1>1, <1>3 DEF Again
  <2>2. [task[t] EXCEPT !.pc = "ensure", !.attempt = 2] \in Coroutine
    BY <1>1 DEF Coroutine, Places
  <2> QED BY <1>1, <2>1, <2>2 DEF Coroutine
<1> QED BY <1>2, <1>3

\* The connection in use is dropped by t, which then waits for its end.
LEMMA Dropped ==
  ASSUME Inv, NEW t \in Tasks, NoTask \notin Tasks, current # NoClient,
         current' = NoClient, UNCHANGED <<config, lock>>,
         client' = Closed(client, current),
         task' \in [Tasks -> Coroutine],
         \A u \in Tasks : u # t => task'[u] = task[u],
         task[t].pc \notin Locking \cup {"wait"},
         task'[t].pc = "ending", task'[t].client = current
  PROVE  Inv'
<1> USE DEF Inv
<1>1. current \in Clients
  BY DEF TypeOK
<1>2. /\ client' \in Seq(Connection) /\ Clients' = Clients /\ client'[current].closing
      /\ \A d \in Clients : client'[d].state = client[d].state
      /\ \A d \in Clients : d # current => client'[d] = client[d]
  BY <1>1, ClosedOne DEF TypeOK
<1>3. TypeOK'
  BY <1>2 DEF TypeOK
<1>4. CurrentIsFresh'
  BY DEF CurrentIsFresh
<1>5. LockInv'
  BY DEF LockInv, Locking
<1>6. HoldInv'
  BY <1>1, <1>2 DEF HoldInv, Holding
<1>7. QueueInv'
  <2>1. \A d \in Clients : /\ Queued(d)' = Queued(d) /\ Served(d)' = Served(d)
                           /\ Distinct(client'[d].queue, client'[d].serving)
    BY <1>1, ClosedQueues DEF TypeOK
  <2> QED BY <1>2, <2>1, QueueKept DEF WaitersStay
<1>8. KeptInv'
  BY <1>2 DEF KeptInv, LockInv, Locking
<1> QED BY <1>3, <1>4, <1>5, <1>6, <1>7, <1>8

LEMMA DropInv ==
  ASSUME Inv, NEW t \in Tasks, NoTask \notin Tasks, Drop(t)
  PROVE  Inv'
<1>1. CASE current = NoClient
  <2>1. task' = Done(t, "ok") /\ UNCHANGED <<config, current, lock, client>>
        /\ task[t].pc = "drop"
    BY <1>1 DEF Drop
  <2> QED BY <2>1, TaskDone, Moved DEF Inv, Locking, Holding
<1>2. CASE current # NoClient
  <2>1. /\ current' = NoClient /\ client' = Closed(client, current)
        /\ task' = [task EXCEPT ![t].pc = "ending", ![t].client = current]
        /\ UNCHANGED <<config, lock>> /\ task[t].pc = "drop"
    BY <1>2 DEF Drop
  <2>2. "ending" \in Places /\ current \in Nat
    BY DEF Places, Inv, TypeOK, Clients, NoClient
  <2>3. /\ task' \in [Tasks -> Coroutine] /\ task'[t].pc = "ending"
        /\ task'[t].client = current
        /\ \A u \in Tasks : u # t => task'[u] = task[u]
    <3>1. task' = SentTo(t, "ending", current)
      BY <2>1 DEF SentTo
    <3> QED BY <2>2, <3>1, TaskSent DEF Inv
  <2> QED BY <1>2, <2>1, <2>3, Dropped DEF Locking
<1> QED BY <1>1, <1>2

LEMMA DropFailedInv ==
  ASSUME Inv, NEW t \in Tasks, NoTask \notin Tasks, DropFailed(t)
  PROVE  Inv'
<1>1. CASE current # task[t].client
  <2>1. task' = Again(t) /\ UNCHANGED <<config, current, lock, client>>
        /\ task[t].pc = "failed"
    BY <1>1 DEF DropFailed
  <2> QED BY <2>1, TaskAgain, Moved DEF Inv, Locking, Holding
<1>2. CASE current = task[t].client
  <2>1. /\ current' = NoClient /\ client' = Closed(client, current)
        /\ task' = Goto(t, "ending") /\ UNCHANGED <<config, lock>> /\ task[t].pc = "failed"
    BY <1>2 DEF DropFailed
  <2>2. current # NoClient
    BY <1>2, <2>1 DEF Inv, HoldInv, Holding, NoClient, TypeOK, Clients
  <2>3. /\ task' \in [Tasks -> Coroutine] /\ task'[t].pc = "ending"
        /\ task'[t].client = current
        /\ \A u \in Tasks : u # t => task'[u] = task[u]
    <3>1. "ending" \in Places
      BY DEF Places
    <3> QED BY <1>2, <2>1, <3>1, TaskGoes DEF Inv
  <2> QED BY <2>1, <2>2, <2>3, Dropped DEF Locking
<1> QED BY <1>1, <1>2

LEMMA EndedInv ==
  ASSUME Inv, NEW t \in Tasks, Ended(t)
  PROVE  Inv'
<1>1. task' \in {Done(t, "ok"), Again(t)} /\ UNCHANGED <<config, current, lock, client>>
      /\ task[t].pc = "ending"
  BY DEF Ended
<1>2. Done(t, "ok") \in [Tasks -> Coroutine] /\ Done(t, "ok")[t].pc = "done"
      /\ \A u \in Tasks : u # t => Done(t, "ok")[u] = task[u]
  BY TaskDone DEF Inv
<1>3. /\ task' \in [Tasks -> Coroutine] /\ task'[t].pc \in {"ensure", "done"}
      /\ \A u \in Tasks : u # t => task'[u] = task[u]
  BY <1>1, <1>2, TaskAgain DEF Inv
<1> QED BY <1>1, <1>3, Moved DEF Locking, Holding

LEMMA UnreachableInv ==
  ASSUME Inv, NEW t \in Tasks, NoTask \notin Tasks, Unreachable(t)
  PROVE  Inv'
<1> USE DEF Inv
<1>1. /\ task' = Done(t, "unreachable") /\ UNCHANGED <<config, current, client>>
      /\ lock' = NoTask /\ task[t].pc = "opening"
      /\ client[task[t].client].state = "dead"
  BY DEF Unreachable
<1>2. Clients' = Clients /\ lock = t /\ current = NoClient
  BY <1>1 DEF Clients, LockInv, Locking
<1>3. /\ task' \in [Tasks -> Coroutine] /\ task'[t].pc = "done"
      /\ \A u \in Tasks : u # t => task'[u] = task[u]
  BY <1>1, TaskDone
<1>4. TypeOK'
  BY <1>1, <1>2, <1>3 DEF TypeOK
<1>5. CurrentIsFresh'
  BY <1>1, <1>2 DEF CurrentIsFresh
<1>6. LockInv'
  BY <1>1, <1>2, <1>3 DEF LockInv, Locking
<1>7. HoldInv'
  BY <1>1, <1>2, <1>3 DEF HoldInv, Holding
<1>8. QueueInv'
  BY <1>1, <1>3, QueueSame DEF WaitersStay
<1>9. KeptInv'
  BY <1>1, <1>2, <1>3 DEF KeptInv
<1> QED BY <1>4, <1>5, <1>6, <1>7, <1>8, <1>9

\* A task that has a connection ends, fails, or is queued there.
LEMMA ConnectedKeeps ==
  ASSUME Inv, NEW t \in Tasks, NEW c \in Clients, NoTask \notin Tasks,
         Connected(t, c), task[t].pc # "wait"
  PROVE  /\ client' \in Seq(Connection) /\ Clients' = Clients
         /\ \A d \in Clients : /\ client'[d].config = client[d].config
                               /\ client'[d].state = client[d].state
                               /\ client'[d].closing = client[d].closing
         /\ task' \in [Tasks -> Coroutine]
         /\ \A u \in Tasks : u # t => task'[u] = task[u]
         /\ task'[t].pc \in {"done", "failed", "wait"}
         /\ task'[t].pc # "done" => task'[t].client = c
         /\ task'[t].pc = "failed" => client[c].state = "dead"
         /\ QueueInv'
<1> USE DEF Inv
<1>0. c \in Nat /\ client[c] \in Connection /\ client \in Seq(Connection)
  <2>1. client \in Seq(Connection)
    BY DEF TypeOK
  <2> QED BY <2>1, ElementOfSeq DEF Clients
<1>1. CASE task[t].op = "warm"
  <2>1. task' = Done(t, "ok") /\ UNCHANGED client
    BY <1>1 DEF Connected
  <2>2. /\ task' \in [Tasks -> Coroutine] /\ task'[t].pc = "done"
        /\ \A u \in Tasks : u # t => task'[u] = task[u]
    BY <2>1, TaskDone
  <2>3. QueueInv'
    BY <2>1, <2>2, QueueSame DEF WaitersStay
  <2> QED BY <1>0, <2>1, <2>2, <2>3 DEF Clients
<1>2. CASE task[t].op # "warm" /\ client[c].state = "dead"
  <2>1. task' = [task EXCEPT ![t].pc = "failed", ![t].client = c] /\ UNCHANGED client
    BY <1>2 DEF Connected
  <2>2. /\ task' \in [Tasks -> Coroutine] /\ task'[t].pc = "failed" /\ task'[t].client = c
        /\ \A u \in Tasks : u # t => task'[u] = task[u]
    <3>1. "failed" \in Places /\ task' = SentTo(t, "failed", c)
      BY <2>1 DEF Places, SentTo
    <3> QED BY <1>0, <3>1, TaskSent
  <2>3. QueueInv'
    BY <2>1, <2>2, QueueSame DEF WaitersStay
  <2> QED BY <1>0, <1>2, <2>1, <2>2, <2>3 DEF Clients
<1>3. CASE task[t].op # "warm" /\ client[c].state # "dead"
  <2> DEFINE r == [client[c] EXCEPT !.queue = Append(@, t)]
  <2>1. /\ task' = [task EXCEPT ![t].pc = "wait", ![t].client = c]
        /\ client' = [client EXCEPT ![c] = r]
    BY <1>3 DEF Connected
  <2>2. /\ task' \in [Tasks -> Coroutine] /\ task'[t].pc = "wait" /\ task'[t].client = c
        /\ \A u \in Tasks : u # t => task'[u] = task[u]
    <3>1. "wait" \in Places /\ task' = SentTo(t, "wait", c)
      BY <2>1 DEF Places, SentTo
    <3> QED BY <1>0, <3>1, TaskSent
  <2>3. t # NoTask /\ t \in Slots /\ client[c].queue \in Seq(Slots)
    BY <1>0 DEF Slots, Connection
  <2>4. /\ Calls(client[c].queue) = Queued(c)
        /\ Distinct(client[c].queue, client[c].serving)
        /\ t \notin Queued(c) /\ t # client[c].serving
    BY <2>3 DEF Calls, Queued, Served, QueueInv, WaitsAt
  <2>5. /\ Append(client[c].queue, t) \in Seq(Slots)
        /\ Calls(Append(client[c].queue, t)) = Queued(c) \cup {t}
        /\ Distinct(Append(client[c].queue, t), client[c].serving)
    <3>1. {t} \ {NoTask} = {t}
      BY <2>3
    <3> QED BY <2>3, <2>4, <3>1, QueueAppend
  <2>6. /\ r \in Connection /\ r.config = client[c].config /\ r.state = client[c].state
        /\ r.closing = client[c].closing /\ r.serving = client[c].serving
        /\ r.queue = Append(client[c].queue, t)
    BY <1>0, <2>5 DEF Connection, Slots
  <2>7. /\ client' \in Seq(Connection) /\ Clients' = Clients /\ client'[c] = r
        /\ \A d \in Clients : d # c => client'[d] = client[d]
    <3> HIDE DEF r
    <3> QED BY <1>0, <2>1, <2>6, Updated
  <2> HIDE DEF r
  <2>8. /\ Queued(c)' = Queued(c) \cup {t} /\ Served(c)' = Served(c)
        /\ Distinct(client'[c].queue, client'[c].serving)
    <3>1. client'[c] = r /\ r.queue = Append(client[c].queue, t)
          /\ r.serving = client[c].serving
      BY <2>6, <2>7
    <3>2. Queued(c)' = Calls(client'[c].queue)
      BY DEF Queued, Calls
    <3>3. Served(c)' = Served(c)
      BY <3>1 DEF Served
    <3> QED BY <2>5, <3>1, <3>2, <3>3
  <2>9. \A d \in Clients : d # c =>
          /\ Queued(d)' = Queued(d) /\ Served(d)' = Served(d)
          /\ Distinct(client'[d].queue, client'[d].serving)
    BY <2>7 DEF Queued, Served, QueueInv
  <2>10. QueueInv'
    <3> SUFFICES ASSUME NEW d \in Clients
        PROVE  /\ \A u \in (Queued(d) \cup Served(d))' : WaitsAt(u, d)'
               /\ Distinct(client'[d].queue, client'[d].serving)
      BY <2>7 DEF QueueInv
    <3>1. \A u \in Queued(d) \cup Served(d) : u # t /\ WaitsAt(u, d)'
      <4>1. \A u \in Queued(d) \cup Served(d) : WaitsAt(u, d)
        BY DEF QueueInv
      <4> QED BY <2>2, <4>1 DEF WaitsAt
    <3>2. WaitsAt(t, c)'
      BY <2>2 DEF WaitsAt
    <3> QED BY <2>8, <2>9, <3>1, <3>2
  <2> QED BY <2>2, <2>6, <2>7, <2>10
<1> QED BY <1>1, <1>2, <1>3

LEMMA ConnectedInv ==
  ASSUME Inv, NEW t \in Tasks, NEW c \in Clients, NoTask \notin Tasks,
         Connected(t, c), task[t].pc \in {"ensure", "connect"},
         UNCHANGED <<config, current, lock>>
  PROVE  Inv'
<1> USE DEF Inv
<1>1. /\ client' \in Seq(Connection) /\ Clients' = Clients
      /\ \A d \in Clients : /\ client'[d].config = client[d].config
                            /\ client'[d].state = client[d].state
                            /\ client'[d].closing = client[d].closing
      /\ task' \in [Tasks -> Coroutine]
      /\ \A u \in Tasks : u # t => task'[u] = task[u]
      /\ task'[t].pc \in {"done", "failed", "wait"}
      /\ task'[t].pc # "done" => task'[t].client = c
      /\ task'[t].pc = "failed" => client[c].state = "dead"
      /\ QueueInv'
  BY ConnectedKeeps
<1>2. TypeOK'
  BY <1>1 DEF TypeOK
<1>3. CurrentIsFresh'
  BY <1>1 DEF CurrentIsFresh, TypeOK
<1>4. LockInv'
  <2>1. \A u \in Tasks : task'[u].pc \in Locking <=> task[u].pc \in Locking
    BY <1>1 DEF Locking
  <2>2. \A u \in Tasks : task'[u].pc = "opening" =>
          task[u].pc = "opening" /\ task'[u].client = task[u].client
                               /\ task[u].client \in Clients
    BY <1>1 DEF HoldInv, Holding
  <2> QED BY <1>1, <2>1, <2>2 DEF LockInv
<1>5. HoldInv'
  BY <1>1 DEF HoldInv, Holding
<1>6. KeptInv'
  BY <1>1 DEF KeptInv
<1> QED BY <1>1, <1>2, <1>3, <1>4, <1>5, <1>6

LEMMA EnsureInv ==
  ASSUME Inv, NEW t \in Tasks, NoTask \notin Tasks, Ensure(t)
  PROVE  Inv'
<1>1. CASE task' = Done(t, "unknown") /\ UNCHANGED client
  <2>1. /\ task' \in [Tasks -> Coroutine] /\ task'[t].pc = "done"
        /\ \A u \in Tasks : u # t => task'[u] = task[u]
    BY <1>1, TaskDone DEF Inv
  <2> QED BY <1>1, <2>1, Moved DEF Ensure, Locking, Holding
<1>2. CASE current # NoClient /\ Connected(t, current)
  <2>1. current \in Clients
    BY <1>2 DEF Inv, TypeOK
  <2> QED BY <1>2, <2>1, ConnectedInv DEF Ensure
<1>3. CASE task' = Goto(t, "connect") /\ UNCHANGED client
  <2>1. /\ task' \in [Tasks -> Coroutine] /\ task'[t].pc = "connect"
        /\ \A u \in Tasks : u # t => task'[u] = task[u]
    <3>1. "connect" \in Places
      BY DEF Places
    <3> QED BY <1>3, <3>1, TaskGoes DEF Inv
  <2> QED BY <1>3, <2>1, Moved DEF Ensure, Locking, Holding
<1> QED BY <1>1, <1>2, <1>3 DEF Ensure

LEMMA ConnectInv ==
  ASSUME Inv, NEW t \in Tasks, NoTask \notin Tasks, NoConfig \notin Configs, Connect(t)
  PROVE  Inv'
<1> USE DEF Inv
<1>0. task[t].pc = "connect" /\ lock = NoTask /\ UNCHANGED <<config, current>>
  BY DEF Connect
<1>1. CASE current # NoClient /\ Connected(t, current) /\ UNCHANGED lock
  <2>1. current \in Clients
    BY <1>1 DEF TypeOK
  <2> QED BY <1>0, <1>1, <2>1, ConnectedInv
<1>2. CASE /\ task' = Done(t, "key") \/ task' = Done(t, "unreachable")
           /\ UNCHANGED <<lock, client>>
  <2>1. /\ task' \in [Tasks -> Coroutine] /\ task'[t].pc = "done"
        /\ \A u \in Tasks : u # t => task'[u] = task[u]
    BY <1>2, TaskDone
  <2> QED BY <1>0, <1>2, <2>1, Moved DEF Locking, Holding
<1>3. CASE /\ current = NoClient /\ config # NoConfig
           /\ client' = Append(client, NewClient(config))
           /\ task' = [task EXCEPT ![t].pc = "opening", ![t].client = Len(client) + 1]
           /\ lock' = t
  <2> DEFINE n == Len(client) + 1
  <2>1. NewClient(config) \in Connection
    BY <1>3 DEF TypeOK, NewClient, Connection, States
  <2>2. /\ client' \in Seq(Connection) /\ Clients' = Clients \cup {n}
        /\ n \in Nat /\ n \notin Clients /\ client'[n] = NewClient(config)
        /\ \A d \in Clients : client'[d] = client[d]
    <3> HIDE DEF n
    <3>1. client \in Seq(Connection) /\ n = Len(client) + 1
      BY DEF TypeOK, n
    <3> QED BY <1>3, <2>1, <3>1, Made
  <2> HIDE DEF n
  <2>3. /\ task' \in [Tasks -> Coroutine] /\ task'[t].pc = "opening"
        /\ task'[t].client = n
        /\ \A u \in Tasks : u # t => task'[u] = task[u]
    <3>1. task \in [Tasks -> Coroutine] /\ task[t] \in Coroutine
      BY DEF TypeOK
    <3>2. task' = [task EXCEPT ![t] = [task[t] EXCEPT !.pc = "opening", !.client = n]]
      BY <1>3, <3>1 DEF n
    <3>3. [task[t] EXCEPT !.pc = "opening", !.client = n] \in Coroutine
      BY <2>2, <3>1 DEF Coroutine, Places
    <3> QED BY <3>1, <3>2, <3>3 DEF Coroutine
  <2>4. TypeOK'
    BY <1>0, <1>3, <2>2, <2>3 DEF TypeOK
  <2>5. CurrentIsFresh'
    BY <1>0, <1>3 DEF CurrentIsFresh
  <2>6. LockInv'
    <3>1. \A u \in Tasks : task[u].pc \notin Locking
      BY <1>0 DEF LockInv
    <3>2. \A u \in Tasks : task'[u].pc \in Locking <=> u = t
      BY <2>3, <3>1 DEF Locking
    <3>3. client'[n].config = config
      BY <2>2 DEF NewClient
    <3> QED BY <1>0, <1>3, <2>3, <3>2, <3>3 DEF LockInv, Locking
  <2>7. HoldInv'
    BY <2>2, <2>3 DEF HoldInv, Holding
  <2>8. QueueInv'
    <3> SUFFICES ASSUME NEW d \in Clients'
        PROVE  /\ \A u \in (Queued(d) \cup Served(d))' : WaitsAt(u, d)'
               /\ Distinct(client'[d].queue, client'[d].serving)
      BY DEF QueueInv
    <3>1. CASE d = n
      <4>1. Queued(d)' = {} /\ Served(d)' = {}
        BY <2>2, <3>1 DEF Queued, Served, NewClient
      <4>2. client'[d].queue = <<>>
        BY <2>2, <3>1 DEF NewClient
      <4> QED BY <4>1, <4>2, QueueRest
    <3>2. CASE d \in Clients
      <4>1. Queued(d)' = Queued(d) /\ Served(d)' = Served(d) /\ client'[d] = client[d]
        BY <2>2, <3>2 DEF Queued, Served
      <4>2. \A u \in Queued(d) \cup Served(d) : WaitsAt(u, d)
        BY <3>2 DEF QueueInv
      <4>3. Distinct(client[d].queue, client[d].serving)
        BY <3>2 DEF QueueInv
      <4>4. \A u : WaitsAt(u, d) => WaitsAt(u, d)'
        BY <1>0, <2>3 DEF WaitsAt
      <4> QED BY <4>1, <4>2, <4>3, <4>4
    <3> QED BY <2>2, <3>1, <3>2
  <2>9. KeptInv'
    BY <1>0, <2>2, <2>3 DEF KeptInv
  <2> QED BY <2>4, <2>5, <2>6, <2>7, <2>8, <2>9
<1> QED BY <1>1, <1>2, <1>3 DEF Connect

LEMMA OpenInv ==
  ASSUME Inv, NEW t \in Tasks, NoTask \notin Tasks, Open(t)
  PROVE  Inv'
<1> USE DEF Inv
<1> DEFINE c == task[t].client
<1>0. /\ task[t].pc = "opening" /\ current' = c /\ lock' = NoTask /\ UNCHANGED config
      /\ client[c].state # "opening" /\ Connected(t, c)
  BY DEF Open
<1>1. c \in Clients /\ lock = t /\ client[c].config = config
  BY <1>0 DEF HoldInv, Holding, LockInv, Locking
<1> HIDE DEF c
<1>2. /\ client' \in Seq(Connection) /\ Clients' = Clients
      /\ \A d \in Clients : /\ client'[d].config = client[d].config
                            /\ client'[d].state = client[d].state
                            /\ client'[d].closing = client[d].closing
      /\ task' \in [Tasks -> Coroutine]
      /\ \A u \in Tasks : u # t => task'[u] = task[u]
      /\ task'[t].pc \in {"done", "failed", "wait"}
      /\ task'[t].pc # "done" => task'[t].client = c
      /\ task'[t].pc = "failed" => client[c].state = "dead"
      /\ QueueInv'
  BY <1>0, <1>1, ConnectedKeeps
<1>3. TypeOK'
  BY <1>0, <1>1, <1>2 DEF TypeOK
<1>4. CurrentIsFresh'
  BY <1>0, <1>1, <1>2 DEF CurrentIsFresh
<1>5. LockInv'
  BY <1>0, <1>1, <1>2 DEF LockInv, Locking
<1>6. HoldInv'
  BY <1>1, <1>2 DEF HoldInv, Holding
<1>7. KeptInv'
  <2>1. \A u \in Tasks : task[u].pc = "opening" => u = t
    BY <1>1 DEF LockInv, Locking
  <2>2. current = NoClient /\ NoClient \notin Clients
    BY <1>0 DEF LockInv, Locking, NoClient, Clients, TypeOK
  <2> QED BY <1>0, <1>2, <2>1, <2>2 DEF KeptInv, c
<1> QED BY <1>2, <1>3, <1>4, <1>5, <1>6, <1>7

LEMMA OpenFailsInv ==
  ASSUME Inv, NEW t \in Tasks, NoTask \notin Tasks, OpenFails(t)
  PROVE  Inv'
<1> USE DEF Inv
<1> DEFINE c == task[t].client
<1>0. client' = Closed(client, c) /\ UNCHANGED <<config, current, lock, task>>
      /\ task[t].pc = "opening"
  BY DEF OpenFails
<1>1. c \in Clients
  BY <1>0 DEF HoldInv, Holding
<1> HIDE DEF c
<1>2. /\ client' \in Seq(Connection) /\ Clients' = Clients /\ client'[c].closing
      /\ \A d \in Clients : /\ client'[d].config = client[d].config
                            /\ client'[d].state = client[d].state
      /\ \A d \in Clients : d # c => client'[d] = client[d]
  BY <1>0, <1>1, ClosedOne DEF TypeOK
<1>3. TypeOK'
  BY <1>0, <1>2 DEF TypeOK
<1>4. CurrentIsFresh'
  BY <1>0, <1>2 DEF CurrentIsFresh, TypeOK
<1>5. LockInv'
  BY <1>0, <1>2 DEF LockInv, Locking, HoldInv, Holding
<1>6. HoldInv'
  BY <1>0, <1>2 DEF HoldInv, Holding
<1>7. QueueInv'
  <2>1. \A d \in Clients : /\ Queued(d)' = Queued(d) /\ Served(d)' = Served(d)
                           /\ Distinct(client'[d].queue, client'[d].serving)
    BY <1>0, <1>1, ClosedQueues DEF TypeOK
  <2> QED BY <1>0, <1>2, <2>1, QueueKept DEF WaitersStay
<1>8. KeptInv'
  BY <1>0, <1>2 DEF KeptInv
<1> QED BY <1>3, <1>4, <1>5, <1>6, <1>7, <1>8

-----------------------------------------------------------------------------
(* The steps of an actor.                                                  *)

\* An actor that was up changes its state and takes no call but one of its own.
LEMMA StillUp ==
  ASSUME Inv, NEW c \in Clients, NEW r \in Connection,
         UNCHANGED <<config, current, lock, task>>,
         client' = [client EXCEPT ![c] = r],
         client[c].state \in {"opening", "ready"},
         r.config = client[c].config, r.closing = client[c].closing,
         Distinct(r.queue, r.serving),
         Calls(r.queue) \cup ({r.serving} \ {NoTask}) \subseteq Queued(c) \cup Served(c)
  PROVE  Inv'
<1> USE DEF Inv
<1>1. /\ client' \in Seq(Connection) /\ Clients' = Clients /\ client'[c] = r
      /\ \A d \in Clients : d # c => client'[d] = client[d]
  BY Updated DEF TypeOK
<1>2. TypeOK'
  BY <1>1 DEF TypeOK
<1>3. CurrentIsFresh'
  BY <1>1 DEF CurrentIsFresh, TypeOK
<1>4. LockInv'
  BY <1>1 DEF LockInv, Locking, HoldInv, Holding
<1>5. HoldInv'
  <2>1. \A u \in Tasks : task[u].pc = "failed" => task[u].client # c
    BY DEF HoldInv
  <2> QED BY <1>1, <2>1 DEF HoldInv, Holding
<1>6. QueueInv'
  <2>1. \A d \in Clients : /\ (Queued(d) \cup Served(d))' \subseteq Queued(d) \cup Served(d)
                           /\ Distinct(client'[d].queue, client'[d].serving)
    <3>1. Queued(c)' = Calls(r.queue) /\ Served(c)' = {r.serving} \ {NoTask}
      BY <1>1 DEF Queued, Served, Calls
    <3>2. \A d \in Clients : d # c => Queued(d)' = Queued(d) /\ Served(d)' = Served(d)
      BY <1>1 DEF Queued, Served
    <3> QED BY <1>1, <3>1, <3>2 DEF QueueInv
  <2> QED BY <1>1, <2>1, QueueKept DEF WaitersStay
<1>7. KeptInv'
  BY <1>1 DEF KeptInv
<1> QED BY <1>2, <1>3, <1>4, <1>5, <1>6, <1>7

LEMMA ClientTyped ==
  ASSUME Inv, NEW c \in Clients
  PROVE  /\ client[c] \in Connection /\ client[c].queue \in Seq(Slots)
         /\ Distinct(client[c].queue, client[c].serving)
         /\ Calls(client[c].queue) = Queued(c)
<1>1. client \in Seq(Connection)
  BY DEF Inv, TypeOK
<1>2. client[c] \in Connection
  BY <1>1, ElementOfSeq DEF Clients
<1>3. client[c].queue \in Seq(Slots)
  BY <1>2 DEF Connection, Slots
<1> QED BY <1>2, <1>3 DEF Inv, QueueInv, Calls, Queued

LEMMA HandshakeInv ==
  ASSUME Inv, NEW c \in Clients, Handshake(c)
  PROVE  Inv'
<1> DEFINE r == [client[c] EXCEPT !.state = "ready"]
<1>1. /\ r \in Connection /\ r.config = client[c].config /\ r.closing = client[c].closing
      /\ r.queue = client[c].queue /\ r.serving = client[c].serving
  BY ClientTyped DEF Connection, States
<1>2. client' = [client EXCEPT ![c] = r] /\ client[c].state = "opening"
      /\ UNCHANGED <<config, current, lock, task>>
  BY DEF Handshake
<1>3. Distinct(r.queue, r.serving)
      /\ Calls(r.queue) \cup ({r.serving} \ {NoTask}) \subseteq Queued(c) \cup Served(c)
  BY <1>1, ClientTyped DEF Served
<1> HIDE DEF r
<1> QED BY <1>1, <1>2, <1>3, StillUp

LEMMA ServeInv ==
  ASSUME Inv, NEW c \in Clients, Serve(c)
  PROVE  Inv'
<1> DEFINE q == client[c].queue
           r == [client[c] EXCEPT !.queue = Tail(q), !.serving = Head(q),
                                  !.state = IF Head(q) = NoTask THEN "ending" ELSE "ready"]
<1>0. client[c] \in Connection /\ q \in Seq(Slots) /\ q # <<>> /\ Distinct(q, NoTask)
      /\ client[c].state = "ready" /\ Calls(q) = Queued(c)
  BY ClientTyped DEF Serve
<1>1. /\ Tail(q) \in Seq(Slots) /\ Head(q) \in Slots
      /\ Calls(Tail(q)) \cup ({Head(q)} \ {NoTask}) \subseteq Queued(c)
      /\ Distinct(Tail(q), Head(q))
  BY <1>0, QueueTake
<1>2. client' = [client EXCEPT ![c] = r] /\ UNCHANGED <<config, current, lock, task>>
  BY <1>0 DEF Serve, Connection
<1>3. /\ r \in Connection /\ r.config = client[c].config /\ r.closing = client[c].closing
      /\ r.queue = Tail(q) /\ r.serving = Head(q)
  BY <1>0, <1>1 DEF Connection, States, Slots
<1>4. Distinct(r.queue, r.serving)
      /\ Calls(r.queue) \cup ({r.serving} \ {NoTask}) \subseteq Queued(c) \cup Served(c)
  BY <1>1, <1>3
<1> HIDE DEF r, q
<1> QED BY <1>0, <1>2, <1>3, <1>4, StillUp

\* These callers were waiting at c; the rest goes on.
LEMMA Released ==
  ASSUME Inv, NEW c \in Clients, NEW r \in Connection, NEW ts,
         ts \subseteq Queued(c) \cup Served(c),
         UNCHANGED <<config, current, lock>>,
         client' = [client EXCEPT ![c] = r],
         r.config = client[c].config, r.closing = client[c].closing,
         client[c].state \in {"ending", "dead"} => r.state \in {"ending", "dead"},
         r.state \in {"opening", "ready"} => client[c].state \in {"opening", "ready"},
         Distinct(r.queue, r.serving),
         Calls(r.queue) \cup ({r.serving} \ {NoTask})
           \subseteq (Queued(c) \cup Served(c)) \ ts,
         task' \in [Tasks -> Coroutine],
         \A u \in Tasks : u \notin ts => task'[u] = task[u],
         \A u \in ts : /\ task'[u].pc \in {"done", "failed"}
                       /\ task'[u].client = task[u].client
                       /\ task'[u].pc = "failed" => r.state \in {"ending", "dead"}
  PROVE  Inv'
<1> USE DEF Inv
<1>0. \A u \in ts : u \in Tasks /\ task[u].pc = "wait" /\ task[u].client = c
  BY DEF QueueInv, WaitsAt
<1>1. /\ client' \in Seq(Connection) /\ Clients' = Clients /\ client'[c] = r
      /\ \A d \in Clients : d # c => client'[d] = client[d]
  BY Updated DEF TypeOK
<1>2. TypeOK'
  BY <1>1 DEF TypeOK
<1>3. CurrentIsFresh'
  BY <1>1 DEF CurrentIsFresh, TypeOK
<1>4. LockInv'
  <2>1. \A u \in Tasks : task'[u].pc \in Locking <=> task[u].pc \in Locking
    BY <1>0 DEF Locking
  <2>2. \A u \in Tasks : task'[u].pc = "opening" =>
          task[u].pc = "opening" /\ task'[u] = task[u] /\ task[u].client \in Clients
    BY <1>0 DEF HoldInv, Holding
  <2>3. \A d \in Clients : client'[d].config = client[d].config
    BY <1>1
  <2> QED BY <2>1, <2>2, <2>3 DEF LockInv
<1>5. HoldInv'
  BY <1>0, <1>1 DEF HoldInv, Holding
<1>6. QueueInv'
  <2> SUFFICES ASSUME NEW d \in Clients
      PROVE  /\ \A u \in (Queued(d) \cup Served(d))' : WaitsAt(u, d)'
             /\ Distinct(client'[d].queue, client'[d].serving)
    BY <1>1 DEF QueueInv
  <2>1. \A u \in Queued(d) \cup Served(d) : WaitsAt(u, d)
    BY DEF QueueInv
  <2>2. \A u : u \notin ts /\ WaitsAt(u, d) => WaitsAt(u, d)'
    BY DEF WaitsAt
  <2>3. CASE d = c
    <3>1. (Queued(d) \cup Served(d))' \subseteq (Queued(d) \cup Served(d)) \ ts
      <4>1. Queued(c)' = Calls(r.queue) /\ Served(c)' = {r.serving} \ {NoTask}
        BY <1>1 DEF Queued, Served, Calls
      <4> QED BY <2>3, <4>1
    <3> QED BY <1>1, <2>1, <2>2, <2>3, <3>1
  <2>4. CASE d # c
    <3>1. Queued(d)' = Queued(d) /\ Served(d)' = Served(d) /\ client'[d] = client[d]
      BY <1>1, <2>4 DEF Queued, Served
    <3>2. \A u \in Queued(d) \cup Served(d) : u \notin ts
      BY <1>0, <2>1, <2>4 DEF WaitsAt
    <3> QED BY <2>1, <2>2, <3>1, <3>2 DEF QueueInv
  <2> QED BY <2>3, <2>4
<1>7. KeptInv'
  <2>1. \A u \in Tasks : task[u].pc = "opening" => task'[u] = task[u]
    BY <1>0
  <2> QED BY <1>1, <2>1 DEF KeptInv
<1> QED BY <1>2, <1>3, <1>4, <1>5, <1>6, <1>7

LEMMA ReplyInv ==
  ASSUME Inv, NEW c \in Clients, NoTask \notin Tasks, Reply(c)
  PROVE  Inv'
<1> DEFINE s == client[c].serving
           r == [client[c] EXCEPT !.serving = NoTask]
<1>0. /\ client[c] \in Connection /\ Distinct(client[c].queue, s)
      /\ Calls(client[c].queue) = Queued(c) /\ client[c].state = "ready" /\ s # NoTask
  BY ClientTyped DEF Reply
<1>1. s \in Tasks
  BY <1>0 DEF Connection
<1>2. /\ client' = [client EXCEPT ![c] = r] /\ task' = Done(s, "answered")
      /\ UNCHANGED <<config, current, lock>>
  BY DEF Reply
<1>3. /\ r \in Connection /\ r.config = client[c].config /\ r.closing = client[c].closing
      /\ r.queue = client[c].queue /\ r.serving = NoTask /\ r.state = "ready"
  BY <1>0 DEF Connection
<1>4. /\ task' \in [Tasks -> Coroutine] /\ task'[s].pc = "done"
      /\ \A u \in Tasks : u # s => task'[u] = task[u]
  BY <1>1, <1>2, TaskDone DEF Inv
<1>5. task'[s].client = task[s].client
  BY <1>1, <1>2 DEF Done, Inv, TypeOK, Coroutine
<1>6. {s} \subseteq Queued(c) \cup Served(c) /\ s \notin Queued(c)
  BY <1>0 DEF Served, Distinct, Calls
<1>7. Distinct(r.queue, r.serving)
      /\ Calls(r.queue) \cup ({r.serving} \ {NoTask}) \subseteq (Queued(c) \cup Served(c)) \ {s}
  BY <1>0, <1>3, <1>6, QueueRest
<1> HIDE DEF r, s
<1> QED BY <1>0, <1>2, <1>3, <1>4, <1>5, <1>6, <1>7, Released

LEMMA FailedTasks ==
  ASSUME TypeOK, NEW ts
  PROVE  /\ Failed(task, ts) \in [Tasks -> Coroutine]
         /\ \A u \in Tasks : u \in ts => /\ Failed(task, ts)[u].pc = "failed"
                                         /\ Failed(task, ts)[u].client = task[u].client
         /\ \A u \in Tasks : u \notin ts => Failed(task, ts)[u] = task[u]
<1>1. \A u \in Tasks : /\ task[u] \in Coroutine
                       /\ [task[u] EXCEPT !.pc = "failed"] \in Coroutine
                       /\ [task[u] EXCEPT !.pc = "failed"].pc = "failed"
                       /\ [task[u] EXCEPT !.pc = "failed"].client = task[u].client
  BY DEF TypeOK, Coroutine, Places
<1> QED BY <1>1 DEF Failed

LEMMA BreakInv ==
  ASSUME Inv, NEW c \in Clients, NoTask \notin Tasks, Break(c),
         client[c].state \in {"opening", "ready"}
  PROVE  Inv'
<1> DEFINE r == [client[c] EXCEPT !.state = "ending", !.serving = NoTask]
<1>0. /\ client[c] \in Connection /\ Distinct(client[c].queue, client[c].serving)
      /\ Calls(client[c].queue) = Queued(c)
  BY ClientTyped
<1>1. /\ client' = [client EXCEPT ![c] = r] /\ task' = Failed(task, Served(c))
      /\ UNCHANGED <<config, current, lock>>
  BY <1>0 DEF Break, Connection
<1>2. /\ r \in Connection /\ r.config = client[c].config /\ r.closing = client[c].closing
      /\ r.queue = client[c].queue /\ r.serving = NoTask /\ r.state = "ending"
  BY <1>0 DEF Connection, States
<1>3. \A u \in Served(c) : u \in Tasks /\ u \notin Queued(c)
  BY <1>0 DEF Served, Connection, Distinct, Calls
<1>4. /\ task' \in [Tasks -> Coroutine]
      /\ \A u \in Tasks : u \notin Served(c) => task'[u] = task[u]
      /\ \A u \in Served(c) : task'[u].pc = "failed" /\ task'[u].client = task[u].client
  BY <1>1, <1>3, FailedTasks DEF Inv
<1>5. Distinct(r.queue, r.serving)
      /\ Calls(r.queue) \cup ({r.serving} \ {NoTask})
           \subseteq (Queued(c) \cup Served(c)) \ Served(c)
  BY <1>0, <1>2, <1>3, QueueRest
<1> HIDE DEF r
<1> QED BY <1>1, <1>2, <1>4, <1>5, Released

LEMMA DrainInv ==
  ASSUME Inv, NEW c \in Clients, NoTask \notin Tasks, Drain(c)
  PROVE  Inv'
<1> DEFINE r == [client[c] EXCEPT !.state = "dead", !.queue = <<>>]
<1>0. /\ client[c] \in Connection /\ Distinct(client[c].queue, client[c].serving)
      /\ Calls(client[c].queue) = Queued(c) /\ client[c].queue \in Seq(Slots)
  BY ClientTyped
<1>1. /\ client' = [client EXCEPT ![c] = r] /\ task' = Failed(task, Queued(c))
      /\ UNCHANGED <<config, current, lock>> /\ client[c].state = "ending"
  <2>1. /\ client' = [client EXCEPT ![c].state = "dead", ![c].queue = <<>>]
        /\ task' = Failed(task, Queued(c))
        /\ UNCHANGED <<config, current, lock>> /\ client[c].state = "ending"
    BY DEF Drain
  <2>2. client' = [client EXCEPT ![c] = r]
    <3>1. \A q : [client EXCEPT ![c].state = "dead", ![c].queue = q]
                   = [client EXCEPT ![c] = [client[c] EXCEPT !.state = "dead", !.queue = q]]
      BY <1>0 DEF Connection
    <3> QED BY <2>1, <3>1
  <2> QED BY <2>1, <2>2
<1>2. /\ r \in Connection /\ r.config = client[c].config /\ r.closing = client[c].closing
      /\ r.queue = <<>> /\ r.serving = client[c].serving /\ r.state = "dead"
  <2> DEFINE e(q) == [client[c] EXCEPT !.state = "dead", !.queue = q]
  <2>1. \A q \in Seq(Slots) :
          /\ e(q) \in Connection /\ e(q).config = client[c].config
          /\ e(q).closing = client[c].closing /\ e(q).queue = q
          /\ e(q).serving = client[c].serving /\ e(q).state = "dead"
    BY <1>0 DEF Connection, States, Slots
  <2>2. <<>> \in Seq(Slots) /\ r = e(<<>>)
    BY EmptySeq
  <2> HIDE DEF e, r
  <2> QED BY <2>1, <2>2
<1>3. \A u \in Queued(c) : u \in Tasks /\ u \notin Served(c)
  <2>1. \A i \in DOMAIN client[c].queue : client[c].queue[i] \in Slots
    BY <1>0
  <2>2. Queued(c) \subseteq Tasks
    BY <1>0, <2>1 DEF Calls, Slots
  <2>3. \A u \in Queued(c) : u # client[c].serving
    BY <1>0 DEF Distinct, Calls
  <2> QED BY <2>2, <2>3 DEF Served
<1>4. /\ task' \in [Tasks -> Coroutine]
      /\ \A u \in Tasks : u \notin Queued(c) => task'[u] = task[u]
      /\ \A u \in Queued(c) : task'[u].pc = "failed" /\ task'[u].client = task[u].client
  BY <1>1, <1>3, FailedTasks DEF Inv
<1>5. Distinct(r.queue, r.serving)
      /\ Calls(r.queue) \cup ({r.serving} \ {NoTask})
           \subseteq (Queued(c) \cup Served(c)) \ Queued(c)
  BY <1>2, <1>3, QueueRest DEF Served
<1> HIDE DEF r
<1> QED BY <1>1, <1>2, <1>4, <1>5, Released

-----------------------------------------------------------------------------
(* The theorems.                                                           *)

LEMMA TasksAreSome == NoTask \notin Tasks /\ NoConfig \notin Configs
BY NoneAssumption DEF Tasks

LEMMA InitInv == Init => Inv
<1> SUFFICES ASSUME Init PROVE Inv
  OBVIOUS
<1>1. client = <<>> /\ Clients = {} /\ current = NoClient /\ lock = NoTask
  BY DEF Init, Clients
<1>2. \A t \in Tasks : task[t].pc = "new" /\ task[t] \in Coroutine
  BY DEF Init, NewTask, Coroutine, Ops, Places, NoClient
<1>3. TypeOK
  BY <1>1, <1>2, EmptySeq DEF Init, TypeOK
<1>4. LockInv
  BY <1>1, <1>2, TasksAreSome DEF LockInv, Locking
<1>5. HoldInv
  BY <1>2 DEF HoldInv, Holding
<1> QED BY <1>1, <1>3, <1>4, <1>5 DEF Inv, CurrentIsFresh, QueueInv, KeptInv

LEMMA BeginsInv ==
  ASSUME Inv, NEW t \in Tasks, BeginCall(t) \/ BeginAdmin(t)
  PROVE  Inv'
<1>1. /\ {"call", "conncall", "register", "remove", "close", "warm"} \subseteq Ops
      /\ Configs \subseteq Configs \cup {NoConfig} /\ NoConfig \in Configs \cup {NoConfig}
  BY DEF Ops
<1>2. CASE BeginCall(t)
  <2>1. CASE Begin(t, "call", NoConfig, "ensure")
    BY <1>1, <2>1, BeginInv
  <2>2. ASSUME NEW want \in Configs, config # want, Begin(t, "conncall", want, "register")
        PROVE  Inv'
    BY <1>1, <2>2, BeginInv
  <2>3. ASSUME NEW want \in Configs, config = want, Begin(t, "conncall", want, "ensure")
        PROVE  Inv'
    BY <1>1, <2>3, BeginInv
  <2> QED BY <1>2, <2>1, <2>2, <2>3 DEF BeginCall
<1>3. CASE BeginAdmin(t)
  <2>1. ASSUME NEW want \in Configs, BeginRegister(t, want)
        PROVE  Inv'
    BY <1>1, <2>1, BeginInv DEF BeginRegister
  <2>2. CASE BeginRemove(t)
    BY <1>1, <2>2, BeginInv DEF BeginRemove
  <2>3. CASE BeginClose(t)
    BY <1>1, <2>3, BeginInv DEF BeginClose
  <2>4. CASE BeginWarm(t)
    BY <1>1, <2>4, BeginInv DEF BeginWarm
  <2> QED BY <1>3, <2>1, <2>2, <2>3, <2>4 DEF BeginAdmin
<1> QED BY <1>2, <1>3

LEMMA NextInv == Inv /\ [Next]_vars => Inv'
<1> SUFFICES ASSUME Inv, [Next]_vars PROVE Inv'
  OBVIOUS
<1>0. NoTask \notin Tasks /\ NoConfig \notin Configs
  BY TasksAreSome
<1>1. CASE UNCHANGED vars
  <2>1. Clients' = Clients /\ UNCHANGED <<config, current, lock, client, task>>
    BY <1>1 DEF vars, Clients
  <2>2. QueueInv'
    BY <2>1, QueueSame DEF Inv, WaitersStay
  <2> QED BY <2>1, <2>2 DEF Inv, TypeOK, CurrentIsFresh, LockInv, HoldInv, KeptInv
<1>2. CASE (\E t \in Callers : BeginCall(t)) \/ \E t \in Admins : BeginAdmin(t)
  BY <1>2, BeginsInv DEF Tasks
<1>3. ASSUME NEW t \in Tasks, Step(t) PROVE Inv'
  BY <1>0, <1>3, RegisterInv, ReplaceInv, DropInv, EnsureInv, ConnectInv, OpenInv,
     OpenFailsInv, UnreachableInv, DropFailedInv, EndedInv DEF Step
<1>4. ASSUME NEW c \in Clients, Act(c) \/ Dies(c) PROVE Inv'
  <2>1. GivesUp(c) \/ Dies(c) => Break(c) /\ client[c].state \in {"opening", "ready"}
    BY DEF GivesUp, Dies
  <2> QED BY <1>0, <1>4, <2>1, HandshakeInv, ServeInv, ReplyInv, BreakInv, DrainInv DEF Act
<1> QED BY <1>1, <1>2, <1>3, <1>4 DEF Next

\* What NextInv keeps is true from the start.
LEMMA Invariance == Spec => []Inv
BY InitInv, NextInv, PTL DEF Spec

\* Types: at every moment the connections, the lock and the coroutines are in the
\* states McpManager declares (mcp/manager.py, mcp/client.py).
THEOREM TypeCorrect == Spec => []TypeOK
<1>1. Inv => TypeOK
  BY DEF Inv
<1> QED BY <1>1, Invariance, PTL

\* A call never goes to a connection made from a configuration other than the one
\* registered: MCPManager.register ends the old connection before the new
\* configuration is stored, and a connect under the lock reads the stored one.
THEOREM Fresh == Spec => []CurrentIsFresh
<1>1. Inv => CurrentIsFresh
  BY DEF Inv
<1> QED BY <1>1, Invariance, PTL

\* No connection that is up is forgotten: it is the one calls use, or its opener
\* is about to make it so, or somebody closes it (no process of an MCP server is
\* left behind by a registration, a close or a retry).
THEOREM Remembered == Spec => []NoneForgotten
<1>1. Inv => NoneForgotten
  BY DEF Inv, KeptInv, NoneForgotten
<1> QED BY <1>1, Invariance, PTL

LEMMA NewlyClosed ==
  ASSUME Inv, NEW c \in Clients, NEW d \in Clients, client' = Closed(client, d),
         client'[c].closing, ~ client[c].closing
  PROVE  c = d
<1>1. \A e \in Clients : e # d => client'[e] = client[e]
  BY ClosedOne DEF Inv, TypeOK
<1> QED BY <1>1

\* A call that failed closes no connection that is still good (manager.py:158: the
\* retry drops the connection it failed on only while that is the one in use), so
\* the failure of one call never ends the calls on a replacement.
THEOREM GoodKept == Spec => GoodOnesKept
<1> DEFINE Kept == \A t \in Tasks, c \in Clients :
             task[t].pc = "failed" /\ task'[t].pc # "failed"
               /\ client'[c].closing /\ ~ client[c].closing => client[c].state # "ready"
<1>1. Inv /\ [Next]_vars => [Kept]_vars
  <2> SUFFICES ASSUME Inv, Next, NEW t \in Tasks, NEW c \in Clients,
                      task[t].pc = "failed", task'[t].pc # "failed",
                      client'[c].closing, ~ client[c].closing
               PROVE  client[c].state # "ready"
    BY DEF vars
  <2>0. task \in [Tasks -> Coroutine] /\ \A d \in Clients : client[d] \in Connection
    BY ClientTyped DEF Inv, TypeOK
  <2>1. CASE \E u \in Tasks : DropFailed(u)
    <3> PICK u \in Tasks : DropFailed(u)
      BY <2>1
    <3>1. task[u].client \in Clients /\ client[task[u].client].state \in {"ending", "dead"}
      BY DEF DropFailed, Inv, HoldInv, Holding
    <3>2. client' = Closed(client, task[u].client) \/ client' = client
      BY DEF DropFailed
    <3>3. c = task[u].client
      BY <3>1, <3>2, NewlyClosed
    <3> QED BY <3>1, <3>3
  <2>2. ASSUME NEW u \in Tasks, BeginCall(u) \/ BeginAdmin(u) PROVE FALSE
    <3>1. task[u].pc = "new" /\ \A v \in Tasks : v # u => task'[v] = task[v]
      BY <2>0, <2>2 DEF BeginCall, BeginAdmin, BeginRegister, BeginRemove, BeginClose,
                        BeginWarm, Begin
    <3> QED BY <3>1
  <2>3. ASSUME NEW u \in Tasks, Step(u), ~ DropFailed(u) PROVE FALSE
    <3>1. task[u].pc # "failed"
      BY <2>3 DEF Step, Register, Replace, Drop, Ensure, Connect, Open, OpenFails,
                  Unreachable, Ended
    <3>2. \A e : Connected(u, e) => \A v \in Tasks : v # u => task'[v] = task[v]
      BY <2>0 DEF Connected, Done
    <3>3. \A v \in Tasks : v # u => task'[v] = task[v]
      BY <2>0, <2>3, <3>2 DEF Step, Register, Replace, Drop, Ensure, Connect, Open, OpenFails,
                  Unreachable, Ended, Registered, Goto, Done, Again
    <3> QED BY <3>1, <3>3
  <2>4. ASSUME NEW d \in Clients, Act(d) \/ Dies(d) PROVE FALSE
    <3>1. CASE Reply(d)
      <4>1. WaitsAt(client[d].serving, d)
        BY <2>4, <3>1 DEF Reply, Inv, QueueInv, Served
      <4>2. \A v \in Tasks : v # client[d].serving => task'[v] = task[v]
        BY <2>0, <3>1 DEF Reply, Done
      <4> QED BY <4>1, <4>2 DEF WaitsAt
    <3>2. CASE \E ts : task' = Failed(task, ts)
      BY <3>2, FailedTasks DEF Inv
    <3>3. CASE Handshake(d) \/ Serve(d)
      BY <3>3 DEF Handshake, Serve
    <3> QED BY <2>4, <3>1, <3>2, <3>3 DEF Act, GivesUp, Dies, Break, Drain
  <2> QED BY <2>1, <2>2, <2>3, <2>4 DEF Next, Tasks
<1> QED BY <1>1, Invariance, PTL DEF Spec, GoodOnesKept

-----------------------------------------------------------------------------
(* No call is left waiting, and no connection beside another.              *)

\* A call waits at a connection that has not ended, which queues or serves it, and
\* it waits at no other.
NoneStranded ==
  \A t \in Tasks : task[t].pc = "wait" =>
    LET c == task[t].client
    IN /\ c \in Clients /\ client[c].state # "dead"
       /\ t \in Queued(c) \cup Served(c)
       /\ \A d \in Clients \ {c} : t \notin Queued(d) \cup Served(d)

\* Connections that serve calls, or will, and that nobody is closing.
Serving == {c \in Clients : client[c].state \in {"opening", "ready"} /\ ~ client[c].closing}

\* There is one process or session of the server at a time, but for those that are
\* being closed.
OneConnection == \A c, d \in Serving : c = d

\* Those that wait were waiting, and what they wait at still has them.
LEMMA WaitKept ==
  ASSUME WaitInv, HoldInv, Clients \subseteq Clients',
         \A t \in Tasks : task'[t].pc = "wait" =>
           task[t].pc = "wait" /\ task'[t].client = task[t].client,
         \A c \in Clients :
           /\ Queued(c)' = Queued(c)
           /\ client'[c].serving = client[c].serving
           /\ client'[c].state = client[c].state
           /\ client[c].state = "dead" => client'[c].queue = client[c].queue,
         \A c \in Clients' \ Clients : client'[c].state \notin {"ending", "dead"}
  PROVE  WaitInv'
<1>1. \A c \in Clients : Served(c)' = Served(c)
  BY DEF Served
<1>2. ASSUME NEW t \in Tasks, NEW c \in Clients', WaitsAt(t, c)'
      PROVE  t \in Queued(c)' \cup Served(c)'
  <2>1. WaitsAt(t, c)
    BY <1>2 DEF WaitsAt
  <2>2. c \in Clients
    BY <2>1 DEF WaitsAt, HoldInv, Holding
  <2>3. t \in Queued(c) \cup Served(c)
    BY <2>1, <2>2 DEF WaitInv
  <2> QED BY <1>1, <2>2, <2>3
<1>3. \A c \in Clients' : client'[c].state \in {"ending", "dead"} => client'[c].serving = NoTask
  BY DEF WaitInv
<1>4. \A c \in Clients' : client'[c].state = "dead" => client'[c].queue = <<>>
  BY DEF WaitInv
<1> QED BY <1>2, <1>3, <1>4 DEF WaitInv

\* A step that touches no connection, and after which nobody waits who did not.
LEMMA WaitSame ==
  ASSUME Inv, WaitInv, UNCHANGED client,
         \A t \in Tasks : task'[t].pc = "wait" =>
           task[t].pc = "wait" /\ task'[t].client = task[t].client
  PROVE  WaitInv'
<1>1. Clients' = Clients /\ \A c \in Clients : Queued(c)' = Queued(c)
  BY DEF Clients, Queued
<1> QED BY <1>1, WaitKept DEF Inv

LEMMA WaitClosed ==
  ASSUME Inv, WaitInv, NoTask \notin Tasks, NEW c \in Clients, client' = Closed(client, c),
         \A t \in Tasks : task'[t].pc = "wait" =>
           task[t].pc = "wait" /\ task'[t].client = task[t].client
  PROVE  WaitInv'
<1>1. client \in Seq(Connection)
  BY DEF Inv, TypeOK
<1>2. /\ Clients' = Clients
      /\ \A d \in Clients : /\ client'[d].state = client[d].state
                            /\ client'[d].serving = client[d].serving
      /\ \A d \in Clients : d # c => client'[d] = client[d]
  BY <1>1, ClosedOne
<1>3. \A d \in Clients : Queued(d)' = Queued(d)
  BY <1>1, ClosedQueues DEF Inv
<1>4. client[c].state = "dead" => client'[c].queue = client[c].queue
  <2>1. client[c] \in Connection
    BY ClientTyped
  <2> QED BY <1>1, <2>1 DEF Closed, Connection, Clients
<1> QED BY <1>2, <1>3, <1>4, WaitKept DEF Inv

LEMMA ConnectedWaits ==
  ASSUME Inv, WaitInv, NoTask \notin Tasks, NEW t \in Tasks, NEW c \in Clients,
         Connected(t, c), task[t].pc # "wait"
  PROVE  WaitInv'
<1>0. /\ c \in Nat /\ client[c] \in Connection /\ client \in Seq(Connection)
      /\ client[c].queue \in Seq(Slots) /\ Calls(client[c].queue) = Queued(c)
  BY ClientTyped DEF Clients, Inv, TypeOK
<1>1. CASE task[t].op = "warm"
  <2>1. task' = Done(t, "ok") /\ UNCHANGED client
    BY <1>1 DEF Connected
  <2>2. task'[t].pc = "done" /\ \A u \in Tasks : u # t => task'[u] = task[u]
    BY <2>1, TaskDone DEF Inv
  <2> QED BY <2>1, <2>2, WaitSame
<1>2. CASE task[t].op # "warm" /\ client[c].state = "dead"
  <2>1. task' = SentTo(t, "failed", c) /\ UNCHANGED client /\ "failed" \in Places
    BY <1>2 DEF Connected, SentTo, Places
  <2>2. task'[t].pc = "failed" /\ \A u \in Tasks : u # t => task'[u] = task[u]
    BY <1>0, <2>1, TaskSent DEF Inv
  <2> QED BY <2>1, <2>2, WaitSame
<1>3. CASE task[t].op # "warm" /\ client[c].state # "dead"
  <2> DEFINE q == Append(client[c].queue, t)
             r == [client[c] EXCEPT !.queue = q]
  <2>1. /\ task' = SentTo(t, "wait", c) /\ "wait" \in Places
        /\ client' = [client EXCEPT ![c] = r]
    BY <1>3 DEF Connected, SentTo, Places
  <2>2. /\ task'[t].pc = "wait" /\ task'[t].client = c
        /\ \A u \in Tasks : u # t => task'[u] = task[u]
    BY <1>0, <2>1, TaskSent DEF Inv
  <2>3. t # NoTask /\ t \in Slots
    BY DEF Slots
  <2>4. q \in Seq(Slots) /\ Calls(q) = Queued(c) \cup {t}
    <3>1. Distinct(client[c].queue, client[c].serving)
      BY ClientTyped
    <3>2. t \notin Calls(client[c].queue) /\ t # client[c].serving
      BY <1>0, <2>3 DEF Inv, QueueInv, WaitsAt, Served
    <3>3. {t} \ {NoTask} = {t}
      BY <2>3
    <3> QED BY <1>0, <2>3, <3>1, <3>2, <3>3, QueueAppend
  <2> HIDE DEF q
  <2>5. /\ r \in Connection /\ r.state = client[c].state /\ r.serving = client[c].serving
        /\ r.queue = q
    BY <1>0, <2>4 DEF Connection, Slots
  <2> HIDE DEF r
  <2>6. /\ Clients' = Clients /\ client'[c] = r
        /\ \A d \in Clients : d # c => client'[d] = client[d]
    BY <1>0, <2>1, <2>5, Updated
  <2>7. /\ Queued(c)' = Queued(c) \cup {t} /\ Served(c)' = Served(c)
        /\ \A d \in Clients : d # c => Queued(d)' = Queued(d) /\ Served(d)' = Served(d)
    <3>1. Queued(c)' = Calls(r.queue) /\ Served(c)' = {r.serving} \ {NoTask}
      BY <2>6 DEF Queued, Served, Calls
    <3>2. \A d \in Clients : d # c => Queued(d)' = Queued(d) /\ Served(d)' = Served(d)
      BY <2>6 DEF Queued, Served
    <3> QED BY <2>4, <2>5, <3>1, <3>2 DEF Served
  <2>8. ASSUME NEW u \in Tasks, NEW d \in Clients, WaitsAt(u, d)'
        PROVE  u \in Queued(d)' \cup Served(d)'
    <3>1. CASE u = t
      <4>1. d = c
        BY <2>2, <2>8, <3>1 DEF WaitsAt
      <4> QED BY <2>7, <3>1, <4>1
    <3>2. CASE u # t
      <4>1. WaitsAt(u, d)
        BY <2>2, <2>8, <3>2 DEF WaitsAt
      <4>2. u \in Queued(d) \cup Served(d)
        BY <4>1 DEF WaitInv
      <4> QED BY <2>7, <4>2
    <3> QED BY <3>1, <3>2
  <2>9. /\ \A d \in Clients : client'[d].state = client[d].state
                             /\ client'[d].serving = client[d].serving
        /\ \A d \in Clients : client[d].state = "dead" => client'[d].queue = client[d].queue
    BY <1>3, <2>5, <2>6
  <2> QED BY <2>6, <2>8, <2>9 DEF WaitInv
<1> QED BY <1>1, <1>2, <1>3

\* A connection is made by a task that did not wait.
LEMMA WaitMade ==
  ASSUME Inv, WaitInv, client' = Append(client, NewClient(config)), config \in Configs,
         \A t \in Tasks : task'[t].pc = "wait" =>
           task[t].pc = "wait" /\ task'[t].client = task[t].client
  PROVE  WaitInv'
<1>1. NewClient(config) \in Connection /\ NewClient(config).state = "opening"
  BY DEF NewClient, Connection, States
<1>2. /\ Clients' = Clients \cup {Len(client) + 1}
      /\ client'[Len(client) + 1] = NewClient(config)
      /\ \A d \in Clients : client'[d] = client[d]
  <2>1. client \in Seq(Connection)
    BY DEF Inv, TypeOK
  <2> QED BY <1>1, <2>1, Made
<1>3. \A d \in Clients : Queued(d)' = Queued(d)
  BY <1>2 DEF Queued
<1>4. \A d \in Clients' \ Clients : client'[d].state \notin {"ending", "dead"}
  BY <1>1, <1>2
<1> QED BY <1>2, <1>3, <1>4, WaitKept DEF Inv

LEMMA StepWaits ==
  ASSUME Inv, WaitInv, NEW t \in Tasks, Step(t)
  PROVE  WaitInv'
<1> USE DEF Inv
<1>0. NoTask \notin Tasks
  BY TasksAreSome
<1>1. CASE Register(t)
  <2>1. CASE current = NoClient
    <3>1. task' = Registered(t) /\ UNCHANGED client
      BY <1>1, <2>1 DEF Register
    <3> QED BY <3>1, RegisteredTask, WaitSame
  <2>2. CASE current # NoClient
    <3>1. /\ client' = Closed(client, current) /\ current \in Clients /\ current \in Nat
          /\ task' = SentTo(t, "replace", current) /\ "replace" \in Places
      BY <1>1, <2>2 DEF Register, TypeOK, Clients, SentTo, Places
    <3>2. task'[t].pc = "replace" /\ \A u \in Tasks : u # t => task'[u] = task[u]
      BY <3>1, TaskSent
    <3> QED BY <1>0, <3>1, <3>2, WaitClosed
  <2> QED BY <2>1, <2>2
<1>2. CASE Replace(t)
  <2>1. task' = Registered(t) /\ UNCHANGED client
    BY <1>2 DEF Replace
  <2> QED BY <2>1, RegisteredTask, WaitSame
<1>3. CASE Drop(t)
  <2>1. CASE current = NoClient
    <3>1. task' = Done(t, "ok") /\ UNCHANGED client
      BY <1>3, <2>1 DEF Drop
    <3> QED BY <3>1, TaskDone, WaitSame
  <2>2. CASE current # NoClient
    <3>1. /\ client' = Closed(client, current) /\ current \in Clients /\ current \in Nat
          /\ task' = SentTo(t, "ending", current) /\ "ending" \in Places
      BY <1>3, <2>2 DEF Drop, TypeOK, Clients, SentTo, Places
    <3>2. task'[t].pc = "ending" /\ \A u \in Tasks : u # t => task'[u] = task[u]
      BY <3>1, TaskSent
    <3> QED BY <1>0, <3>1, <3>2, WaitClosed
  <2> QED BY <2>1, <2>2
<1>4. CASE Ensure(t)
  <2>1. task[t].pc = "ensure"
    BY <1>4 DEF Ensure
  <2>2. CASE task' = Done(t, "unknown") /\ UNCHANGED client
    BY <2>2, TaskDone, WaitSame
  <2>3. CASE current # NoClient /\ Connected(t, current)
    <3>1. current \in Clients
      BY <2>3 DEF TypeOK
    <3> QED BY <1>0, <2>1, <2>3, <3>1, ConnectedWaits
  <2>4. CASE task' = Goto(t, "connect") /\ UNCHANGED client
    <3>1. "connect" \in Places
      BY DEF Places
    <3>2. task'[t].pc = "connect" /\ \A u \in Tasks : u # t => task'[u] = task[u]
      BY <2>4, <3>1, TaskGoes
    <3> QED BY <2>4, <3>2, WaitSame
  <2> QED BY <1>4, <2>2, <2>3, <2>4 DEF Ensure
<1>5. CASE Connect(t)
  <2>1. task[t].pc = "connect"
    BY <1>5 DEF Connect
  <2>2. CASE /\ task' = Done(t, "key") \/ task' = Done(t, "unreachable")
             /\ UNCHANGED <<lock, client>>
    BY <2>2, TaskDone, WaitSame
  <2>3. CASE current # NoClient /\ Connected(t, current) /\ UNCHANGED lock
    <3>1. current \in Clients
      BY <2>3 DEF TypeOK
    <3> QED BY <1>0, <2>1, <2>3, <3>1, ConnectedWaits
  <2>4. CASE /\ config # NoConfig /\ client' = Append(client, NewClient(config))
             /\ task' = [task EXCEPT ![t].pc = "opening", ![t].client = Len(client) + 1]
    <3>1. config \in Configs
      BY <2>4 DEF TypeOK
    <3>2. Len(client) + 1 \in Nat /\ "opening" \in Places
          /\ task' = SentTo(t, "opening", Len(client) + 1)
      BY <2>4 DEF TypeOK, Places, SentTo
    <3>3. task'[t].pc = "opening" /\ \A u \in Tasks : u # t => task'[u] = task[u]
      BY <3>2, TaskSent
    <3> QED BY <2>4, <3>1, <3>3, WaitMade
  <2> QED BY <1>5, <2>2, <2>3, <2>4 DEF Connect
<1>6. CASE Open(t)
  <2>1. /\ task[t].pc = "opening" /\ Connected(t, task[t].client)
        /\ task[t].client \in Clients
    BY <1>6 DEF Open, HoldInv, Holding
  <2> QED BY <1>0, <2>1, ConnectedWaits
<1>7. CASE OpenFails(t)
  <2>1. /\ client' = Closed(client, task[t].client) /\ task' = task
        /\ task[t].client \in Clients
    BY <1>7 DEF OpenFails, HoldInv, Holding
  <2> QED BY <1>0, <2>1, WaitClosed
<1>8. CASE Unreachable(t)
  <2>1. task' = Done(t, "unreachable") /\ UNCHANGED client
    BY <1>8 DEF Unreachable
  <2> QED BY <2>1, TaskDone, WaitSame
<1>9. CASE DropFailed(t)
  <2>1. CASE current = task[t].client
    <3>1. /\ client' = Closed(client, task[t].client) /\ task' = Goto(t, "ending")
          /\ task[t].client \in Clients /\ "ending" \in Places
      BY <1>9, <2>1 DEF DropFailed, HoldInv, Holding, Places
    <3>2. task'[t].pc = "ending" /\ \A u \in Tasks : u # t => task'[u] = task[u]
      BY <3>1, TaskGoes
    <3> QED BY <1>0, <3>1, <3>2, WaitClosed
  <2>2. CASE current # task[t].client
    <3>1. task' = Again(t) /\ UNCHANGED client
      BY <1>9, <2>2 DEF DropFailed
    <3> QED BY <3>1, TaskAgain, WaitSame
  <2> QED BY <2>1, <2>2
<1>10. CASE Ended(t)
  <2>1. task' \in {Done(t, "ok"), Again(t)} /\ UNCHANGED client
    BY <1>10 DEF Ended
  <2>2. Done(t, "ok")[t].pc = "done" /\ \A u \in Tasks : u # t => Done(t, "ok")[u] = task[u]
    BY TaskDone
  <2>3. task'[t].pc \in {"ensure", "done"} /\ \A u \in Tasks : u # t => task'[u] = task[u]
    BY <2>1, <2>2, TaskAgain
  <2> QED BY <2>1, <2>3, WaitSame
<1> QED BY <1>1, <1>2, <1>3, <1>4, <1>5, <1>6, <1>7, <1>8, <1>9, <1>10 DEF Step

\* An actor's step: the callers ts are let go, the others stay with it.
LEMMA ActorWaits ==
  ASSUME Inv, WaitInv, NEW c \in Clients, NEW r \in Connection, NEW ts,
         client' = [client EXCEPT ![c] = r],
         (Queued(c) \cup Served(c)) \ ts \subseteq Calls(r.queue) \cup ({r.serving} \ {NoTask}),
         r.state \in {"ending", "dead"} => r.serving = NoTask,
         r.state = "dead" => r.queue = <<>>,
         \A u \in Tasks : u \notin ts => task'[u] = task[u],
         \A u \in Tasks : u \in ts => task'[u].pc # "wait"
  PROVE  WaitInv'
<1>1. /\ Clients' = Clients /\ client'[c] = r
      /\ \A d \in Clients : d # c => client'[d] = client[d]
  BY Updated DEF Inv, TypeOK
<1>2. /\ Queued(c)' \cup Served(c)' = Calls(r.queue) \cup ({r.serving} \ {NoTask})
      /\ \A d \in Clients : d # c => Queued(d)' = Queued(d) /\ Served(d)' = Served(d)
  BY <1>1 DEF Queued, Served, Calls
<1>3. ASSUME NEW u \in Tasks, NEW d \in Clients, WaitsAt(u, d)'
      PROVE  u \in Queued(d)' \cup Served(d)'
  <2>1. WaitsAt(u, d) /\ u \notin ts
    BY <1>3 DEF WaitsAt
  <2>2. u \in Queued(d) \cup Served(d)
    BY <2>1 DEF WaitInv
  <2>3. CASE d = c
    BY <1>2, <2>1, <2>2, <2>3
  <2>4. CASE d # c
    BY <1>2, <2>2, <2>4
  <2> QED BY <2>3, <2>4
<1>4. /\ \A d \in Clients : client'[d].state \in {"ending", "dead"} => client'[d].serving = NoTask
      /\ \A d \in Clients : client'[d].state = "dead" => client'[d].queue = <<>>
  BY <1>1 DEF WaitInv
<1> QED BY <1>1, <1>3, <1>4 DEF WaitInv

\* An actor's step that lets nobody go.
LEMMA ActorKeeps ==
  ASSUME Inv, WaitInv, NEW c \in Clients, NEW r \in Connection, task' = task,
         client' = [client EXCEPT ![c] = r],
         Queued(c) \cup Served(c) \subseteq Calls(r.queue) \cup ({r.serving} \ {NoTask}),
         r.state \in {"ending", "dead"} => r.serving = NoTask,
         r.state = "dead" => r.queue = <<>>
  PROVE  WaitInv'
<1>1. PICK none : none = {}
  OBVIOUS
<1>2. (Queued(c) \cup Served(c)) \ none \subseteq Calls(r.queue) \cup ({r.serving} \ {NoTask})
  BY <1>1
<1>3. /\ \A u \in Tasks : u \notin none => task'[u] = task[u]
      /\ \A u \in Tasks : u \in none => task'[u].pc # "wait"
  BY <1>1
<1> QED BY <1>2, <1>3, ActorWaits

LEMMA TakenOne ==
  ASSUME NEW q \in Seq(Slots), q # <<>>
  PROVE  Calls(q) \subseteq Calls(Tail(q)) \cup ({Head(q)} \ {NoTask})
<1> DEFINE r == Tail(q)
           e == Head(q)
<1>1. /\ Len(r) = Len(q) - 1 /\ Len(q) \in Nat /\ Len(q) > 0 /\ e = q[1]
      /\ \A i \in 1..Len(r) : r[i] = q[i + 1]
      /\ DOMAIN r = 1..Len(r) /\ DOMAIN q = 1..Len(q)
  BY HeadTailProperties
<1> HIDE DEF r, e
<1>2. ASSUME NEW i \in DOMAIN q, q[i] # NoTask
      PROVE  q[i] \in Calls(r) \cup ({e} \ {NoTask})
  <2>1. CASE i = 1
    BY <1>1, <1>2, <2>1
  <2>2. CASE i # 1
    <3>1. i - 1 \in DOMAIN r /\ r[i - 1] = q[(i - 1) + 1] /\ (i - 1) + 1 = i
      BY <1>1, <2>2
    <3> QED BY <1>2, <3>1 DEF Calls
  <2> QED BY <2>1, <2>2
<1> QED BY <1>2 DEF Calls, r, e

LEMMA ServeWaits ==
  ASSUME Inv, WaitInv, NEW c \in Clients, Serve(c)
  PROVE  WaitInv'
<1> DEFINE q == client[c].queue
           state == IF Head(q) = NoTask THEN "ending" ELSE "ready"
           r == [client[c] EXCEPT !.queue = Tail(q), !.serving = Head(q), !.state = state]
<1>0. client[c] \in Connection /\ q \in Seq(Slots) /\ q # <<>> /\ Distinct(q, NoTask)
      /\ client[c].serving = NoTask /\ Calls(q) = Queued(c)
  BY ClientTyped DEF Serve
<1>1. Tail(q) \in Seq(Slots) /\ Head(q) \in Slots
      /\ Calls(q) \subseteq Calls(Tail(q)) \cup ({Head(q)} \ {NoTask})
  BY <1>0, QueueTake, TakenOne
<1>2. client' = [client EXCEPT ![c] = r] /\ task' = task
  BY <1>0 DEF Serve, Connection
<1>3. /\ r \in Connection /\ r.queue = Tail(q) /\ r.serving = Head(q) /\ r.state = state
  BY <1>0, <1>1 DEF Connection, States, Slots
<1>4. state \in {"ending", "dead"} => Head(q) = NoTask /\ state # "dead"
  OBVIOUS
<1>5. Served(c) = {}
  BY <1>0 DEF Served
<1> HIDE DEF r, q, state
<1>6. Queued(c) \cup Served(c) \subseteq Calls(r.queue) \cup ({r.serving} \ {NoTask})
  BY <1>0, <1>1, <1>3, <1>5
<1>7. (r.state \in {"ending", "dead"} => r.serving = NoTask)
      /\ (r.state = "dead" => r.queue = <<>>)
  BY <1>3, <1>4
<1> QED BY <1>2, <1>3, <1>6, <1>7, ActorKeeps

LEMMA HandshakeWaits ==
  ASSUME Inv, WaitInv, NEW c \in Clients, Handshake(c)
  PROVE  WaitInv'
<1> DEFINE r == [client[c] EXCEPT !.state = "ready"]
<1>1. /\ r \in Connection /\ r.queue = client[c].queue /\ r.serving = client[c].serving
      /\ r.state = "ready"
  BY ClientTyped DEF Connection, States
<1>2. client' = [client EXCEPT ![c] = r] /\ task' = task
  BY DEF Handshake
<1>3. Calls(client[c].queue) = Queued(c)
  BY ClientTyped
<1> HIDE DEF r
<1>4. Queued(c) \cup Served(c) \subseteq Calls(r.queue) \cup ({r.serving} \ {NoTask})
  BY <1>1, <1>3 DEF Served
<1>5. r.state \notin {"ending", "dead"}
  BY <1>1
<1> QED BY <1>1, <1>2, <1>4, <1>5, ActorKeeps

LEMMA ReplyWaits ==
  ASSUME Inv, WaitInv, NEW c \in Clients, Reply(c)
  PROVE  WaitInv'
<1> DEFINE s == client[c].serving
           r == [client[c] EXCEPT !.serving = NoTask]
<1>1. /\ client[c] \in Connection /\ client[c].state = "ready" /\ s # NoTask
      /\ Calls(client[c].queue) = Queued(c)
  BY ClientTyped DEF Reply
<1>2. /\ r \in Connection /\ r.queue = client[c].queue /\ r.serving = NoTask
      /\ r.state = "ready" /\ s \in Tasks
  BY <1>1 DEF Connection
<1>3. client' = [client EXCEPT ![c] = r] /\ task' = Done(s, "answered")
  BY DEF Reply
<1>4. task'[s].pc = "done" /\ \A u \in Tasks : u # s => task'[u] = task[u]
  BY <1>2, <1>3, TaskDone DEF Inv
<1>5. Served(c) = {s}
  BY <1>1 DEF Served
<1> HIDE DEF r, s
<1>6. (Queued(c) \cup Served(c)) \ {s} \subseteq Calls(r.queue) \cup ({r.serving} \ {NoTask})
  BY <1>1, <1>2, <1>5
<1>7. /\ \A u \in Tasks : u \notin {s} => task'[u] = task[u]
      /\ \A u \in Tasks : u \in {s} => task'[u].pc # "wait"
  BY <1>4
<1>8. r.state \notin {"ending", "dead"}
  BY <1>2
<1> QED BY <1>2, <1>3, <1>6, <1>7, <1>8, ActorWaits

LEMMA BreakWaits ==
  ASSUME Inv, WaitInv, NEW c \in Clients, Break(c)
  PROVE  WaitInv'
<1> DEFINE r == [client[c] EXCEPT !.state = "ending", !.serving = NoTask]
<1>1. client[c] \in Connection /\ Calls(client[c].queue) = Queued(c)
  BY ClientTyped
<1>2. client' = [client EXCEPT ![c] = r] /\ task' = Failed(task, Served(c))
  BY <1>1 DEF Break, Connection
<1>3. /\ r \in Connection /\ r.queue = client[c].queue /\ r.serving = NoTask
      /\ r.state = "ending"
  BY <1>1 DEF Connection, States
<1>4. /\ \A u \in Tasks : u \notin Served(c) => task'[u] = task[u]
      /\ \A u \in Tasks : u \in Served(c) => task'[u].pc # "wait"
  <2>1. \A u \in Tasks : u \in Served(c) => task'[u].pc = "failed"
    BY <1>2, FailedTasks DEF Inv
  <2> QED BY <1>2, <2>1, FailedTasks DEF Inv
<1> HIDE DEF r
<1>5. (Queued(c) \cup Served(c)) \ Served(c)
        \subseteq Calls(r.queue) \cup ({r.serving} \ {NoTask})
  BY <1>1, <1>3
<1> QED BY <1>2, <1>3, <1>4, <1>5, ActorWaits

LEMMA DrainWaits ==
  ASSUME Inv, WaitInv, NEW c \in Clients, Drain(c)
  PROVE  WaitInv'
<1> DEFINE e(q) == [client[c] EXCEPT !.state = "dead", !.queue = q]
           r == e(<<>>)
<1>1. client[c] \in Connection /\ client[c].serving = NoTask
  BY ClientTyped DEF Drain, WaitInv
<1>2. /\ client' = [client EXCEPT ![c] = r] /\ task' = Failed(task, Queued(c))
  <2>1. \A q : [client EXCEPT ![c].state = "dead", ![c].queue = q] = [client EXCEPT ![c] = e(q)]
    BY <1>1 DEF Connection
  <2>2. client' = [client EXCEPT ![c].state = "dead", ![c].queue = <<>>]
        /\ task' = Failed(task, Queued(c))
    BY DEF Drain
  <2> QED BY <2>1, <2>2
<1>3. /\ r \in Connection /\ r.queue = <<>> /\ r.serving = NoTask /\ r.state = "dead"
  <2>1. \A q \in Seq(Slots) : /\ e(q) \in Connection /\ e(q).queue = q
                              /\ e(q).serving = NoTask /\ e(q).state = "dead"
    BY <1>1 DEF Connection, States, Slots
  <2>2. <<>> \in Seq(Slots)
    BY EmptySeq
  <2> HIDE DEF e
  <2> QED BY <2>1, <2>2
<1>4. /\ \A u \in Tasks : u \notin Queued(c) => task'[u] = task[u]
      /\ \A u \in Tasks : u \in Queued(c) => task'[u].pc # "wait"
  <2>1. \A u \in Tasks : u \in Queued(c) => task'[u].pc = "failed"
    BY <1>2, FailedTasks DEF Inv
  <2> QED BY <1>2, <2>1, FailedTasks DEF Inv
<1>5. Served(c) = {}
  BY <1>1 DEF Served
<1> HIDE DEF r, e
<1>6. (Queued(c) \cup Served(c)) \ Queued(c)
        \subseteq Calls(r.queue) \cup ({r.serving} \ {NoTask})
  BY <1>5
<1> QED BY <1>2, <1>3, <1>4, <1>6, ActorWaits

LEMMA WaitStep == Inv /\ WaitInv /\ [Next]_vars => WaitInv'
<1> SUFFICES ASSUME Inv, WaitInv, [Next]_vars PROVE WaitInv'
  OBVIOUS
<1>1. CASE UNCHANGED vars
  <2>1. UNCHANGED <<client, task>>
    BY <1>1 DEF vars
  <2> QED BY <2>1, WaitSame
<1>2. ASSUME NEW t \in Tasks, BeginCall(t) \/ BeginAdmin(t)
      PROVE  WaitInv'
  <2>1. task \in [Tasks -> Coroutine] /\ task[t] \in Coroutine
    BY DEF Inv, TypeOK
  <2>2. task'[t].pc # "wait" /\ UNCHANGED client /\ \A u \in Tasks : u # t => task'[u] = task[u]
    <3>1. ASSUME NEW op, NEW want, NEW pc, pc # "wait", Begin(t, op, want, pc)
          PROVE  task'[t].pc # "wait" /\ UNCHANGED client
                 /\ \A u \in Tasks : u # t => task'[u] = task[u]
      BY <2>1, <3>1 DEF Begin, Coroutine
    <3> QED BY <1>2, <3>1 DEF BeginCall, BeginAdmin, BeginRegister, BeginRemove,
                              BeginClose, BeginWarm
  <2> QED BY <2>2, WaitSame
<1>3. ASSUME NEW t \in Tasks, Step(t)
      PROVE  WaitInv'
  BY <1>3, StepWaits
<1>4. ASSUME NEW c \in Clients, Act(c) \/ Dies(c)
      PROVE  WaitInv'
  BY <1>4, HandshakeWaits, ServeWaits, ReplyWaits, BreakWaits, DrainWaits DEF Act, GivesUp, Dies
<1> QED BY <1>1, <1>2, <1>3, <1>4 DEF Next, Tasks

LEMMA WaitInit == Init => WaitInv
BY DEF Init, WaitInv, WaitsAt, NewTask, Clients

\* No call is stranded: one that waits is queued or served at one connection, whose
\* actor has not ended, so that the actor's end or its service lets the call go
\* (client.py: the actor's last act is to fail what is still queued).
THEOREM Attended == Spec => []NoneStranded
<1>1. Inv /\ WaitInv => NoneStranded
  <2> SUFFICES ASSUME Inv, WaitInv, NEW t \in Tasks, task[t].pc = "wait",
                      NEW c, c = task[t].client
               PROVE  /\ c \in Clients /\ client[c].state # "dead"
                      /\ t \in Queued(c) \cup Served(c)
                      /\ \A d \in Clients \ {c} : t \notin Queued(d) \cup Served(d)
    BY DEF NoneStranded
  <2>1. c \in Clients
    BY DEF Inv, HoldInv, Holding
  <2>2. t \in Queued(c) \cup Served(c)
    BY <2>1 DEF WaitInv, WaitsAt
  <2>3. client[c].state # "dead"
    <3>1. client[c].state = "dead" => client[c].queue = <<>> /\ client[c].serving = NoTask
      BY <2>1 DEF WaitInv
    <3>2. client[c].queue = <<>> /\ client[c].serving = NoTask => Queued(c) = {} /\ Served(c) = {}
      BY DEF Queued, Served
    <3> QED BY <2>2, <3>1, <3>2
  <2>4. \A d \in Clients \ {c} : t \notin Queued(d) \cup Served(d)
    BY DEF Inv, QueueInv, WaitsAt
  <2> QED BY <2>1, <2>2, <2>3, <2>4
<1>2. Init => Inv /\ WaitInv
  BY InitInv, WaitInit
<1>3. Inv /\ WaitInv /\ [Next]_vars => (Inv /\ WaitInv)'
  BY NextInv, WaitStep
<1> QED BY <1>1, <1>2, <1>3, PTL DEF Spec

\* There is at most one process of the server besides those that are being closed,
\* however many calls find no connection at once (manager.py:126-150: the connection
\* is looked for again under the lock).
THEOREM OneAtATime == Spec => []OneConnection
<1>1. Inv => OneConnection
  <2> SUFFICES ASSUME Inv, NEW c \in Serving, NEW d \in Serving
               PROVE  c = d
    BY DEF OneConnection
  <2>1. /\ c = current \/ \E t \in Tasks : task[t].pc = "opening" /\ task[t].client = c
        /\ d = current \/ \E t \in Tasks : task[t].pc = "opening" /\ task[t].client = d
        /\ c # NoClient /\ d # NoClient
    BY DEF Inv, KeptInv, Serving, NoClient, Clients, TypeOK
  <2>2. /\ \A t \in Tasks : task[t].pc = "opening" => lock = t /\ current = NoClient
    BY DEF Inv, LockInv, Locking
  <2> QED BY <2>1, <2>2
<1> QED BY <1>1, Invariance, PTL

=============================================================================
