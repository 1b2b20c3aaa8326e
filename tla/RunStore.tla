------------------------------ MODULE RunStore ------------------------------
(***************************************************************************)
(* One chat session, its messages and its in-process runs in the control   *)
(* plane's database: run requests, clients that append turns, clients that *)
(* delete the session, and the restart of the process with its sweep.      *)
(*                                                                         *)
(* The handlers are coroutines whose transactions interleave by statement. *)
(* The database is modelled as they use it: read committed, row locks held *)
(* to the end of a transaction, foreign keys checked by the statement that *)
(* needs them.  A transaction's last statement and its commit are one step *)
(* where the lock the statement takes makes the others wait in between.    *)
(*                                                                         *)
(* Left out: durable runs (AgentRun has them), contents, owners, metadata, *)
(* the replay of earlier turns to the model, reports, other sessions, a    *)
(* commit whose answer is lost, other processes on the same database.      *)
(***************************************************************************)
EXTENDS Integers, FiniteSets, FiniteSetsExt

CONSTANTS Runs,       \* requests that start a run in the session
          Writers,    \* requests that append a turn
          Deleters,   \* requests that delete the session
          MaxStarts,  \* bound on the starts of the process
          NoOne

Requests == Runs \cup Writers \cup Deleters

ASSUME RequestsAssumption ==
  /\ Runs \cap Writers = {} /\ Runs \cap Deleters = {} /\ Writers \cap Deleters = {}
  /\ NoOne \notin Requests /\ MaxStarts \in Nat

VARIABLES exists,   \* the session's row
          message,  \* its messages
          run,      \* the rows of the runs
          locked,   \* who holds the session's row FOR UPDATE
          tx,       \* what the open transactions have written
          request,  \* the handlers
          starts    \* how often the process was started

vars == <<exists, message, run, locked, tx, request, starts>>
db == <<exists, message, run>>

Active == {"created", "streaming"}
\* "empty" is a run completed with the reason why there is no output.
Completed == {"completed", "empty"}
Terminal == Completed \cup {"failed"}

NoRow == [status |-> "none", attached |-> FALSE]
NoTx == [status |-> "none", turn |-> {}, drops |-> {}, detaches |-> {}]

Goto(p, pc) == request' = [request EXCEPT ![p].pc = pc]

\* No open transaction of another has written the row of run r.
RowFree(p, r) == \A q \in Requests \ {p} : r \notin tx[q].detaches /\ (q = r => tx[q].status = "none")

Attached == {r \in Runs : run[r].attached}

-----------------------------------------------------------------------------
(* A run.                                                                  *)

\* The session's row is there, or is made together with the run's.
Ensure(r) ==
  /\ request[r].pc = "new"
  /\ \E stream \in BOOLEAN :
       request' = [request EXCEPT ![r].stream = stream,
                                  ![r].pc = IF exists THEN "insert" ELSE "made"]
  /\ exists' = TRUE
  /\ run' = IF exists THEN run
            ELSE [run EXCEPT ![r] = [status |-> "created", attached |-> TRUE]]
  /\ UNCHANGED <<message, locked, tx, starts>>

\* The run's row is inserted.  The session it refers to may be gone by now: the
\* transaction fails, and the request with it.
Insert(r) ==
  /\ request[r].pc = "insert" /\ locked = NoOne
  /\ IF exists
     THEN /\ run' = [run EXCEPT ![r] = [status |-> "created", attached |-> TRUE]]
          /\ Goto(r, "made")
     ELSE Goto(r, "done") /\ UNCHANGED run
  /\ UNCHANGED <<exists, message, locked, tx, starts>>

\* The model's stream is open.
Stream(r) ==
  /\ request[r].pc = "made" /\ request[r].stream /\ RowFree(r, r)
  /\ run' = [run EXCEPT ![r].status = "streaming"]
  /\ Goto(r, "streaming")
  /\ UNCHANGED <<exists, message, locked, tx, starts>>

Asking(r) == request[r].pc = IF request[r].stream THEN "streaming" ELSE "made"

\* The model has answered: one transaction completes the run and, unless the
\* answer is blank, appends the turn.
Answer(r) ==
  /\ Asking(r) /\ RowFree(r, r)
  /\ \E status \in Completed :
       /\ tx' = [tx EXCEPT ![r].status = status]
       /\ request' = [request EXCEPT ![r].answered = TRUE,
                                     ![r].pc = IF status = "empty" THEN "commit" ELSE "lock"]
  /\ UNCHANGED <<db, locked, starts>>

\* It has failed, before the stream or inside it.
Fail(r) ==
  /\ request[r].pc \in {"made", "streaming"} /\ RowFree(r, r)
  /\ run' = [run EXCEPT ![r].status = "failed"]
  /\ Goto(r, "done")
  /\ UNCHANGED <<exists, message, locked, tx, starts>>

\* The row stays as it is: an error that is not expected where the model is asked,
\* or a client that is gone before its stream begins.
Escape(r) ==
  /\ request[r].pc = "made"
  /\ Goto(r, "done")
  /\ UNCHANGED <<db, locked, tx, starts>>

\* The client of a stream goes away, at the stream's first write or later: an open
\* transaction is rolled back, and a task of its own goes on to end the run.
Disconnect(r) ==
  /\ request[r].stream
  /\ request[r].pc \in {"made", "streaming", "lock", "place", "commit", "closing"}
  /\ tx' = [tx EXCEPT ![r] = NoTx]
  /\ locked' = IF locked = r THEN NoOne ELSE locked
  /\ request' = [request EXCEPT ![r].pc = "cleanup", ![r].answered = FALSE]
  /\ UNCHANGED <<db, starts>>

\* MUTANT: the run fails whatever its row says.
CleanupAnyway(r) ==
  /\ request[r].pc = "cleanup" /\ RowFree(r, r)
  /\ run' = [run EXCEPT ![r].status = "failed"]
  /\ Goto(r, "done")
  /\ UNCHANGED <<exists, message, locked, tx, starts>>

\* fail_if_active: the run fails unless it has ended.
Cleanup(r) ==
  /\ request[r].pc = "cleanup" /\ RowFree(r, r)
  /\ run' = [run EXCEPT ![r].status = IF @ \in Active THEN "failed" ELSE @]
  /\ Goto(r, "done")
  /\ UNCHANGED <<exists, message, locked, tx, starts>>

\* A stream's last frames are sent.
Close(r) ==
  /\ request[r].pc = "closing"
  /\ Goto(r, "done")
  /\ UNCHANGED <<db, locked, tx, starts>>

-----------------------------------------------------------------------------
(* append_turn, of a run or of a client.                                   *)

\* A client's request finds the session.
CheckTurn(w) ==
  /\ request[w].pc = "new"
  /\ Goto(w, IF exists THEN "lock" ELSE "done")
  /\ UNCHANGED <<db, locked, tx, starts>>

\* MUTANT: a session that is gone is not noticed: the foreign key of the messages
\* fails the transaction, and the run.
LockBlindly(p) ==
  /\ request[p].pc = "lock" /\ locked = NoOne
  /\ IF exists
     THEN locked' = p /\ Goto(p, "place") /\ UNCHANGED <<tx, run>>
     ELSE /\ tx' = [tx EXCEPT ![p] = NoTx]
          /\ run' = IF p \in Runs THEN [run EXCEPT ![p].status = "failed"] ELSE run
          /\ Goto(p, "done")
          /\ UNCHANGED locked
  /\ UNCHANGED <<exists, message, starts>>

\* MUTANT: the session's row is read without a lock.
LockNothing(p) ==
  /\ request[p].pc = "lock" /\ locked = NoOne
  /\ Goto(p, IF exists THEN "place" ELSE "commit")
  /\ UNCHANGED <<db, locked, tx, starts>>

\* The session's row is locked.  If it is gone, there is no turn to write.
Lock(p) ==
  /\ request[p].pc = "lock" /\ locked = NoOne
  /\ IF exists THEN locked' = p /\ Goto(p, "place")
     ELSE Goto(p, "commit") /\ UNCHANGED locked
  /\ UNCHANGED <<db, tx, starts>>

\* MUTANT: the position after none is not the first.
PlaceBeforeFirst(p) ==
  LET next == IF message = {} THEN -1 ELSE Max({m.position : m \in message}) + 1
  IN /\ request[p].pc = "place"
     /\ tx' = [tx EXCEPT ![p].turn = {[by |-> p, role |-> "user", position |-> next],
                                      [by |-> p, role |-> "assistant", position |-> next + 1]}]
     /\ Goto(p, "commit")
     /\ UNCHANGED <<db, locked, starts>>

\* The turn gets the next two positions.
Place(p) ==
  LET next == IF message = {} THEN 0 ELSE Max({m.position : m \in message}) + 1
  IN /\ request[p].pc = "place"
     /\ tx' = [tx EXCEPT ![p].turn = {[by |-> p, role |-> "user", position |-> next],
                                      [by |-> p, role |-> "assistant", position |-> next + 1]}]
     /\ Goto(p, "commit")
     /\ UNCHANGED <<db, locked, starts>>

Commit(p) ==
  /\ request[p].pc = "commit"
  /\ message' = message \cup tx[p].turn
  /\ run' = IF p \in Runs THEN [run EXCEPT ![p].status = tx[p].status] ELSE run
  /\ tx' = [tx EXCEPT ![p] = NoTx]
  /\ locked' = IF locked = p THEN NoOne ELSE locked
  /\ Goto(p, IF request[p].stream THEN "closing" ELSE "done")
  /\ UNCHANGED <<exists, starts>>

-----------------------------------------------------------------------------
(* delete_chat_session: three statements in one transaction.               *)

\* MUTANT: the session is locked when it is looked up.
CheckDeleteLocked(d) ==
  /\ request[d].pc = "new" /\ locked = NoOne
  /\ locked' = IF exists THEN d ELSE NoOne
  /\ Goto(d, IF exists THEN "detach" ELSE "done")
  /\ UNCHANGED <<db, tx, starts>>

CheckDelete(d) ==
  /\ request[d].pc = "new"
  /\ Goto(d, IF exists THEN "detach" ELSE "done")
  /\ UNCHANGED <<db, locked, tx, starts>>

\* The session's runs are detached, all in one statement, once their rows are free.
Detach(d) ==
  /\ request[d].pc = "detach" /\ \A r \in Attached : RowFree(d, r)
  /\ tx' = [tx EXCEPT ![d].detaches = Attached]
  /\ Goto(d, "clear")
  /\ UNCHANGED <<db, locked, starts>>

\* Its messages are deleted.
Clear(d) ==
  /\ request[d].pc = "clear"
  /\ tx' = [tx EXCEPT ![d].drops = message]
  /\ Goto(d, "drop")
  /\ UNCHANGED <<db, locked, starts>>

\* The session's row is deleted and all is committed, unless a run or a message
\* came meanwhile and refers to it: then nothing is done.
Drop(d) ==
  LET free == Attached \subseteq tx[d].detaches /\ message \subseteq tx[d].drops
  IN /\ request[d].pc = "drop" /\ locked \in {NoOne, d}
     /\ IF free
        THEN /\ exists' = FALSE
             /\ message' = message \ tx[d].drops
             /\ run' = [r \in Runs |-> [run[r] EXCEPT !.attached = @ /\ r \notin tx[d].detaches]]
        ELSE UNCHANGED db
     /\ tx' = [tx EXCEPT ![d] = NoTx]
     /\ locked' = NoOne
     /\ Goto(d, "done")
     /\ UNCHANGED starts

-----------------------------------------------------------------------------
\* The process ends and is started again.  Open transactions are rolled back; before
\* the first request, the runs it left active are failed.
Restart ==
  /\ starts < MaxStarts
  /\ starts' = starts + 1
  /\ tx' = [p \in Requests |-> NoTx]
  /\ locked' = NoOne
  /\ request' = [p \in Requests |->
                   IF request[p].pc = "new" THEN request[p]
                   ELSE [request[p] EXCEPT !.pc = "done", !.answered = FALSE]]
  /\ run' = [r \in Runs |-> IF run[r].status \in Active THEN [run[r] EXCEPT !.status = "failed"]
                            ELSE run[r]]
  /\ UNCHANGED <<exists, message>>

Init ==
  /\ exists \in BOOLEAN
  /\ message = {}
  /\ run = [r \in Runs |-> NoRow]
  /\ locked = NoOne
  /\ tx = [p \in Requests |-> NoTx]
  /\ request = [p \in Requests |-> [pc |-> "new", stream |-> FALSE, answered |-> FALSE]]
  /\ starts = 1

Arrive == \/ \E r \in Runs : Ensure(r)
          \/ \E w \in Writers : CheckTurn(w)
          \/ \E d \in Deleters : CheckDelete(d)

Step == \/ \E r \in Runs : Insert(r) \/ Stream(r) \/ Answer(r) \/ Fail(r) \/ Cleanup(r) \/ Close(r)
        \/ \E p \in Runs \cup Writers : Lock(p) \/ Place(p) \/ Commit(p)
        \/ \E d \in Deleters : Detach(d) \/ Clear(d) \/ Drop(d)

Mishap == (\E r \in Runs : Escape(r) \/ Disconnect(r)) \/ Restart

Next == Arrive \/ Step \/ Mishap

Spec == Init /\ [][Next]_vars

\* The database grants a row to who waits for it, the model answers or fails.  A
\* request takes finitely many steps, so some step of some request is enough.
FairSpec == Spec /\ WF_vars(Step)

-----------------------------------------------------------------------------
(* Properties.                                                             *)

Message == [by : Runs \cup Writers, role : {"user", "assistant"}, position : Nat]

\* The variables keep their types.
TypeOK ==
  /\ exists \in BOOLEAN
  /\ message \in SUBSET Message
  /\ run \in [Runs -> [status : {"none"} \cup Active \cup Terminal, attached : BOOLEAN]]
  /\ locked \in Requests \cup {NoOne}
  /\ tx \in [Requests -> [status : {"none"} \cup Completed, turn : SUBSET Message,
                          drops : SUBSET Message, detaches : SUBSET Runs]]
  /\ request \in [Requests -> [pc : {"new", "insert", "made", "streaming", "lock", "place",
                                     "commit", "closing", "cleanup", "detach", "clear", "drop",
                                     "done"},
                               stream : BOOLEAN, answered : BOOLEAN]]
  /\ starts \in Nat

\* "Positions are dense and monotonic": the messages are at 0, 1, ..., and the two of
\* a turn are next to each other, whoever else appends.
TurnsWhole ==
  /\ {m.position : m \in message} = 0..Cardinality(message) - 1
  /\ \A m \in message : m.role = "user" =>
       \E n \in message : n.by = m.by /\ n.role = "assistant" /\ n.position = m.position + 1

\* A run and its turn agree: a turn in the session is of a completed run; a completed
\* run with an output and still in the session has its turn there; and
\* a run whose answer was taken is completed, whatever became of the session.
OutcomeAndTurn ==
  \A r \in Runs :
    LET told == \E m \in message : m.by = r
    IN /\ told => run[r].status = "completed"
       /\ run[r].status = "completed" /\ run[r].attached => told
       /\ request[r].answered /\ request[r].pc \in {"closing", "done"}
            => run[r].status \in Completed

\* A run that has ended keeps its outcome: no late cancellation and no sweep changes it.
EndedStays == [][\A r \in Runs : run[r].status \in Terminal => run'[r].status = run[r].status]_vars

\* The session as those see it who use it.
Turns == [i \in 1..Cardinality(message) \div 2 |->
            CHOOSE p \in Runs \cup Writers :
              [by |-> p, role |-> "user", position |-> 2 * (i - 1)] \in message]
Outcome == [r \in Runs |-> IF run[r].status \in Active THEN "active" ELSE run[r].status]
Log == INSTANCE SessionLog WITH
  open <- exists, turns <- Turns, member <- Attached, outcome <- Outcome

\* However the statements of runs, clients and deletions interleave and whatever is
\* cut off, each request takes effect at one instant: the session is a log of whole
\* turns that is only appended to, or deleted, and a run ends together with its turn.
KeepsLog == Log!Spec

\* Every request comes to an end, so that again and again none is under way: no two
\* wait for each other's rows.
RequestsEnd == []<>(\A p \in Requests : request[p].pc \in {"new", "done"})

=============================================================================
