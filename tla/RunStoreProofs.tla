--------------------------- MODULE RunStoreProofs ---------------------------
(* What RunStore promises for any number of runs, writers and deleters. *)
EXTENDS RunStore, Sequences, FiniteSetTheorems, SequenceTheorems, TLAPS

Pcs == {"new", "insert", "made", "streaming", "lock", "place", "commit", "closing",
        "cleanup", "detach", "clear", "drop", "done"}
Handler == [pc : Pcs, stream : BOOLEAN, answered : BOOLEAN]
Transaction == [status : {"none"} \cup Completed, turn : SUBSET Message,
                drops : SUBSET Message, detaches : SUBSET Runs]
Row == [status : {"none"} \cup Active \cup Terminal, attached : BOOLEAN]

Inside == {"lock", "place", "commit"}

\* What a run's handler does agrees with the run's row.
RowInv ==
  \A r \in Runs :
    /\ request[r].pc \in {"new", "insert"} => run[r].status = "none"
    /\ request[r].pc = "made" => run[r].status = "created"
    /\ request[r].pc = "streaming" => run[r].status = "streaming"
    /\ request[r].pc \in Inside => run[r].status \in Active /\ tx[r].status \in Completed
    /\ request[r].pc \in {"lock", "place"} => tx[r].status = "completed"
    /\ request[r].answered => request[r].pc \in Inside \cup {"closing", "done"}

\* The turn of a run or of a writer, after n messages.
Turn(p, n) == {[by |-> p, role |-> "user", position |-> n],
               [by |-> p, role |-> "assistant", position |-> n + 1]}

\* Who appends a turn holds the session's row from before its position is read.
PlaceInv ==
  \A p \in Requests :
    /\ request[p].pc \in Inside => p \in Runs \cup Writers
    /\ request[p].pc = "place" => locked = p /\ exists
    /\ tx[p].turn # {} => /\ request[p].pc = "commit" /\ locked = p /\ exists
                          /\ tx[p].turn = Turn(p, Cardinality(message))
    /\ request[p].pc = "commit" /\ p \in Runs /\ tx[p].status = "empty" => tx[p].turn = {}

Pairs == \A m \in message : m.role = "user" =>
           \E n \in message : n.by = m.by /\ n.role = "assistant" /\ n.position = m.position + 1
Dense == {m.position : m \in message} = 0..Cardinality(message) - 1
DenseInv == IsFiniteSet(message) /\ Dense /\ Pairs

\* A session that is gone has left nothing; a run that completes without its turn
\* has left the session.
GoneInv ==
  /\ ~ exists => message = {} /\ \A r \in Runs : ~ run[r].attached
  /\ \A r \in Runs : request[r].pc = "commit" /\ tx[r].status = "completed" /\ tx[r].turn = {}
       => ~ run[r].attached

Inv == TypeOK /\ RowInv /\ PlaceInv /\ DenseInv /\ GoneInv /\ OutcomeAndTurn

-----------------------------------------------------------------------------
(* Types, and who is who.                                                  *)

LEMMA Types ==
  TypeOK <=> /\ exists \in BOOLEAN /\ message \in SUBSET Message
             /\ run \in [Runs -> Row] /\ locked \in Requests \cup {NoOne}
             /\ tx \in [Requests -> Transaction] /\ request \in [Requests -> Handler]
             /\ starts \in Nat
BY DEF TypeOK, Row, Transaction, Handler, Pcs

LEMMA Kinds ==
  /\ Runs \subseteq Requests /\ Writers \subseteq Requests /\ Deleters \subseteq Requests
  /\ \A d \in Deleters : d \notin Runs \cup Writers
  /\ \A w \in Writers : w \notin Runs
  /\ NoOne \notin Requests
BY RequestsAssumption DEF Requests

LEMMA Goes ==
  ASSUME TypeOK, NEW p \in Requests, NEW pc \in Pcs, Goto(p, pc)
  PROVE  /\ request' \in [Requests -> Handler] /\ request'[p].pc = pc
         /\ request'[p].stream = request[p].stream
         /\ request'[p].answered = request[p].answered
         /\ \A q \in Requests : q # p => request'[q] = request[q]
<1>1. request \in [Requests -> Handler] /\ request[p] \in Handler
  BY Types
<1>2. request' = [request EXCEPT ![p] = [request[p] EXCEPT !.pc = pc]]
  BY DEF Goto
<1> QED BY <1>1, <1>2 DEF Handler

LEMMA NoTxTyped ==
  /\ NoTx \in Transaction
  /\ NoTx.turn = {} /\ NoTx.status = "none" /\ NoTx.detaches = {}
BY DEF NoTx, Transaction

LEMMA RolledBack ==
  ASSUME TypeOK, NEW p \in Requests, tx' = [tx EXCEPT ![p] = NoTx]
  PROVE  /\ tx' \in [Requests -> Transaction] /\ tx'[p] = NoTx
         /\ \A q \in Requests : q # p => tx'[q] = tx[q]
BY Types, NoTxTyped

LEMMA RowWritten ==
  ASSUME TypeOK, NEW r \in Runs, NEW s \in Active \cup Terminal,
         run' = [run EXCEPT ![r].status = s]
  PROVE  /\ run' \in [Runs -> Row] /\ run'[r].status = s
         /\ run'[r].attached = run[r].attached
         /\ \A q \in Runs : q # r => run'[q] = run[q]
<1>1. run \in [Runs -> Row] /\ run[r] \in Row
  BY Types
<1>2. run' = [run EXCEPT ![r] = [run[r] EXCEPT !.status = s]]
  OBVIOUS
<1> QED BY <1>1, <1>2 DEF Row

-----------------------------------------------------------------------------
(* Steps that touch no message.                                            *)

\* A handler moves outside of a turn, and writes at most its own run's row.
LEMMA Plain ==
  ASSUME Inv, NEW p \in Requests, UNCHANGED <<message, locked, starts>>,
         exists' = exists, tx' = tx,
         request' \in [Requests -> Handler], run' \in [Runs -> Row],
         \A q \in Requests : q # p => request'[q] = request[q],
         \A r \in Runs : r # p => run'[r] = run[r],
         request[p].pc \notin {"place", "commit"},
         request'[p].pc \notin {"place", "commit"},
         request'[p].pc = "lock" => p \in Writers,
         p \in Runs =>
           /\ run[p].attached \/ exists \/ ~ run'[p].attached
           /\ \/ (run[p].status # "completed" /\ run'[p].status # "completed")
              \/ run'[p] = run[p]
           /\ request'[p].pc \in {"new", "insert"} => run'[p].status = "none"
           /\ request'[p].pc = "made" => run'[p].status = "created"
           /\ request'[p].pc = "streaming" => run'[p].status = "streaming"
           /\ ~ request'[p].answered \/ (request[p].pc = "closing" /\ request'[p].pc = "done"
                                         /\ run' = run /\ request[p].answered)
  PROVE  Inv'
<1> USE Kinds DEF Inv
<1>1. TypeOK'
  <2>1. /\ exists' \in BOOLEAN /\ message' \in SUBSET Message
        /\ locked' \in Requests \cup {NoOne} /\ tx' \in [Requests -> Transaction]
        /\ starts' \in Nat
    BY Types
  <2> QED BY <2>1 DEF TypeOK, Row, Transaction, Handler, Pcs
<1>2. RowInv'
  BY DEF RowInv, Inside
<1>3. PlaceInv'
  BY DEF PlaceInv, Inside
<1>4. DenseInv'
  BY DEF DenseInv, Dense, Pairs
<1>5. GoneInv'
  BY DEF GoneInv
<1>6. OutcomeAndTurn'
  BY DEF OutcomeAndTurn
<1> QED BY <1>1, <1>2, <1>3, <1>4, <1>5, <1>6

NewRow == [status |-> "created", attached |-> TRUE]

LEMMA RowMade ==
  ASSUME TypeOK, NEW r \in Runs, run' = [run EXCEPT ![r] = NewRow]
  PROVE  /\ run' \in [Runs -> Row] /\ run'[r].status = "created" /\ run'[r].attached
         /\ \A q \in Runs : q # r => run'[q] = run[q]
<1>1. NewRow \in Row /\ NewRow.status = "created" /\ NewRow.attached
  BY DEF NewRow, Row, Active
<1> QED BY <1>1, Types

LEMMA InsertInv ==
  ASSUME Inv, NEW r \in Runs, Insert(r)
  PROVE  Inv'
<1>0. r \in Requests /\ "made" \in Pcs /\ "done" \in Pcs
  BY Kinds DEF Pcs
<1>1. CASE exists
  <2>1. run' = [run EXCEPT ![r] = NewRow] /\ Goto(r, "made")
        /\ request[r].pc = "insert" /\ UNCHANGED <<exists, message, locked, tx, starts>>
    BY <1>1 DEF Insert, NewRow
  <2>2. run[r].status = "none" /\ ~ request[r].answered
    BY <2>1 DEF Inv, RowInv, Inside
  <2>3. /\ run' \in [Runs -> Row] /\ run'[r].status = "created"
        /\ \A q \in Runs : q # r => run'[q] = run[q]
    BY <2>1, RowMade DEF Inv
  <2>4. /\ request' \in [Requests -> Handler] /\ request'[r].pc = "made"
        /\ request'[r].answered = request[r].answered
        /\ \A q \in Requests : q # r => request'[q] = request[q]
    BY <1>0, <2>1, Goes DEF Inv
  <2> QED BY <1>0, <1>1, <2>1, <2>2, <2>3, <2>4, Plain
<1>2. CASE ~ exists
  <2>1. run' = run /\ Goto(r, "done")
        /\ request[r].pc = "insert" /\ UNCHANGED <<exists, message, locked, tx, starts>>
    BY <1>2 DEF Insert
  <2>2. run[r].status = "none" /\ ~ request[r].answered /\ run \in [Runs -> Row]
    BY <2>1, Types DEF Inv, RowInv, Inside
  <2>3. ~ exists => ~ run[r].attached
    BY DEF Inv, GoneInv
  <2> QED BY <1>0, <2>1, <2>2, <2>3, Goes, Plain DEF Inv
<1> QED BY <1>1, <1>2

\* A run's handler ends its row's work outside of a turn.
LEMMA EndInv ==
  ASSUME Inv, NEW r \in Runs, NEW s \in Active \cup Terminal,
         request[r].pc \in {"made", "streaming", "cleanup"},
         run' = [run EXCEPT ![r].status = s],
         UNCHANGED <<exists, message, locked, tx, starts>>,
         NEW pc \in {"streaming", "done"}, Goto(r, pc),
         pc = "streaming" => s = "streaming",
         (s # "completed" /\ run[r].status # "completed") \/ s = run[r].status
  PROVE  Inv'
<1>0. r \in Requests /\ pc \in Pcs
  BY Kinds DEF Pcs
<1>1. /\ run' \in [Runs -> Row] /\ run'[r].status = s
      /\ run'[r].attached = run[r].attached
      /\ \A q \in Runs : q # r => run'[q] = run[q]
  BY RowWritten DEF Inv
<1>2. ~ request[r].answered /\ (~ exists => ~ run[r].attached)
  BY DEF Inv, RowInv, Inside, GoneInv
<1>3. s = run[r].status => run'[r] = run[r]
  BY <1>1, Types DEF Inv, Row
<1> QED BY <1>0, <1>1, <1>2, <1>3, Goes, Plain DEF Inv

LEMMA StreamInv ==
  ASSUME Inv, NEW r \in Runs, Stream(r)
  PROVE  Inv'
<1>1. run[r].status = "created"
  BY DEF Stream, Inv, RowInv
<1>2. /\ run' = [run EXCEPT ![r].status = "streaming"] /\ Goto(r, "streaming")
      /\ UNCHANGED <<exists, message, locked, tx, starts>> /\ request[r].pc = "made"
  BY DEF Stream
<1>3. "streaming" \in Active \cup Terminal
  BY DEF Active
<1> QED BY <1>1, <1>2, <1>3, EndInv

LEMMA FailInv ==
  ASSUME Inv, NEW r \in Runs, Fail(r)
  PROVE  Inv'
<1>1. run[r].status \in {"created", "streaming"}
  BY DEF Fail, Inv, RowInv
<1>2. /\ run' = [run EXCEPT ![r].status = "failed"] /\ Goto(r, "done")
      /\ UNCHANGED <<exists, message, locked, tx, starts>>
      /\ request[r].pc \in {"made", "streaming"}
  BY DEF Fail
<1>3. "failed" \in Active \cup Terminal
  BY DEF Terminal
<1> QED BY <1>1, <1>2, <1>3, EndInv

LEMMA CleanupInv ==
  ASSUME Inv, NEW r \in Runs, Cleanup(r)
  PROVE  Inv'
<1> DEFINE s == IF run[r].status \in Active THEN "failed" ELSE run[r].status
<1>0. run \in [Runs -> Row] /\ request[r].pc = "cleanup"
      /\ UNCHANGED <<exists, message, locked, tx, starts>> /\ Goto(r, "done")
  BY Types DEF Inv, Cleanup
<1>1. run' = [run EXCEPT ![r].status = s]
  BY DEF Cleanup
<1>2. CASE s \in Active \cup Terminal
  <2>1. (s # "completed" /\ run[r].status # "completed") \/ s = run[r].status
    BY DEF Active
  <2> HIDE DEF s
  <2> QED BY <1>0, <1>1, <1>2, <2>1, EndInv
<1>3. CASE s \notin Active \cup Terminal
  <2>1. run' = run
    BY <1>0, <1>1, <1>3 DEF Terminal, Row
  <2>2. ~ request[r].answered /\ (~ exists => ~ run[r].attached)
        /\ r \in Requests /\ "done" \in Pcs
    BY <1>0, Kinds DEF Inv, RowInv, Inside, GoneInv, Pcs
  <2>3. /\ request' \in [Requests -> Handler] /\ request'[r].pc = "done"
        /\ request'[r].answered = request[r].answered
        /\ \A q \in Requests : q # r => request'[q] = request[q]
    BY <1>0, <2>2, Goes DEF Inv
  <2> QED BY <1>0, <2>1, <2>2, <2>3, Plain
<1> QED BY <1>2, <1>3

\* A handler moves and nothing else changes.
LEMMA OnlyMoves ==
  ASSUME Inv, NEW p \in Requests, UNCHANGED <<db, locked, tx, starts>>,
         NEW pc \in {"lock", "detach", "done"}, Goto(p, pc),
         request[p].pc \in {"new", "made", "closing"},
         pc = "lock" => p \in Writers,
         request[p].pc = "closing" => pc = "done"
  PROVE  Inv'
<1>0. pc \in Pcs /\ run \in [Runs -> Row]
  BY Types DEF Pcs, Inv
<1>1. /\ request' \in [Requests -> Handler] /\ request'[p].pc = pc
      /\ request'[p].answered = request[p].answered
      /\ \A q \in Requests : q # p => request'[q] = request[q]
  BY <1>0, Goes DEF Inv
<1>2. UNCHANGED <<exists, message, run, locked, tx, starts>>
  BY DEF db
<1>3. ASSUME p \in Runs
      PROVE  /\ run[p].attached \/ exists \/ ~ run'[p].attached
             /\ ~ request'[p].answered \/ (request[p].pc = "closing" /\ request[p].answered)
  BY <1>1, <1>2, <1>3 DEF Inv, RowInv, Inside, GoneInv
<1> QED BY <1>0, <1>1, <1>2, <1>3, Plain

LEMMA MovesInv ==
  ASSUME Inv
  PROVE  /\ \A r \in Runs : Escape(r) \/ Close(r) => Inv'
         /\ \A w \in Writers : CheckTurn(w) => Inv'
         /\ \A d \in Deleters : CheckDelete(d) => Inv'
<1>1. ASSUME NEW r \in Runs, Escape(r) \/ Close(r) PROVE Inv'
  BY <1>1, Kinds, OnlyMoves DEF Escape, Close
<1>2. ASSUME NEW w \in Writers, CheckTurn(w) PROVE Inv'
  <2>1. w \in Requests /\ request[w].pc = "new" /\ UNCHANGED <<db, locked, tx, starts>>
        /\ (Goto(w, "lock") \/ Goto(w, "done"))
    BY <1>2, Kinds DEF CheckTurn
  <2> QED BY <2>1, OnlyMoves
<1>3. ASSUME NEW d \in Deleters, CheckDelete(d) PROVE Inv'
  <2>1. d \in Requests /\ request[d].pc = "new" /\ UNCHANGED <<db, locked, tx, starts>>
        /\ (Goto(d, "detach") \/ Goto(d, "done"))
    BY <1>3, Kinds DEF CheckDelete
  <2> QED BY <2>1, OnlyMoves
<1> QED BY <1>1, <1>2, <1>3

LEMMA EnsureInv ==
  ASSUME Inv, NEW r \in Runs, Ensure(r)
  PROVE  Inv'
<1> USE Kinds DEF Inv
<1>0. r \in Requests /\ request[r].pc = "new" /\ run[r].status = "none"
      /\ ~ request[r].answered /\ request \in [Requests -> Handler]
      /\ run \in [Runs -> Row] /\ exists' = TRUE
      /\ UNCHANGED <<message, locked, tx, starts>>
  BY Types DEF Ensure, RowInv, Inside
<1>1. PICK stream \in BOOLEAN :
        request' = [request EXCEPT ![r].stream = stream,
                                   ![r].pc = IF exists THEN "insert" ELSE "made"]
  BY DEF Ensure
<1>2. request' = [request EXCEPT ![r] = [request[r] EXCEPT !.stream = stream,
                                   !.pc = IF exists THEN "insert" ELSE "made"]]
  BY <1>0, <1>1
<1>3. /\ request' \in [Requests -> Handler]
      /\ request'[r].pc = IF exists THEN "insert" ELSE "made"
      /\ ~ request'[r].answered
      /\ \A q \in Requests : q # r => request'[q] = request[q]
  <2> DEFINE h == [request[r] EXCEPT !.stream = stream,
                                     !.pc = IF exists THEN "insert" ELSE "made"]
  <2>1. h.pc = (IF exists THEN "insert" ELSE "made") /\ h.answered = request[r].answered
    BY <1>0 DEF Handler
  <2>2. h \in Handler
    BY <1>0 DEF Handler, Pcs
  <2> HIDE DEF h
  <2>3. request' = [request EXCEPT ![r] = h]
    BY <1>2 DEF h
  <2> QED BY <1>0, <2>1, <2>2, <2>3
<1>4. /\ run' \in [Runs -> Row]
      /\ \A q \in Runs : q # r => run'[q] = run[q]
      /\ exists => run' = run
      /\ ~ exists => run'[r].status = "created" /\ run'[r].attached
  BY <1>0, RowMade DEF Ensure, NewRow
<1>5. TypeOK'
  <2>1. /\ exists' \in BOOLEAN /\ message' \in SUBSET Message
        /\ locked' \in Requests \cup {NoOne} /\ tx' \in [Requests -> Transaction]
        /\ starts' \in Nat
    BY <1>0, Types
  <2> QED BY <1>3, <1>4, <2>1 DEF TypeOK, Row, Transaction, Handler, Pcs
<1>6. RowInv'
  BY <1>0, <1>3, <1>4 DEF RowInv, Inside
<1>7. PlaceInv'
  BY <1>0, <1>3 DEF PlaceInv, Inside
<1>8. DenseInv'
  BY <1>0 DEF DenseInv, Dense, Pairs
<1>9. GoneInv'
  BY <1>0, <1>3, <1>4 DEF GoneInv
<1>10. OutcomeAndTurn'
  BY <1>0, <1>3, <1>4 DEF OutcomeAndTurn, GoneInv
<1> QED BY <1>5, <1>6, <1>7, <1>8, <1>9, <1>10

-----------------------------------------------------------------------------
(* A run's or a writer's transaction.                                      *)

LEMMA AnswerInv ==
  ASSUME Inv, NEW r \in Runs, Answer(r)
  PROVE  Inv'
<1> USE Kinds DEF Inv
<1>0. /\ r \in Requests /\ request[r].pc \in {"made", "streaming"} /\ run[r].status \in Active
      /\ request[r] \in Handler /\ request \in [Requests -> Handler] /\ tx[r] \in Transaction
      /\ tx \in [Requests -> Transaction] /\ tx[r].turn = {}
      /\ UNCHANGED <<exists, message, run, locked, starts>>
  BY Types DEF Answer, Asking, db, RowInv, PlaceInv, Active
<1>1. PICK status \in Completed :
        /\ tx' = [tx EXCEPT ![r].status = status]
        /\ request' = [request EXCEPT ![r].answered = TRUE,
                                      ![r].pc = IF status = "empty" THEN "commit" ELSE "lock"]
  BY DEF Answer
<1> DEFINE h == [request[r] EXCEPT !.answered = TRUE,
                                   !.pc = IF status = "empty" THEN "commit" ELSE "lock"]
           x == [tx[r] EXCEPT !.status = status]
<1>2. h \in Handler /\ h.pc = IF status = "empty" THEN "commit" ELSE "lock"
  BY <1>0 DEF Handler, Pcs
<1>3. x \in Transaction /\ x.status = status /\ x.turn = {} /\ x.detaches = tx[r].detaches
  BY <1>0, <1>1 DEF Transaction
<1>4. tx' = [tx EXCEPT ![r] = x] /\ request' = [request EXCEPT ![r] = h]
  BY <1>0, <1>1
<1> HIDE DEF h, x
<1>5. /\ request' \in [Requests -> Handler] /\ tx' \in [Requests -> Transaction]
      /\ request'[r] = h /\ tx'[r] = x
      /\ \A q \in Requests : q # r => request'[q] = request[q] /\ tx'[q] = tx[q]
  BY <1>0, <1>2, <1>3, <1>4
<1>6. status # "empty" => status = "completed"
  BY DEF Completed
<1>7. TypeOK'
  <2>1. /\ exists' \in BOOLEAN /\ message' \in SUBSET Message /\ run' \in [Runs -> Row]
        /\ locked' \in Requests \cup {NoOne} /\ starts' \in Nat
    BY <1>0, Types
  <2> QED BY <1>5, <2>1 DEF TypeOK, Row, Transaction, Handler, Pcs
<1>8. RowInv'
  BY <1>0, <1>2, <1>3, <1>5, <1>6 DEF RowInv, Inside
<1>9. PlaceInv'
  BY <1>0, <1>2, <1>3, <1>5 DEF PlaceInv, Inside
<1>10. DenseInv'
  BY <1>0 DEF DenseInv, Dense, Pairs
<1>11. GoneInv'
  BY <1>0, <1>2, <1>3, <1>5 DEF GoneInv
<1>12. OutcomeAndTurn'
  BY <1>0, <1>2, <1>5 DEF OutcomeAndTurn
<1> QED BY <1>7, <1>8, <1>9, <1>10, <1>11, <1>12

LEMMA DisconnectInv ==
  ASSUME Inv, NEW r \in Runs, Disconnect(r)
  PROVE  Inv'
<1> USE Kinds DEF Inv
<1>0. /\ r \in Requests /\ UNCHANGED <<exists, message, run, starts>>
      /\ request[r] \in Handler /\ request \in [Requests -> Handler]
      /\ request' = [request EXCEPT ![r].pc = "cleanup", ![r].answered = FALSE]
      /\ tx' = [tx EXCEPT ![r] = NoTx]
      /\ locked' = IF locked = r THEN NoOne ELSE locked
  BY Types DEF Disconnect, db
<1> DEFINE h == [request[r] EXCEPT !.pc = "cleanup", !.answered = FALSE]
<1>1. h \in Handler /\ h.pc = "cleanup" /\ ~ h.answered
  BY <1>0 DEF Handler, Pcs
<1>2. request' = [request EXCEPT ![r] = h]
  BY <1>0
<1> HIDE DEF h
<1>3. /\ request' \in [Requests -> Handler] /\ request'[r] = h
      /\ \A q \in Requests : q # r => request'[q] = request[q]
  BY <1>0, <1>1, <1>2
<1>4. /\ tx' \in [Requests -> Transaction] /\ tx'[r].turn = {}
      /\ \A q \in Requests : q # r => tx'[q] = tx[q]
  BY <1>0, RolledBack, NoTxTyped
<1>5. TypeOK'
  <2>1. /\ exists' \in BOOLEAN /\ message' \in SUBSET Message /\ run' \in [Runs -> Row]
        /\ locked' \in Requests \cup {NoOne} /\ starts' \in Nat
    BY <1>0, Types
  <2> QED BY <1>3, <1>4, <2>1 DEF TypeOK, Row, Transaction, Handler, Pcs
<1>6. RowInv'
  BY <1>0, <1>1, <1>3, <1>4 DEF RowInv, Inside
<1>7. PlaceInv'
  BY <1>0, <1>1, <1>3, <1>4 DEF PlaceInv, Inside
<1>8. DenseInv'
  BY <1>0 DEF DenseInv, Dense, Pairs
<1>9. GoneInv'
  BY <1>0, <1>1, <1>3, <1>4 DEF GoneInv
<1>10. OutcomeAndTurn'
  BY <1>0, <1>1, <1>3 DEF OutcomeAndTurn
<1> QED BY <1>5, <1>6, <1>7, <1>8, <1>9, <1>10

LEMMA LockInv ==
  ASSUME Inv, NEW p \in Runs \cup Writers, Lock(p)
  PROVE  Inv'
<1> USE Kinds DEF Inv
<1>0. /\ p \in Requests /\ UNCHANGED <<exists, message, run, tx, starts>>
      /\ request[p].pc = "lock" /\ locked = NoOne /\ tx[p].turn = {}
      /\ "place" \in Pcs /\ "commit" \in Pcs
  BY DEF Lock, db, PlaceInv, Pcs
<1>1. \/ exists /\ locked' = p /\ Goto(p, "place")
      \/ ~ exists /\ locked' = locked /\ Goto(p, "commit")
  <2>1. CASE exists
    BY <2>1 DEF Lock, Goto
  <2>2. CASE ~ exists
    BY <2>2 DEF Lock, Goto
  <2> QED BY <2>1, <2>2
<1>2. /\ request' \in [Requests -> Handler]
      /\ request'[p].pc = IF exists THEN "place" ELSE "commit"
      /\ request'[p].answered = request[p].answered
      /\ \A q \in Requests : q # p => request'[q] = request[q]
  BY <1>0, <1>1, Goes
<1>3. \A q \in Requests : request[q].pc # "place" /\ tx[q].turn = {}
  BY <1>0 DEF PlaceInv
<1>4. TypeOK'
  <2>1. /\ exists' \in BOOLEAN /\ message' \in SUBSET Message /\ run' \in [Runs -> Row]
        /\ locked' \in Requests \cup {NoOne} /\ starts' \in Nat
        /\ tx' \in [Requests -> Transaction]
    BY <1>0, <1>1, Types
  <2> QED BY <1>2, <2>1 DEF TypeOK, Row, Transaction, Handler, Pcs
<1>5. RowInv'
  BY <1>0, <1>2 DEF RowInv, Inside
<1>6. PlaceInv'
  BY <1>0, <1>1, <1>2, <1>3 DEF PlaceInv, Inside
<1>7. DenseInv'
  BY <1>0 DEF DenseInv, Dense, Pairs
<1>8. GoneInv'
  BY <1>0, <1>2 DEF GoneInv
<1>9. OutcomeAndTurn'
  BY <1>0, <1>2 DEF OutcomeAndTurn
<1> QED BY <1>4, <1>5, <1>6, <1>7, <1>8, <1>9

\* The position after the last one is the number of messages.
LEMMA NextPosition ==
  ASSUME DenseInv
  PROVE  /\ Cardinality(message) \in Nat
         /\ (IF message = {} THEN 0 ELSE Max({m.position : m \in message}) + 1)
              = Cardinality(message)
<1> DEFINE n == Cardinality(message)
<1>1. n \in Nat /\ (n = 0 <=> message = {}) /\ {m.position : m \in message} = 0..n - 1
  BY FS_CardinalityType, FS_EmptySet DEF DenseInv, Dense
<1> HIDE DEF n
<1>2. ASSUME n # 0 PROVE Max(0..n - 1) = n - 1
  <2>1. n - 1 \in 0..n - 1 /\ \A y \in 0..n - 1 : n - 1 >= y
    BY <1>1, <1>2
  <2>2. \A x \in 0..n - 1 : (\A y \in 0..n - 1 : x >= y) => x = n - 1
    BY <1>1, <2>1
  <2>3. ASSUME NEW S, NEW x \in S, \A y \in S : x >= y,
               \A z \in S : (\A y \in S : z >= y) => z = x
        PROVE  Max(S) = x
    BY <2>3 DEF Max
  <2> QED BY <2>1, <2>2, <2>3
<1>3. CASE n = 0
  BY <1>1, <1>3 DEF n
<1>4. CASE n # 0
  <2> DEFINE positions == {m.position : m \in message}
  <2>1. positions = 0..n - 1
    BY <1>1
  <2> HIDE DEF positions
  <2>2. Max(positions) = n - 1
    BY <1>2, <1>4, <2>1
  <2>3. Max(positions) + 1 = n
    BY <1>1, <2>2
  <2> QED BY <1>1, <1>4, <2>3 DEF n, positions
<1> QED BY <1>3, <1>4

LEMMA PlaceStepInv ==
  ASSUME Inv, NEW p \in Runs \cup Writers, Place(p)
  PROVE  Inv'
<1> USE Kinds DEF Inv
<1>0. /\ p \in Requests /\ UNCHANGED <<exists, message, run, locked, starts>>
      /\ request[p].pc = "place" /\ locked = p /\ exists /\ tx[p] \in Transaction
      /\ tx \in [Requests -> Transaction] /\ "commit" \in Pcs /\ Goto(p, "commit")
  BY Types DEF Place, db, PlaceInv, Pcs
<1>1. Cardinality(message) \in Nat
      /\ tx' = [tx EXCEPT ![p].turn = Turn(p, Cardinality(message))]
  BY NextPosition DEF Place, Turn
<1> DEFINE t == Turn(p, Cardinality(message))
           x == [tx[p] EXCEPT !.turn = t]
<1>2. t \in SUBSET Message /\ t # {}
  BY <1>1 DEF Turn, Message
<1> HIDE DEF t
<1>3. x \in Transaction /\ x.turn = t /\ x.status = tx[p].status
  BY <1>0, <1>2 DEF Transaction
<1>4. tx' = [tx EXCEPT ![p] = x]
  BY <1>0, <1>1 DEF t
<1> HIDE DEF x
<1>5. /\ tx' \in [Requests -> Transaction] /\ tx'[p] = x
      /\ \A q \in Requests : q # p => tx'[q] = tx[q]
  BY <1>0, <1>3, <1>4
<1>6. /\ request' \in [Requests -> Handler] /\ request'[p].pc = "commit"
      /\ request'[p].answered = request[p].answered
      /\ \A q \in Requests : q # p => request'[q] = request[q]
  BY <1>0, Goes
<1>7. TypeOK'
  <2>1. /\ exists' \in BOOLEAN /\ message' \in SUBSET Message /\ run' \in [Runs -> Row]
        /\ locked' \in Requests \cup {NoOne} /\ starts' \in Nat
    BY <1>0, Types
  <2> QED BY <1>5, <1>6, <2>1 DEF TypeOK, Row, Transaction, Handler, Pcs
<1>8. RowInv'
  BY <1>0, <1>3, <1>5, <1>6 DEF RowInv, Inside
<1>9. PlaceInv'
  <2>1. p \in Runs => tx'[p].status = "completed"
    BY <1>0, <1>3, <1>5 DEF RowInv
  <2>2. tx'[p].turn = Turn(p, Cardinality(message))
    BY <1>3, <1>5 DEF t
  <2> QED BY <1>0, <1>5, <1>6, <2>1, <2>2 DEF PlaceInv, Inside
<1>10. DenseInv'
  BY <1>0 DEF DenseInv, Dense, Pairs
<1>11. GoneInv'
  BY <1>0, <1>2, <1>3, <1>5, <1>6 DEF GoneInv
<1>12. OutcomeAndTurn'
  BY <1>0, <1>6 DEF OutcomeAndTurn
<1> QED BY <1>7, <1>8, <1>9, <1>10, <1>11, <1>12

\* A turn is appended: the positions stay dense and the turns whole.
LEMMA TurnAppended ==
  ASSUME DenseInv, NEW p, message' = message \cup Turn(p, Cardinality(message))
  PROVE  DenseInv' /\ Cardinality(message') = Cardinality(message) + 2
<1> DEFINE n == Cardinality(message)
           u == [by |-> p, role |-> "user", position |-> n]
           a == [by |-> p, role |-> "assistant", position |-> n + 1]
<1>1. n \in Nat /\ IsFiniteSet(message) /\ {m.position : m \in message} = 0..n - 1
  BY FS_CardinalityType DEF DenseInv, Dense
<1>2. /\ u.by = p /\ u.role = "user" /\ u.position = n
      /\ a.by = p /\ a.role = "assistant" /\ a.position = n + 1
  OBVIOUS
<1>3. message' = (message \cup {u}) \cup {a}
  BY DEF Turn
<1> HIDE DEF n, u, a
<1>4. \A m \in message : m.position \in 0..n - 1
  BY <1>1
<1>5. u \notin message /\ a \notin message /\ a # u
  BY <1>1, <1>2, <1>4
<1>6. IsFiniteSet(message \cup {u}) /\ Cardinality(message \cup {u}) = n + 1
  BY <1>1, <1>5, FS_AddElement DEF n
<1>7. IsFiniteSet(message') /\ Cardinality(message') = n + 2
  <2>1. a \notin message \cup {u}
    BY <1>5
  <2>2. /\ IsFiniteSet((message \cup {u}) \cup {a})
        /\ Cardinality((message \cup {u}) \cup {a}) = Cardinality(message \cup {u}) + 1
    BY <1>6, <2>1, FS_AddElement
  <2>3. (n + 1) + 1 = n + 2
    BY <1>1
  <2> QED BY <1>3, <1>6, <2>2, <2>3
<1>8. {m.position : m \in message'} = 0..(n + 2) - 1
  <2>1. {m.position : m \in message'} = {m.position : m \in message} \cup {n, n + 1}
    BY <1>2, <1>3
  <2> QED BY <1>1, <2>1
<1>9. Pairs'
  <2>1. \A m \in message : m.role = "user" =>
          \E k \in message : k.by = m.by /\ k.role = "assistant" /\ k.position = m.position + 1
    BY DEF DenseInv, Pairs
  <2> QED BY <1>2, <1>3, <2>1 DEF Pairs
<1> QED BY <1>7, <1>8, <1>9 DEF DenseInv, Dense, n

LEMMA CommitInv ==
  ASSUME Inv, NEW p \in Runs \cup Writers, Commit(p)
  PROVE  Inv'
<1> USE Kinds DEF Inv
<1>0. /\ p \in Requests /\ UNCHANGED <<exists, starts>> /\ request[p].pc = "commit"
      /\ message' = message \cup tx[p].turn
      /\ tx' = [tx EXCEPT ![p] = NoTx]
      /\ locked' = IF locked = p THEN NoOne ELSE locked
      /\ tx \in [Requests -> Transaction] /\ tx[p] \in Transaction
      /\ run \in [Runs -> Row] /\ message \in SUBSET Message
      /\ Goto(p, "closing") \/ Goto(p, "done")
  BY Types DEF Commit
<1>1. /\ \A r \in Runs : r # p => run'[r] = run[r]
      /\ run' \in [Runs -> Row]
      /\ p \in Runs => /\ run'[p].status = tx[p].status /\ tx[p].status \in Completed
                       /\ run'[p].attached = run[p].attached
  <2>1. CASE p \in Runs
    <3>1. tx[p].status \in Completed /\ tx[p].status \in Active \cup Terminal
      BY <1>0, <2>1 DEF RowInv, Inside, Terminal
    <3>2. run' = [run EXCEPT ![p].status = tx[p].status]
      BY <2>1 DEF Commit
    <3> QED BY <2>1, <3>1, <3>2, RowWritten
  <2>2. CASE p \notin Runs
    <3>1. run' = run
      BY <2>2 DEF Commit
    <3> QED BY <1>0, <2>2, <3>1
  <2> QED BY <2>1, <2>2
<1>2. /\ request' \in [Requests -> Handler] /\ request'[p].pc \in {"closing", "done"}
      /\ request'[p].answered = request[p].answered
      /\ \A q \in Requests : q # p => request'[q] = request[q]
  <2>1. "closing" \in Pcs /\ "done" \in Pcs
    BY DEF Pcs
  <2> QED BY <1>0, <2>1, Goes
<1>3. /\ tx' \in [Requests -> Transaction] /\ tx'[p].turn = {}
      /\ \A q \in Requests : q # p => tx'[q] = tx[q]
  BY <1>0, RolledBack, NoTxTyped
<1>4. tx[p].turn # {} => /\ locked = p /\ exists /\ tx[p].turn = Turn(p, Cardinality(message))
                         /\ \A q \in Requests : q # p => tx[q].turn = {}
  BY <1>0 DEF PlaceInv
<1>5. TypeOK'
  <2>1. /\ exists' \in BOOLEAN /\ locked' \in Requests \cup {NoOne} /\ starts' \in Nat
    BY <1>0, Types
  <2>2. message' \in SUBSET Message
    BY <1>0 DEF Transaction
  <2> QED BY <1>1, <1>2, <1>3, <2>1, <2>2 DEF TypeOK, Row, Transaction, Handler, Pcs
<1>6. RowInv'
  BY <1>1, <1>2, <1>3 DEF RowInv, Inside
<1>7. PlaceInv'
  <2>1. CASE tx[p].turn = {}
    <3>1. message' = message
      BY <1>0, <2>1
    <3>2. ASSUME NEW q \in Requests, q # p
          PROVE  PlaceInv!(q)'
      <4>1. /\ request'[q] = request[q] /\ tx'[q] = tx[q] /\ exists' = exists
            /\ Cardinality(message') = Cardinality(message)
            /\ locked = q => locked' = q
        BY <1>0, <1>2, <1>3, <3>1, <3>2
      <4>2. PlaceInv!(q)
        BY DEF PlaceInv
      <4> QED BY <4>1, <4>2 DEF Inside, Turn
    <3>3. PlaceInv!(p)'
      BY <1>2, <1>3 DEF Inside
    <3> QED BY <3>2, <3>3 DEF PlaceInv
  <2>2. CASE tx[p].turn # {}
    <3>1. ASSUME NEW q \in Requests, q # p
          PROVE  PlaceInv!(q)'
      <4>1. request'[q] = request[q] /\ tx'[q].turn = {}
        BY <1>2, <1>3, <1>4, <2>2, <3>1
      <4>2. request[q].pc # "place"
        BY <1>4, <2>2, <3>1 DEF PlaceInv
      <4>3. request[q].pc \in Inside => q \in Runs \cup Writers
        BY DEF PlaceInv
      <4> QED BY <4>1, <4>2, <4>3 DEF Inside
    <3>2. PlaceInv!(p)'
      BY <1>2, <1>3 DEF Inside
    <3> QED BY <3>1, <3>2 DEF PlaceInv
  <2> QED BY <2>1, <2>2
<1>8. DenseInv'
  <2>1. CASE tx[p].turn = {}
    <3>1. message' = message
      BY <1>0, <2>1
    <3> QED BY <3>1 DEF DenseInv, Dense, Pairs
  <2>2. CASE tx[p].turn # {}
    BY <1>0, <1>4, <2>2, TurnAppended
  <2> QED BY <2>1, <2>2
<1>9. GoneInv'
  <2>1. ~ exists' => message' = {} /\ \A r \in Runs : ~ run'[r].attached
    BY <1>0, <1>1, <1>4 DEF GoneInv
  <2>2. \A r \in Runs : request'[r].pc = "commit" /\ tx'[r].status = "completed"
                          /\ tx'[r].turn = {} => ~ run'[r].attached
    BY <1>1, <1>2, <1>3 DEF GoneInv
  <2> QED BY <2>1, <2>2 DEF GoneInv
<1>10. OutcomeAndTurn'
  <2> SUFFICES ASSUME NEW r \in Runs
      PROVE  /\ (\E m \in message' : m.by = r) => run'[r].status = "completed"
             /\ run'[r].status = "completed" /\ run'[r].attached => \E m \in message' : m.by = r
             /\ request'[r].answered /\ request'[r].pc \in {"closing", "done"}
                  => run'[r].status \in Completed
    BY DEF OutcomeAndTurn
  <2>1. \A m \in tx[p].turn : m.by = p
    BY <1>4 DEF Turn
  <2>2. CASE r # p
    BY <1>0, <1>1, <1>2, <2>1, <2>2 DEF OutcomeAndTurn
  <2>3. CASE r = p
    <3>1. run[r].status \in Active
      BY <1>0, <2>3 DEF RowInv, Inside
    <3>2. \A m \in message : m.by # r
      BY <3>1 DEF OutcomeAndTurn, Active
    <3>3. (\E m \in message' : m.by = r) => tx[p].turn # {}
      BY <1>0, <3>2
    <3>4. tx[p].turn # {} => (\E m \in message' : m.by = r) /\ tx[p].status = "completed"
      <4>1. tx[p].turn # {} => tx[p].status # "empty"
        BY <1>0, <2>3 DEF PlaceInv
      <4>2. tx[p].turn # {} => \E m \in message' : m.by = r
        BY <1>0, <2>1, <2>3
      <4> QED BY <1>1, <2>3, <4>1, <4>2 DEF Completed
    <3>5. tx[p].turn = {} /\ tx[p].status = "completed" => ~ run[r].attached
      BY <1>0, <2>3 DEF GoneInv
    <3> QED BY <1>1, <2>3, <3>3, <3>4, <3>5
  <2> QED BY <2>2, <2>3
<1> QED BY <1>5, <1>6, <1>7, <1>8, <1>9, <1>10

-----------------------------------------------------------------------------
(* A deletion, and a restart.                                              *)

\* A deletion goes on, with no effect on the rows yet.
LEMMA DeletionGoes ==
  ASSUME Inv, NEW d \in Deleters, UNCHANGED <<db, locked, starts>>,
         NEW pc \in {"clear", "drop"}, Goto(d, pc),
         tx' \in [Requests -> Transaction], tx'[d].turn = tx[d].turn,
         \A q \in Requests : q # d => tx'[q] = tx[q]
  PROVE  Inv'
<1> USE Kinds DEF Inv
<1>0. d \in Requests /\ d \notin Runs \cup Writers /\ pc \in Pcs
      /\ UNCHANGED <<exists, message, run, locked, starts>>
  BY DEF db, Pcs
<1>1. /\ request' \in [Requests -> Handler] /\ request'[d].pc = pc
      /\ \A q \in Requests : q # d => request'[q] = request[q]
  BY <1>0, Goes
<1>2. tx[d].turn = {}
  BY <1>0 DEF PlaceInv, Inside
<1>3. TypeOK'
  <2>1. /\ exists' \in BOOLEAN /\ message' \in SUBSET Message /\ run' \in [Runs -> Row]
        /\ locked' \in Requests \cup {NoOne} /\ starts' \in Nat
    BY <1>0, Types
  <2> QED BY <1>1, <2>1 DEF TypeOK, Row, Transaction, Handler, Pcs
<1>4. RowInv'
  BY <1>0, <1>1 DEF RowInv, Inside
<1>5. PlaceInv'
  BY <1>0, <1>1, <1>2 DEF PlaceInv, Inside
<1>6. DenseInv'
  BY <1>0 DEF DenseInv, Dense, Pairs
<1>7. GoneInv'
  BY <1>0, <1>1 DEF GoneInv
<1>8. OutcomeAndTurn'
  BY <1>0, <1>1 DEF OutcomeAndTurn
<1> QED BY <1>3, <1>4, <1>5, <1>6, <1>7, <1>8

LEMMA DetachClearInv ==
  ASSUME Inv, NEW d \in Deleters, Detach(d) \/ Clear(d)
  PROVE  Inv'
<1>0. d \in Requests /\ tx \in [Requests -> Transaction] /\ tx[d] \in Transaction
      /\ message \in SUBSET Message
  BY Kinds, Types DEF Inv
<1>1. CASE Detach(d)
  <2> DEFINE x == [tx[d] EXCEPT !.detaches = Attached]
  <2>1. x \in Transaction /\ x.turn = tx[d].turn
    BY <1>0 DEF Transaction, Attached
  <2>2. tx' = [tx EXCEPT ![d] = x] /\ UNCHANGED <<db, locked, starts>> /\ Goto(d, "clear")
    BY <1>0, <1>1 DEF Detach
  <2> HIDE DEF x
  <2>3. /\ tx' \in [Requests -> Transaction] /\ tx'[d].turn = tx[d].turn
        /\ \A q \in Requests : q # d => tx'[q] = tx[q]
    BY <1>0, <2>1, <2>2
  <2> QED BY <2>2, <2>3, DeletionGoes
<1>2. CASE Clear(d)
  <2> DEFINE x == [tx[d] EXCEPT !.drops = message]
  <2>1. x \in Transaction /\ x.turn = tx[d].turn
    BY <1>0 DEF Transaction
  <2>2. tx' = [tx EXCEPT ![d] = x] /\ UNCHANGED <<db, locked, starts>> /\ Goto(d, "drop")
    BY <1>0, <1>2 DEF Clear
  <2> HIDE DEF x
  <2>3. /\ tx' \in [Requests -> Transaction] /\ tx'[d].turn = tx[d].turn
        /\ \A q \in Requests : q # d => tx'[q] = tx[q]
    BY <1>0, <2>1, <2>2
  <2> QED BY <2>2, <2>3, DeletionGoes
<1> QED BY <1>1, <1>2

LEMMA DropInv ==
  ASSUME Inv, NEW d \in Deleters, Drop(d)
  PROVE  Inv'
<1> USE Kinds DEF Inv
<1>0. /\ d \in Requests /\ d \notin Runs \cup Writers /\ "done" \in Pcs
      /\ request[d].pc = "drop" /\ locked \in {NoOne, d} /\ locked' = NoOne
      /\ tx' = [tx EXCEPT ![d] = NoTx] /\ Goto(d, "done") /\ UNCHANGED starts
      /\ run \in [Runs -> Row] /\ message \in SUBSET Message
  BY Types DEF Drop, Pcs
<1>1. /\ request' \in [Requests -> Handler] /\ request'[d].pc = "done"
      /\ \A q \in Requests : q # d => request'[q] = request[q]
  BY <1>0, Goes
<1>2. /\ tx' \in [Requests -> Transaction] /\ tx'[d].turn = {}
      /\ \A q \in Requests : q # d => tx'[q] = tx[q]
  BY <1>0, RolledBack, NoTxTyped
<1>3. \A q \in Requests : request[q].pc # "place" /\ tx[q].turn = {}
  BY <1>0 DEF PlaceInv, Inside
<1>4. \/ UNCHANGED <<exists, message, run>>
      \/ /\ exists' = FALSE /\ message' = {}
         /\ run' \in [Runs -> Row]
         /\ \A r \in Runs : run'[r].status = run[r].status /\ ~ run'[r].attached
  <2>1. CASE ~ (Attached \subseteq tx[d].detaches /\ message \subseteq tx[d].drops)
    BY <2>1 DEF Drop, db
  <2>2. CASE Attached \subseteq tx[d].detaches /\ message \subseteq tx[d].drops
    <3>1. /\ exists' = FALSE /\ message' = message \ tx[d].drops
          /\ run' = [r \in Runs |-> [run[r] EXCEPT !.attached = @ /\ r \notin tx[d].detaches]]
      BY <2>2 DEF Drop
    <3>2. message' = {}
      BY <2>2, <3>1
    <3>3. \A r \in Runs : ~ (run[r].attached /\ r \notin tx[d].detaches)
      BY <2>2 DEF Attached
    <3>4. ASSUME NEW r \in Runs
          PROVE  run'[r] \in Row /\ run'[r].status = run[r].status /\ ~ run'[r].attached
      <4>1. run'[r] = [run[r] EXCEPT !.attached = run[r].attached /\ r \notin tx[d].detaches]
        BY <3>1
      <4>2. run[r] \in Row /\ (run[r].attached /\ r \notin tx[d].detaches) = FALSE
        BY <1>0, <3>3
      <4> QED BY <4>1, <4>2 DEF Row
    <3>5. run' \in [Runs -> Row]
      BY <3>1, <3>4
    <3> QED BY <3>1, <3>2, <3>4, <3>5
  <2> QED BY <2>1, <2>2
<1>5. TypeOK'
  <2>1. exists' \in BOOLEAN /\ message' \in SUBSET Message /\ run' \in [Runs -> Row]
    BY <1>0, <1>4, Types
  <2>2. starts' \in Nat /\ locked' \in Requests \cup {NoOne}
    BY <1>0, Types
  <2> QED BY <1>1, <1>2, <2>1, <2>2 DEF TypeOK, Row, Transaction, Handler, Pcs
<1>6. RowInv'
  BY <1>0, <1>1, <1>2, <1>4 DEF RowInv, Inside
<1>7. PlaceInv'
  BY <1>0, <1>1, <1>2, <1>3 DEF PlaceInv, Inside
<1>8. DenseInv'
  <2>1. CASE message' = message
    BY <2>1 DEF DenseInv, Dense, Pairs
  <2>2. CASE message' = {}
    <3>1. IsFiniteSet({}) /\ Cardinality({}) = 0 /\ 0..0 - 1 = {}
      BY FS_EmptySet
    <3>2. {m.position : m \in {}} = {}
      OBVIOUS
    <3> QED BY <2>2, <3>1, <3>2 DEF DenseInv, Dense, Pairs
  <2> QED BY <1>4, <2>1, <2>2
<1>9. GoneInv'
  BY <1>0, <1>1, <1>2, <1>4 DEF GoneInv
<1>10. OutcomeAndTurn'
  <2>1. CASE UNCHANGED <<exists, message, run>>
    BY <1>0, <1>1, <2>1 DEF OutcomeAndTurn
  <2>2. CASE ~ UNCHANGED <<exists, message, run>>
    BY <1>0, <1>1, <1>4, <2>2 DEF OutcomeAndTurn
  <2> QED BY <2>1, <2>2
<1> QED BY <1>5, <1>6, <1>7, <1>8, <1>9, <1>10

LEMMA RestartInv ==
  ASSUME Inv, Restart
  PROVE  Inv'
<1> USE Kinds DEF Inv
<1>0. /\ UNCHANGED <<exists, message>> /\ locked' = NoOne /\ starts \in Nat
      /\ starts' = starts + 1 /\ tx' = [p \in Requests |-> NoTx]
      /\ run \in [Runs -> Row] /\ request \in [Requests -> Handler]
      /\ exists \in BOOLEAN /\ message \in SUBSET Message
  BY Types DEF Restart
<1>1. \A r \in Runs : run'[r] = IF run[r].status \in Active
                                THEN [run[r] EXCEPT !.status = "failed"] ELSE run[r]
  BY DEF Restart
<1>2. /\ run' \in [Runs -> Row]
      /\ \A r \in Runs : /\ run'[r].attached = run[r].attached
                         /\ run[r].status \in Active => run'[r].status = "failed"
                         /\ run[r].status \notin Active => run'[r].status = run[r].status
  <2>1. \A r \in Runs : [run[r] EXCEPT !.status = "failed"] \in Row
                        /\ [run[r] EXCEPT !.status = "failed"].status = "failed"
                        /\ [run[r] EXCEPT !.status = "failed"].attached = run[r].attached
    BY <1>0 DEF Row, Terminal
  <2>2. run' = [r \in Runs |-> run'[r]]
    BY DEF Restart
  <2> QED BY <1>0, <1>1, <2>1, <2>2
<1>3. \A p \in Requests :
        /\ request'[p] \in Handler
        /\ request[p].pc = "new" => request'[p] = request[p]
        /\ request[p].pc # "new" => request'[p].pc = "done" /\ ~ request'[p].answered
  <2>1. \A p \in Requests :
          request'[p] = IF request[p].pc = "new" THEN request[p]
                        ELSE [request[p] EXCEPT !.pc = "done", !.answered = FALSE]
    BY DEF Restart
  <2>2. \A p \in Requests :
          LET h == [request[p] EXCEPT !.pc = "done", !.answered = FALSE]
          IN h \in Handler /\ h.pc = "done" /\ ~ h.answered
    BY <1>0 DEF Handler, Pcs
  <2> QED BY <1>0, <2>1, <2>2
<1>4. request' \in [Requests -> Handler] /\ tx' \in [Requests -> Transaction]
  <2>1. request' = [p \in Requests |-> request'[p]]
    BY DEF Restart
  <2> QED BY <1>0, <1>3, <2>1, NoTxTyped
<1>5. \A p \in Requests : tx'[p].turn = {}
  BY <1>0, NoTxTyped
<1>6. TypeOK'
  <2>1. starts' \in Nat
    BY <1>0
  <2> QED BY <1>0, <1>2, <1>4, <2>1 DEF TypeOK, Row, Transaction, Handler, Pcs
<1>7. RowInv'
  BY <1>2, <1>3 DEF RowInv, Inside, Active
<1>8. PlaceInv'
  BY <1>3, <1>5 DEF PlaceInv, Inside
<1>9. DenseInv'
  BY <1>0 DEF DenseInv, Dense, Pairs
<1>10. GoneInv'
  BY <1>0, <1>2, <1>3 DEF GoneInv
<1>11. OutcomeAndTurn'
  BY <1>0, <1>2, <1>3 DEF OutcomeAndTurn, Active, RowInv, Inside
<1> QED BY <1>6, <1>7, <1>8, <1>9, <1>10, <1>11

-----------------------------------------------------------------------------
(* The theorems.                                                           *)

LEMMA InitInv == Init => Inv
<1> SUFFICES ASSUME Init PROVE Inv
  OBVIOUS
<1>0. /\ exists \in BOOLEAN /\ message = {} /\ locked = NoOne /\ starts = 1
      /\ run = [r \in Runs |-> NoRow] /\ tx = [p \in Requests |-> NoTx]
      /\ request = [p \in Requests |-> [pc |-> "new", stream |-> FALSE, answered |-> FALSE]]
  BY DEF Init
<1>1. \A p \in Requests : request[p] \in Handler /\ request[p].pc = "new" /\ ~ request[p].answered
  BY <1>0 DEF Handler, Pcs
<1>2. \A r \in Runs : run[r] \in Row /\ run[r].status = "none" /\ ~ run[r].attached
  BY <1>0 DEF NoRow, Row
<1>3. \A p \in Requests : tx[p] \in Transaction /\ tx[p].turn = {}
  BY <1>0, NoTxTyped
<1>4. TypeOK
  <2>1. run \in [Runs -> Row] /\ tx \in [Requests -> Transaction]
        /\ request \in [Requests -> Handler]
    BY <1>0, <1>1, <1>2, <1>3
  <2>2. message \in SUBSET Message /\ locked \in Requests \cup {NoOne} /\ starts \in Nat
    BY <1>0
  <2> QED BY <1>0, <2>1, <2>2, Types
<1>5. RowInv /\ PlaceInv /\ GoneInv /\ OutcomeAndTurn
  BY <1>0, <1>1, <1>2, <1>3, Kinds DEF RowInv, PlaceInv, GoneInv, OutcomeAndTurn, Inside
<1>6. DenseInv
  <2>1. IsFiniteSet({}) /\ Cardinality({}) = 0 /\ 0..0 - 1 = {}
    BY FS_EmptySet
  <2>2. {m.position : m \in {}} = {}
    OBVIOUS
  <2> QED BY <1>0, <2>1, <2>2 DEF DenseInv, Dense, Pairs
<1> QED BY <1>4, <1>5, <1>6 DEF Inv

LEMMA StutterInv == Inv /\ UNCHANGED vars => Inv'
<1> SUFFICES ASSUME Inv, UNCHANGED vars PROVE Inv'
  OBVIOUS
<1>1. UNCHANGED <<exists, message, run, locked, tx, request, starts>>
  BY DEF vars
<1>2. TypeOK' /\ RowInv' /\ OutcomeAndTurn'
  BY <1>1 DEF Inv, TypeOK, RowInv, OutcomeAndTurn
<1>3. PlaceInv' /\ DenseInv' /\ GoneInv'
  BY <1>1 DEF Inv, PlaceInv, DenseInv, Dense, Pairs, GoneInv
<1> QED BY <1>2, <1>3 DEF Inv

LEMMA NextInv == Inv /\ [Next]_vars => Inv'
<1> SUFFICES ASSUME Inv, [Next]_vars PROVE Inv'
  OBVIOUS
<1>1. CASE UNCHANGED vars
  BY <1>1, StutterInv
<1>2. CASE Arrive
  BY <1>2, EnsureInv, MovesInv DEF Arrive
<1>3. CASE Step
  <2>1. ASSUME NEW r \in Runs,
               Insert(r) \/ Stream(r) \/ Answer(r) \/ Fail(r) \/ Cleanup(r) \/ Close(r)
        PROVE  Inv'
    BY <2>1, InsertInv, StreamInv, AnswerInv, FailInv, CleanupInv, MovesInv
  <2>2. ASSUME NEW p \in Runs \cup Writers, Lock(p) \/ Place(p) \/ Commit(p) PROVE Inv'
    BY <2>2, LockInv, PlaceStepInv, CommitInv
  <2>3. ASSUME NEW d \in Deleters, Detach(d) \/ Clear(d) \/ Drop(d) PROVE Inv'
    BY <2>3, DetachClearInv, DropInv
  <2> QED BY <1>3, <2>1, <2>2, <2>3 DEF Step
<1>4. CASE Mishap
  BY <1>4, MovesInv, DisconnectInv, RestartInv DEF Mishap
<1> QED BY <1>1, <1>2, <1>3, <1>4 DEF Next

\* What NextInv keeps is true from the start.
LEMMA Invariance == Spec => []Inv
BY InitInv, NextInv, PTL DEF Spec

\* Types: the rows, the open transactions and the handlers are always in the states
\* RunStore declares (store.py, app.py).
THEOREM TypeCorrect == Spec => []TypeOK
<1>1. Inv => TypeOK
  BY DEF Inv
<1> QED BY <1>1, Invariance, PTL

\* The positions of a session's messages are dense and every turn is whole, however
\* many runs and clients append and delete at once: append_turn reads the last
\* position under the lock of the session's row (store.py:577).
THEOREM Whole == Spec => []TurnsWhole
<1>1. Inv => TurnsWhole
  BY DEF Inv, DenseInv, Dense, Pairs, TurnsWhole
<1> QED BY <1>1, Invariance, PTL

\* A run's outcome and its turn agree, through deletions, disconnects and restarts:
\* both are written by one transaction (app.py:1571-1588, 1685-1694).
THEOREM Agree == Spec => []OutcomeAndTurn
<1>1. Inv => OutcomeAndTurn
  BY DEF Inv
<1> QED BY <1>1, Invariance, PTL

\* A run that has ended keeps its outcome (fail_if_active, store.py:426; the sweep,
\* store.py:469): neither the
\* late cancellation of a stream nor the sweep of a restart changes it.
THEOREM EndedKept == Spec => EndedStays
<1> DEFINE Stays == \A r \in Runs : run[r].status \in Terminal => run'[r].status = run[r].status
<1>1. Inv /\ [Next]_vars => [Stays]_vars
  <2> SUFFICES ASSUME Inv, Next, NEW r \in Runs, run[r].status \in Terminal
               PROVE  run'[r].status = run[r].status
    BY DEF vars
  <2>0. run \in [Runs -> Row] /\ run[r].status \notin Active \cup {"none"}
        /\ request[r].pc \notin Inside \cup {"new", "insert", "made", "streaming"}
    BY Types DEF Inv, Active, Terminal, Completed, RowInv
  <2>1. CASE Arrive
    BY <2>0, <2>1 DEF Arrive, Ensure, CheckTurn, CheckDelete, db
  <2>2. CASE Step
    <3>1. ASSUME NEW q \in Runs,
                 Insert(q) \/ Stream(q) \/ Answer(q) \/ Fail(q) \/ Cleanup(q) \/ Close(q)
          PROVE  run'[r].status = run[r].status
      <4>1. CASE Insert(q) \/ Stream(q) \/ Fail(q)
        <5>1. q # r
          BY <2>0, <4>1 DEF Insert, Stream, Fail
        <5> QED BY <2>0, <4>1, <5>1 DEF Insert, Stream, Fail
      <4>2. CASE Answer(q) \/ Close(q)
        BY <4>2 DEF Answer, Close, db
      <4>3. CASE Cleanup(q)
        <5>1. run' = [run EXCEPT ![q].status = IF @ \in Active THEN "failed" ELSE @]
          BY <4>3 DEF Cleanup
        <5> QED BY <2>0, <5>1
      <4> QED BY <3>1, <4>1, <4>2, <4>3
    <3>2. ASSUME NEW p \in Runs \cup Writers, Lock(p) \/ Place(p) \/ Commit(p)
          PROVE  run'[r].status = run[r].status
      BY <2>0, <3>2 DEF Lock, Place, Commit, db, Inside
    <3>3. ASSUME NEW d \in Deleters, Detach(d) \/ Clear(d) \/ Drop(d)
          PROVE  run'[r].status = run[r].status
      <4>1. CASE Detach(d) \/ Clear(d)
        BY <4>1 DEF Detach, Clear, db
      <4>2. CASE Drop(d)
        <5>1. \/ run' = run
              \/ run' = [q \in Runs |-> [run[q] EXCEPT !.attached = @ /\ q \notin tx[d].detaches]]
          BY <4>2 DEF Drop, db
        <5> QED BY <2>0, <5>1 DEF Row
      <4> QED BY <3>3, <4>1, <4>2
    <3> QED BY <2>2, <3>1, <3>2, <3>3 DEF Step
  <2>3. CASE Mishap
    <3>1. CASE \E q \in Runs : Escape(q) \/ Disconnect(q)
      BY <3>1 DEF Escape, Disconnect, db
    <3>2. CASE Restart
      BY <2>0, <3>2 DEF Restart
    <3> QED BY <2>3, <3>1, <3>2 DEF Mishap
  <2> QED BY <2>1, <2>2, <2>3 DEF Next
<1> QED BY <1>1, Invariance, PTL DEF Spec, EndedStays

-----------------------------------------------------------------------------
(* The session is a log.                                                   *)

Owners == Runs \cup Writers

\* What a log of turns is in the table of messages.
Written(s) == UNION {Turn(s[i], 2 * (i - 1)) : i \in 1..Len(s)}

\* The messages are a log, turn by turn.
LogInv == \E s \in Seq(Owners) : Cardinality(message) = 2 * Len(s) /\ message = Written(s)

\* A client whose turn is there has been answered: it does not say it again.
OnceInv == \A w \in Writers :
             (\E m \in message : m.by = w) => request[w].pc \in {"closing", "done"}

\* The log that messages M are.
LogOf(M) == [i \in 1..Cardinality(M) \div 2 |->
               CHOOSE p \in Owners : [by |-> p, role |-> "user", position |-> 2 * (i - 1)] \in M]

LEMMA LogIs ==
  ASSUME NEW M, NEW s \in Seq(Owners), Cardinality(M) = 2 * Len(s), M = Written(s)
  PROVE  LogOf(M) = s
<1>1. Len(s) \in Nat /\ s = [i \in 1..Len(s) |-> s[i]] /\ Cardinality(M) \div 2 = Len(s)
  OBVIOUS
<1>2. ASSUME NEW i \in 1..Len(s)
      PROVE  (CHOOSE p \in Owners : [by |-> p, role |-> "user", position |-> 2 * (i - 1)]
                \in M) = s[i]
  <2> DEFINE At(p) == [by |-> p, role |-> "user", position |-> 2 * (i - 1)]
  <2>1. s[i] \in Owners /\ At(s[i]) \in M
    BY <1>1 DEF Written, Turn
  <2>2. ASSUME NEW p \in Owners, At(p) \in M
        PROVE  p = s[i]
    <3>1. PICK j \in 1..Len(s) : At(p) \in Turn(s[j], 2 * (j - 1))
      BY <2>2 DEF Written
    <3>2. At(p).role = "user" /\ At(p).by = p /\ At(p).position = 2 * (i - 1)
      OBVIOUS
    <3>3. p = s[j] /\ 2 * (i - 1) = 2 * (j - 1)
      BY <3>1, <3>2 DEF Turn
    <3>4. i = j
      BY <1>1, <3>3
    <3> QED BY <3>3, <3>4
  <2> HIDE DEF At
  <2>3. (CHOOSE p \in Owners : At(p) \in M) = s[i]
    BY <2>1, <2>2
  <2> QED BY <2>3 DEF At
<1> QED BY <1>1, <1>2 DEF LogOf

LEMMA UpTo ==
  ASSUME NEW n \in Nat
  PROVE  1..(n + 1) = (1..n) \cup {n + 1}
<1>1. ASSUME NEW i \in 1..(n + 1) PROVE i \in (1..n) \cup {n + 1}
  OBVIOUS
<1>2. ASSUME NEW i \in (1..n) \cup {n + 1} PROVE i \in 1..(n + 1)
  OBVIOUS
<1> QED BY <1>1, <1>2

LEMMA Appended ==
  ASSUME NEW S, NEW s \in Seq(S), NEW e \in S
  PROVE  /\ Append(s, e) \in Seq(S) /\ Len(s) \in Nat
         /\ Len(Append(s, e)) = Len(s) + 1 /\ Append(s, e)[Len(s) + 1] = e
         /\ \A i \in 1..Len(s) : Append(s, e)[i] = s[i]
BY AppendProperties

\* A turn that is appended is the last of the log.
LEMMA LogGrows ==
  ASSUME DenseInv, LogInv, NEW p \in Owners, message' = message \cup Turn(p, Cardinality(message))
  PROVE  LogInv' /\ Turns' = Append(Turns, p)
<1>1. PICK s \in Seq(Owners) : Cardinality(message) = 2 * Len(s) /\ message = Written(s)
  BY DEF LogInv
<1> DEFINE t == Append(s, p)
<1>2. /\ t \in Seq(Owners) /\ Len(s) \in Nat /\ Len(t) = Len(s) + 1 /\ t[Len(s) + 1] = p
      /\ \A i \in 1..Len(s) : t[i] = s[i]
  <2>1. /\ Append(s, p) \in Seq(Owners) /\ Len(s) \in Nat
        /\ Len(Append(s, p)) = Len(s) + 1 /\ Append(s, p)[Len(s) + 1] = p
        /\ \A i \in 1..Len(s) : Append(s, p)[i] = s[i]
    BY Appended
  <2> QED BY <2>1
<1> HIDE DEF t
<1>3. Cardinality(message') = 2 * Len(t)
  <2>1. Cardinality(message') = Cardinality(message) + 2
    BY TurnAppended
  <2> QED BY <1>1, <1>2, <2>1
<1>4. message' = Written(t)
  <2>1. 1..Len(t) = 1..Len(s) \cup {Len(s) + 1}
    BY <1>2, UpTo
  <2>2. 2 * ((Len(s) + 1) - 1) = Cardinality(message)
    BY <1>1, <1>2
  <2>3. ASSUME NEW m \in message'
        PROVE  m \in Written(t)
    <3>1. CASE m \in message
      <4>1. PICK i \in 1..Len(s) : m \in Turn(s[i], 2 * (i - 1))
        BY <1>1, <3>1 DEF Written
      <4> QED BY <1>2, <2>1, <4>1 DEF Written
    <3>2. CASE m \in Turn(p, Cardinality(message))
      <4>1. m \in Turn(t[Len(s) + 1], 2 * ((Len(s) + 1) - 1)) /\ Len(s) + 1 \in 1..Len(t)
        BY <1>2, <2>1, <2>2, <3>2
      <4> QED BY <4>1 DEF Written
    <3> QED BY <2>3, <3>1, <3>2
  <2>4. ASSUME NEW m \in Written(t)
        PROVE  m \in message'
    <3>1. PICK i \in 1..Len(t) : m \in Turn(t[i], 2 * (i - 1))
      BY DEF Written
    <3>2. CASE i \in 1..Len(s)
      <4>1. m \in Turn(s[i], 2 * (i - 1))
        BY <1>2, <3>1, <3>2
      <4> QED BY <1>1, <3>2, <4>1 DEF Written
    <3>3. CASE i = Len(s) + 1
      <4>1. m \in Turn(p, Cardinality(message))
        BY <1>2, <2>2, <3>1, <3>3
      <4> QED BY <4>1
    <3> QED BY <2>1, <3>2, <3>3
  <2> QED BY <2>3, <2>4
<1>5. Turns = LogOf(message) /\ Turns' = LogOf(message')
  BY DEF Turns, LogOf, Owners
<1>6. LogInv'
  BY <1>2, <1>3, <1>4 DEF LogInv, Written, Turn
<1>7. Turns' = t
  BY <1>2, <1>3, <1>4, <1>5, LogIs
<1>8. Turns = s
  BY <1>1, <1>5, LogIs
<1> QED BY <1>6, <1>7, <1>8 DEF t

\* Only a commit writes messages, and only a deletion takes them, all at once.
LEMMA MessageSteps ==
  ASSUME TypeOK, Next
  PROVE  \/ message' = message
         \/ \E p \in Owners : Commit(p) /\ tx[p].turn # {}
         \/ message' = {}
<1>1. CASE Arrive
  BY <1>1 DEF Arrive, Ensure, CheckTurn, CheckDelete, db
<1>2. ASSUME NEW r \in Runs,
             Insert(r) \/ Stream(r) \/ Answer(r) \/ Fail(r) \/ Cleanup(r) \/ Close(r)
      PROVE  message' = message
  BY <1>2 DEF Insert, Stream, Answer, Fail, Cleanup, Close, db
<1>3. ASSUME NEW p \in Owners, Lock(p) \/ Place(p)
      PROVE  message' = message
  BY <1>3 DEF Lock, Place, db
<1>4. ASSUME NEW p \in Owners, Commit(p), tx[p].turn = {}
      PROVE  message' = message
  BY <1>4 DEF Commit
<1>5. ASSUME NEW d \in Deleters, Detach(d) \/ Clear(d) \/ Drop(d)
      PROVE  message' = message \/ message' = {}
  <2>1. CASE Detach(d) \/ Clear(d)
    BY <2>1 DEF Detach, Clear, db
  <2>2. CASE Drop(d)
    BY <2>2 DEF Drop, db
  <2> QED BY <1>5, <2>1, <2>2
<1>6. CASE Mishap
  BY <1>6 DEF Mishap, Escape, Disconnect, Restart, db
<1> QED BY <1>1, <1>2, <1>3, <1>4, <1>5, <1>6 DEF Next, Step, Owners

LEMMA AnsweredStays ==
  ASSUME TypeOK, Next, NEW w \in Writers, request[w].pc \in {"closing", "done"}
  PROVE  request'[w].pc \in {"closing", "done"}
<1>0. w \in Requests /\ w \notin Runs /\ w \notin Deleters /\ request \in [Requests -> Handler]
  BY Kinds, Types
<1>1. ASSUME NEW p \in Requests, p # w, NEW pc, Goto(p, pc)
      PROVE  request'[w] = request[w]
  BY <1>0, <1>1 DEF Goto
<1>2. ASSUME NEW r \in Runs, Ensure(r) \/ Answer(r) \/ Disconnect(r)
      PROVE  request'[w] = request[w]
  BY <1>0, <1>2 DEF Ensure, Answer, Disconnect
<1>3. ASSUME NEW r \in Runs, Insert(r) \/ Stream(r) \/ Fail(r) \/ Cleanup(r) \/ Close(r) \/ Escape(r)
      PROVE  request'[w] = request[w]
  <2>1. \E pc : Goto(r, pc)
    BY <1>3 DEF Insert, Stream, Fail, Cleanup, Close, Escape
  <2> QED BY <1>0, <1>1, <2>1, Kinds
<1>4. ASSUME NEW p \in Owners, Lock(p) \/ Place(p) \/ Commit(p)
      PROVE  request'[w] = request[w]
  <2>1. p # w
    BY <1>4 DEF Lock, Place, Commit
  <2>2. \E pc : Goto(p, pc)
    BY <1>4 DEF Lock, Place, Commit
  <2> QED BY <1>1, <2>1, <2>2, Kinds DEF Owners
<1>5. ASSUME NEW v \in Writers, CheckTurn(v)
      PROVE  request'[w] = request[w]
  <2>1. v # w /\ \E pc : Goto(v, pc)
    BY <1>5 DEF CheckTurn
  <2> QED BY <1>1, <2>1, Kinds
<1>6. ASSUME NEW d \in Deleters, CheckDelete(d) \/ Detach(d) \/ Clear(d) \/ Drop(d)
      PROVE  request'[w] = request[w]
  <2>1. \E pc : Goto(d, pc)
    BY <1>6 DEF CheckDelete, Detach, Clear, Drop
  <2> QED BY <1>0, <1>1, <2>1, Kinds
<1>7. CASE Restart
  <2>1. request'[w].pc = "done"
    BY <1>0, <1>7 DEF Restart, Handler
  <2> QED BY <2>1
<1> QED BY <1>2, <1>3, <1>4, <1>5, <1>6, <1>7 DEF Next, Arrive, Step, Mishap, Owners

LEMMA CommitTurn ==
  ASSUME Inv, NEW p \in Owners, Commit(p), tx[p].turn # {}
  PROVE  /\ exists /\ tx[p].turn = Turn(p, Cardinality(message))
         /\ message' = message \cup Turn(p, Cardinality(message))
         /\ request'[p].pc \in {"closing", "done"}
<1>1. p \in Requests /\ request \in [Requests -> Handler]
  BY Kinds, Types DEF Owners, Inv
<1>2. exists /\ tx[p].turn = Turn(p, Cardinality(message))
  BY <1>1 DEF Inv, PlaceInv
<1>3. message' = message \cup tx[p].turn
      /\ Goto(p, IF request[p].stream THEN "closing" ELSE "done")
  BY DEF Commit
<1>4. request'[p].pc \in {"closing", "done"}
  BY <1>1, <1>3 DEF Goto
<1> QED BY <1>2, <1>3, <1>4

LEMMA LogStep == Inv /\ LogInv /\ OnceInv /\ [Next]_vars => LogInv' /\ OnceInv'
<1> SUFFICES ASSUME Inv, LogInv, OnceInv, [Next]_vars
             PROVE  LogInv' /\ OnceInv'
  OBVIOUS
<1>1. CASE UNCHANGED vars
  BY <1>1 DEF vars, LogInv, OnceInv
<1>2. CASE Next /\ message' = message
  <2>1. LogInv'
    BY <1>2 DEF LogInv
  <2>2. OnceInv'
    BY <1>2, AnsweredStays DEF OnceInv, Inv
  <2> QED BY <2>1, <2>2
<1>3. CASE Next /\ message' = {}
  <2>1. <<>> \in Seq(Owners) /\ Len(<<>>) = 0 /\ 1..0 = {}
    OBVIOUS
  <2>2. Written(<<>>) = {}
    BY <2>1 DEF Written
  <2>3. Cardinality(message') = 2 * 0
    BY <1>3, FS_EmptySet
  <2>4. LogInv'
    BY <1>3, <2>1, <2>2, <2>3 DEF LogInv
  <2>5. OnceInv'
    BY <1>3 DEF OnceInv
  <2> QED BY <2>4, <2>5
<1>4. ASSUME NEW p \in Owners, Next, Commit(p), tx[p].turn # {}
      PROVE  LogInv' /\ OnceInv'
  <2>1. /\ message' = message \cup Turn(p, Cardinality(message))
        /\ request'[p].pc \in {"closing", "done"}
    BY <1>4, CommitTurn
  <2>2. LogInv'
    BY <2>1, LogGrows DEF Inv
  <2>3. ASSUME NEW w \in Writers, NEW m \in message', m.by = w
        PROVE  request'[w].pc \in {"closing", "done"}
    <3>1. CASE w = p
      BY <2>1, <3>1
    <3>2. CASE w # p
      <4>1. \A k \in Turn(p, Cardinality(message)) : k.by = p
        BY DEF Turn
      <4>2. m \in message
        BY <2>1, <2>3, <3>2, <4>1
      <4>3. request[w].pc \in {"closing", "done"}
        BY <2>3, <4>2 DEF OnceInv
      <4> QED BY <1>4, <4>3, AnsweredStays DEF Inv
    <3> QED BY <3>1, <3>2
  <2>4. OnceInv'
    BY <2>3 DEF OnceInv
  <2> QED BY <2>2, <2>4
<1> QED BY <1>1, <1>2, <1>3, <1>4, MessageSteps DEF Inv

LEMMA LogInit == Init => LogInv /\ OnceInv
<1> SUFFICES ASSUME Init PROVE LogInv /\ OnceInv
  OBVIOUS
<1>1. message = {} /\ Cardinality({}) = 0
  BY FS_EmptySet DEF Init
<1>2. <<>> \in Seq(Owners) /\ Len(<<>>) = 0 /\ 1..0 = {}
  OBVIOUS
<1>3. Written(<<>>) = {}
  BY <1>2 DEF Written
<1>4. Cardinality(message) = 2 * Len(<<>>) /\ message = Written(<<>>)
  BY <1>1, <1>2, <1>3
<1>5. LogInv
  BY <1>2, <1>4 DEF LogInv
<1> QED BY <1>1, <1>5 DEF OnceInv

LEMMA LogInvariance == Spec => [](Inv /\ LogInv /\ OnceInv)
<1>1. Inv /\ LogInv /\ OnceInv /\ [Next]_vars => (Inv /\ LogInv /\ OnceInv)'
  BY NextInv, LogStep
<1> QED BY <1>1, InitInv, LogInit, PTL DEF Spec

-----------------------------------------------------------------------------
(* Each step is a step of the log, or none.                                *)

View == <<exists, Turns, Attached, Outcome>>

LEMMA ViewIs == Log!vars = View
BY DEF View, Log!vars

\* The view of rows that are the same, but for what tells "created" from "streaming".
LEMMA SameView ==
  ASSUME UNCHANGED <<exists, message>>,
         \A r \in Runs : /\ run'[r].attached = run[r].attached
                         /\ \/ run'[r].status = run[r].status
                            \/ run[r].status \in Active /\ run'[r].status \in Active
  PROVE  UNCHANGED View
<1>1. Turns' = Turns
  BY DEF Turns
<1>2. Attached' = Attached
  BY DEF Attached
<1>3. Outcome' = Outcome
  BY DEF Outcome
<1> QED BY <1>1, <1>2, <1>3 DEF View

LEMMA SameRows ==
  ASSUME UNCHANGED db
  PROVE  UNCHANGED View
<1>1. UNCHANGED <<exists, message, run>>
  BY DEF db
<1> QED BY <1>1, SameView

LEMMA RunEnded ==
  ASSUME TypeOK, NEW r \in Runs, run[r].status \in Active, NEW s \in Terminal,
         run'[r].status = s, run'[r].attached = run[r].attached,
         \A q \in Runs : q # r => run'[q] = run[q]
  PROVE  Attached' = Attached /\ Log!Ends(r, s)
<1>1. s \notin Active /\ Outcome[r] = "active"
  BY DEF Active, Terminal, Completed, Outcome
<1>2. Attached' = Attached
  BY DEF Attached
<1>3. Outcome' = [Outcome EXCEPT ![r] = s]
  BY <1>1 DEF Outcome
<1> QED BY <1>1, <1>2, <1>3 DEF Log!Ends

LEMMA RunBegun ==
  ASSUME TypeOK, NEW r \in Runs, run[r].status = "none", run' = [run EXCEPT ![r] = NewRow],
         exists' = TRUE, message' = message
  PROVE  Log!Begin(r)
<1>1. run \in [Runs -> Row] /\ NewRow.status = "created" /\ NewRow.attached
  BY Types DEF NewRow
<1>2. Outcome[r] = "none" /\ Outcome' = [Outcome EXCEPT ![r] = "active"]
  BY <1>1 DEF Outcome, Active
<1>3. Attached' = Attached \cup {r}
  BY <1>1 DEF Attached
<1>4. Turns' = Turns
  BY DEF Turns
<1> QED BY <1>2, <1>3, <1>4 DEF Log!Begin

\* A run ends with no turn.
LEMMA RunStopped ==
  ASSUME TypeOK, NEW r \in Runs, run[r].status \in Active, NEW s \in {"empty", "failed"},
         run' = [run EXCEPT ![r].status = s], UNCHANGED <<exists, message>>
  PROVE  Log!Stop(r)
<1>1. s \in Terminal /\ s \in Active \cup Terminal
  BY DEF Terminal, Completed
<1>2. Attached' = Attached /\ Log!Ends(r, s)
  BY <1>1, RowWritten, RunEnded
<1>3. Turns' = Turns
  BY DEF Turns
<1> QED BY <1>2, <1>3 DEF Log!Stop

LEMMA EnsureSays ==
  ASSUME Inv, NEW r \in Runs, Ensure(r)
  PROVE  Log!Begin(r) \/ UNCHANGED View
<1>1. run[r].status = "none" /\ exists' = TRUE /\ message' = message /\ exists \in BOOLEAN
  BY DEF Ensure, Inv, RowInv, TypeOK
<1>2. CASE exists
  <2>1. UNCHANGED db
    BY <1>1, <1>2 DEF Ensure, db
  <2> QED BY <2>1, SameRows
<1>3. CASE ~ exists
  <2>1. run' = [run EXCEPT ![r] = NewRow]
    BY <1>3 DEF Ensure, NewRow
  <2> QED BY <1>1, <2>1, RunBegun DEF Inv
<1> QED BY <1>2, <1>3

LEMMA InsertSays ==
  ASSUME Inv, NEW r \in Runs, Insert(r)
  PROVE  Log!Begin(r) \/ UNCHANGED View
<1>1. run[r].status = "none" /\ UNCHANGED <<exists, message>> /\ exists \in BOOLEAN
  BY DEF Insert, Inv, RowInv, TypeOK
<1>2. CASE ~ exists
  <2>1. UNCHANGED db
    BY <1>1, <1>2 DEF Insert, db
  <2> QED BY <2>1, SameRows
<1>3. CASE exists
  <2>1. run' = [run EXCEPT ![r] = NewRow] /\ exists' = TRUE
    BY <1>1, <1>3 DEF Insert, NewRow
  <2> QED BY <1>1, <2>1, RunBegun DEF Inv
<1> QED BY <1>2, <1>3

LEMMA StreamSays ==
  ASSUME Inv, NEW r \in Runs, Stream(r)
  PROVE  UNCHANGED View
<1>1. /\ run[r].status = "created" /\ run' = [run EXCEPT ![r].status = "streaming"]
      /\ UNCHANGED <<exists, message>>
  BY DEF Stream, Inv, RowInv
<1>2. /\ run'[r].status = "streaming" /\ run'[r].attached = run[r].attached
      /\ \A q \in Runs : q # r => run'[q] = run[q]
  BY <1>1, RowWritten DEF Inv, Active
<1> QED BY <1>1, <1>2, SameView DEF Active

LEMMA FailSays ==
  ASSUME Inv, NEW r \in Runs, Fail(r)
  PROVE  Log!Stop(r)
<1>1. run[r].status \in Active
  BY DEF Fail, Inv, RowInv, Active
<1>2. run' = [run EXCEPT ![r].status = "failed"] /\ UNCHANGED <<exists, message>>
  BY DEF Fail
<1> QED BY <1>1, <1>2, RunStopped DEF Inv

LEMMA CleanupSays ==
  ASSUME Inv, NEW r \in Runs, Cleanup(r)
  PROVE  Log!Stop(r) \/ UNCHANGED View
<1>1. /\ run' = [run EXCEPT ![r].status = IF run[r].status \in Active THEN "failed"
                                          ELSE run[r].status]
      /\ UNCHANGED <<exists, message>> /\ run \in [Runs -> Row]
  BY Types DEF Cleanup, Inv
<1>2. CASE run[r].status \in Active
  <2>1. run' = [run EXCEPT ![r].status = "failed"]
    BY <1>1, <1>2
  <2> QED BY <1>1, <1>2, <2>1, RunStopped DEF Inv
<1>3. CASE run[r].status \notin Active
  <2>1. run' = run
    BY <1>1, <1>3 DEF Row
  <2> QED BY <1>1, <2>1, SameView
<1> QED BY <1>2, <1>3

\* Nobody has said a turn who is about to commit one.
LEMMA NotSaid ==
  ASSUME Inv, LogInv, NEW p \in Owners, \A m \in message : m.by # p
  PROVE  ~ Log!Said(p)
<1>1. PICK s \in Seq(Owners) : Cardinality(message) = 2 * Len(s) /\ message = Written(s)
  BY DEF LogInv
<1>2. Turns = s
  <2>1. Turns = LogOf(message)
    BY DEF Turns, LogOf, Owners
  <2> QED BY <1>1, <2>1, LogIs
<1>3. ASSUME NEW i \in DOMAIN s, s[i] = p
      PROVE  FALSE
  <2> DEFINE m == [by |-> s[i], role |-> "user", position |-> 2 * (i - 1)]
  <2>1. i \in 1..Len(s) /\ m \in Turn(s[i], 2 * (i - 1))
    BY <1>3 DEF Turn
  <2>2. m \in message
    BY <1>1, <2>1 DEF Written
  <2> QED BY <1>3, <2>2
<1> QED BY <1>2, <1>3 DEF Log!Said

LEMMA CommitSays ==
  ASSUME Inv, LogInv, OnceInv, NEW p \in Owners, Commit(p)
  PROVE  \/ p \in Runs /\ (Log!Tell(p) \/ Log!Lose(p) \/ Log!Stop(p))
         \/ p \in Writers /\ Log!Say(p)
         \/ UNCHANGED View
<1>1. p \in Requests /\ request[p].pc = "commit" /\ exists' = exists
      /\ message' = message \cup tx[p].turn
  BY Kinds DEF Commit, Owners
<1>2. CASE p \in Runs
  <2>1. run[p].status \in Active /\ tx[p].status \in Completed
        /\ run' = [run EXCEPT ![p].status = tx[p].status]
    BY <1>1, <1>2 DEF Commit, Inv, RowInv, Inside
  <2>2. Attached' = Attached /\ Log!Ends(p, tx[p].status)
    <3>1. tx[p].status \in Terminal /\ tx[p].status \in Active \cup Terminal
      BY <2>1 DEF Terminal
    <3> QED BY <1>2, <2>1, <3>1, RowWritten, RunEnded DEF Inv
  <2>3. CASE tx[p].turn = {}
    <3>1. message' = message /\ Turns' = Turns
      BY <1>1, <2>3 DEF Turns
    <3>2. CASE tx[p].status = "empty"
      BY <1>1, <1>2, <2>2, <3>1, <3>2 DEF Log!Stop
    <3>3. CASE tx[p].status = "completed"
      <4>1. p \notin Attached
        BY <1>1, <1>2, <2>3, <3>3 DEF Inv, GoneInv, Attached
      <4> QED BY <1>1, <1>2, <2>2, <3>1, <3>3, <4>1 DEF Log!Lose
    <3> QED BY <2>1, <3>2, <3>3 DEF Completed
  <2>4. CASE tx[p].turn # {}
    <3>1. exists /\ message' = message \cup Turn(p, Cardinality(message))
      BY <2>4, CommitTurn
    <3>2. Turns' = Append(Turns, p)
      BY <3>1, LogGrows DEF Inv
    <3>3. tx[p].status = "completed"
      BY <1>1, <1>2, <2>1, <2>4 DEF Inv, PlaceInv, Completed
    <3>4. ~ Log!Said(p)
      <4>1. \A m \in message : m.by # p
        BY <1>2, <2>1 DEF Inv, OutcomeAndTurn, Active
      <4> QED BY <4>1, NotSaid
    <3> QED BY <1>1, <1>2, <2>2, <3>1, <3>2, <3>3, <3>4 DEF Log!Tell
  <2> QED BY <2>3, <2>4
<1>3. CASE p \in Writers
  <2>1. run' = run /\ Attached' = Attached /\ Outcome' = Outcome
    BY <1>3, Kinds DEF Commit, Attached, Outcome
  <2>2. CASE tx[p].turn = {}
    BY <1>1, <2>1, <2>2, SameView
  <2>3. CASE tx[p].turn # {}
    <3>1. exists /\ message' = message \cup Turn(p, Cardinality(message))
      BY <2>3, CommitTurn
    <3>2. Turns' = Append(Turns, p)
      BY <3>1, LogGrows DEF Inv
    <3>3. ~ Log!Said(p)
      BY <1>1, <1>3, NotSaid DEF OnceInv
    <3> QED BY <1>1, <1>3, <2>1, <3>1, <3>2, <3>3 DEF Log!Say
  <2> QED BY <2>2, <2>3
<1> QED BY <1>2, <1>3 DEF Owners

LEMMA DropSays ==
  ASSUME Inv, NEW d \in Deleters, Drop(d)
  PROVE  Log!Delete \/ UNCHANGED View
<1> DEFINE free == Attached \subseteq tx[d].detaches /\ message \subseteq tx[d].drops
<1>1. CASE ~ free
  <2>1. UNCHANGED db
    BY <1>1 DEF Drop
  <2> QED BY <2>1, SameRows
<1>2. CASE free
  <2>1. /\ exists' = FALSE /\ message' = {}
        /\ run' = [r \in Runs |-> [run[r] EXCEPT !.attached = @ /\ r \notin tx[d].detaches]]
    BY <1>2 DEF Drop
  <2>2. \A r \in Runs : run'[r].status = run[r].status /\ ~ run'[r].attached
    <3>1. run \in [Runs -> Row]
      BY Types DEF Inv
    <3> QED BY <1>2, <2>1, <3>1 DEF Row, Attached
  <2>3. Attached' = {} /\ Outcome' = Outcome
    BY <2>2 DEF Attached, Outcome
  <2>4. Turns' = <<>>
    <3>1. <<>> \in Seq(Owners) /\ Len(<<>>) = 0 /\ 1..0 = {} /\ Cardinality({}) = 0
      BY FS_EmptySet
    <3>2. Cardinality({}) = 2 * Len(<<>>) /\ Written(<<>>) = {}
      BY <3>1 DEF Written
    <3>3. Turns' = LogOf({})
      BY <2>1 DEF Turns, LogOf, Owners
    <3> QED BY <3>1, <3>2, <3>3, LogIs
  <2>5. CASE exists
    BY <2>1, <2>3, <2>4, <2>5 DEF Log!Delete
  <2>6. CASE ~ exists
    <3>1. message = {} /\ exists' = exists /\ \A r \in Runs : ~ run[r].attached
      BY <2>1, <2>6 DEF Inv, GoneInv, TypeOK
    <3>2. Turns' = Turns
      BY <2>1, <3>1 DEF Turns
    <3>3. Attached = {}
      BY <3>1 DEF Attached
    <3> QED BY <2>3, <3>1, <3>2, <3>3 DEF View
  <2> QED BY <2>5, <2>6
<1> QED BY <1>1, <1>2

LEMMA RestartSays ==
  ASSUME Inv, Restart
  PROVE  Log!Sweep
<1>1. /\ run' = [r \in Runs |-> IF run[r].status \in Active THEN [run[r] EXCEPT !.status = "failed"]
                                ELSE run[r]]
      /\ UNCHANGED <<exists, message>> /\ run \in [Runs -> Row]
  BY Types DEF Restart, Inv
<1>2. \A r \in Runs : /\ run'[r].attached = run[r].attached
                      /\ run'[r].status = IF run[r].status \in Active THEN "failed"
                                          ELSE run[r].status
  BY <1>1 DEF Row
<1>3. Turns' = Turns /\ Attached' = Attached
  BY <1>1, <1>2 DEF Turns, Attached
<1>4. Outcome' = [r \in Runs |-> IF Outcome[r] = "active" THEN "failed" ELSE Outcome[r]]
  BY <1>1, <1>2 DEF Outcome, Active, Row, Terminal, Completed
<1> QED BY <1>1, <1>3, <1>4 DEF Log!Sweep

LEMMA StepSays ==
  Inv /\ LogInv /\ OnceInv /\ [Next]_vars => [Log!Next]_(Log!vars)
<1> SUFFICES ASSUME Inv, LogInv, OnceInv, [Next]_vars
             PROVE  Log!Next \/ UNCHANGED View
  <2>1. UNCHANGED View => UNCHANGED Log!vars
    BY ViewIs DEF View, Log!vars
  <2> QED BY <2>1
<1>1. CASE UNCHANGED vars
  BY <1>1, SameRows DEF vars, db
<1>2. ASSUME NEW r \in Runs, Ensure(r) \/ Insert(r) \/ Fail(r) \/ Cleanup(r)
      PROVE  Log!Next \/ UNCHANGED View
  BY <1>2, EnsureSays, InsertSays, FailSays, CleanupSays DEF Log!Next
<1>3. ASSUME NEW r \in Runs, Stream(r)
      PROVE  UNCHANGED View
  BY <1>3, StreamSays
<1>4. ASSUME NEW r \in Runs, Answer(r) \/ Close(r) \/ Escape(r) \/ Disconnect(r)
      PROVE  UNCHANGED View
  <2>1. UNCHANGED db
    BY <1>4 DEF Answer, Close, Escape, Disconnect
  <2> QED BY <2>1, SameRows
<1>5. ASSUME NEW p \in Owners, Lock(p) \/ Place(p)
      PROVE  UNCHANGED View
  <2>1. UNCHANGED db
    BY <1>5 DEF Lock, Place
  <2> QED BY <2>1, SameRows
<1>6. ASSUME NEW p \in Owners, Commit(p)
      PROVE  Log!Next \/ UNCHANGED View
  BY <1>6, CommitSays DEF Log!Next
<1>7. ASSUME NEW w \in Writers, CheckTurn(w)
      PROVE  UNCHANGED View
  BY <1>7, SameRows DEF CheckTurn
<1>8. ASSUME NEW d \in Deleters, CheckDelete(d) \/ Detach(d) \/ Clear(d)
      PROVE  UNCHANGED View
  BY <1>8, SameRows DEF CheckDelete, Detach, Clear
<1>9. ASSUME NEW d \in Deleters, Drop(d)
      PROVE  Log!Next \/ UNCHANGED View
  BY <1>9, DropSays DEF Log!Next
<1>10. ASSUME Restart
       PROVE  Log!Next
  BY <1>10, RestartSays DEF Log!Next
<1>11. CASE Next
  <2>1. CASE Arrive
    BY <1>2, <1>7, <1>8, <2>1 DEF Arrive
  <2>2. CASE Step
    BY <1>2, <1>3, <1>4, <1>5, <1>6, <1>8, <1>9, <2>2 DEF Step, Owners
  <2>3. CASE Mishap
    BY <1>4, <1>10, <2>3 DEF Mishap
  <2> QED BY <1>11, <2>1, <2>2, <2>3 DEF Next
<1> QED BY <1>1, <1>11

LEMMA InitSays == Init => Log!Init
<1> SUFFICES ASSUME Init PROVE Log!Init
  OBVIOUS
<1>1. exists \in BOOLEAN /\ message = {} /\ run = [r \in Runs |-> NoRow]
  BY DEF Init
<1>2. Attached = {} /\ Outcome = [r \in Runs |-> "none"]
  BY <1>1 DEF Attached, Outcome, NoRow, Active
<1>3. Turns = <<>>
  <2>1. <<>> \in Seq(Owners) /\ Len(<<>>) = 0 /\ 1..0 = {} /\ Cardinality({}) = 0
    BY FS_EmptySet
  <2>2. Cardinality({}) = 2 * Len(<<>>) /\ Written(<<>>) = {}
    BY <2>1 DEF Written
  <2>3. Turns = LogOf({})
    BY <1>1 DEF Turns, LogOf, Owners
  <2> QED BY <2>1, <2>2, <2>3, LogIs
<1> QED BY <1>1, <1>2, <1>3 DEF Log!Init

\* The statements of any number of runs, clients and deletions, cut off anywhere, are
\* a log that each request changes in one instant (append_turn, store.py:575; tx,
\* app.py:1378; delete_chat_session, store.py:534).
THEOREM KeepsItsLog == Spec => KeepsLog
BY LogInvariance, InitSays, StepSays, PTL DEF Spec, KeepsLog, Log!Spec

=============================================================================
