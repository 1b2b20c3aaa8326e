----------------------------- MODULE RequestLog -----------------------------
(***************************************************************************)
(* The AI gateway's request log: observations queue, a writer appends them *)
(* as lines to a spool of numbered segments, an exporter sends what lies   *)
(* past a persisted cursor to the control plane and moves the cursor once  *)
(* the batch is acknowledged.                                              *)
(*                                                                         *)
(* Appends, reads, commits and prunes run in worker threads under one      *)
(* lock, each is one action.  The disk survives what ends the process.     *)
(*                                                                         *)
(* A line is the record it holds, or Torn if it does not parse.  Bytes are *)
(* lines: a position <<segment, n>> is the n-th line of a segment, and the *)
(* cursor is the position of the last line exported.                       *)
(*                                                                         *)
(* Left out: the contents of records, lines longer than one read, the      *)
(* waits between two exports, a gateway that exports to nobody, that a     *)
(* failed write also counts the observations the batch had left out, the   *)
(* counters of what was exported and of lines that do not parse, and a     *)
(* crash between a segment's removal and its count: the real counters are  *)
(* gone with the process, `stats` is their history.                        *)
(***************************************************************************)
EXTENDS Integers, FiniteSets, Sequences

CONSTANTS
  Records,       \* observations, and the records made of them
  Malformed,     \* observations that make no valid record
  Gateways,      \* gateway ids this state directory is used with in turn
  Gateway,       \* [Records -> Gateways]: the gateway id in a record
  MaxQueue,      \* RequestLog._max_queue
  WriteBatch,    \* WRITE_BATCH
  SegmentLines,  \* Spool._max_bytes
  MaxSegments,   \* Spool._max_segments
  MaxBatch,      \* Exporter._max_batch
  Accepts,       \* records in a request body the control plane's side admits
  MaxEnds,       \* bound on how often the process ends
  Mishaps,       \* what may go wrong: "crash", "timeout", a "write" to the
                 \* spool, a read or a write of the "cursor" file
  Torn,          \* a line, or the beginning of one, that does not parse
  None           \* a segment whose last line is complete

ASSUME RecordsAssumption ==
  /\ Malformed \subseteq Records
  /\ Gateway \in [Records -> Gateways]
  /\ Torn \notin Records /\ None \notin Records /\ Torn # None

ASSUME BoundsAssumption ==
  /\ MaxQueue \in Nat \ {0} /\ WriteBatch \in Nat \ {0}
  /\ SegmentLines \in Nat \ {0} /\ MaxSegments \in Nat \ {0}
  /\ MaxBatch \in Nat \ {0} /\ Accepts \in Nat \ {0} /\ MaxEnds \in Nat

VARIABLES
  up,        \* the process: "up", "leaving", "stopping", "ending", "down"
  gateway,   \* RequestLog._gateway_id
  ends,      \* how often the process has ended
  abrupt,    \* it ended with observations still in memory
  seen,      \* observations made so far
  queue,     \* RequestLog._queue
  writing,   \* the batch in the writer's worker thread
  stats,     \* LogStats, with the records counted instead of their number
  disk,      \* the segments
  opened,    \* Spool._opened
  cursor,    \* the export cursor on disk
  exporter,  \* what the exporter is at
  wire,      \* batches on their way to the control plane
  rows       \* the records the control plane has stored

vars == <<up, gateway, ends, abrupt, seen, queue, writing, stats, disk, opened,
          cursor, exporter, wire, rows>>

writerVars == <<seen, queue, writing, stats, disk, opened>>
exportVars == <<cursor, exporter, wire, rows>>
lifeVars == <<up, gateway, ends, abrupt>>

----------------------------------------------------------------------------
(* Types                                                                   *)

Line == Records \cup {Torn}
Segment == [lines : Seq(Line), tail : Line \cup {None}]
Position == Nat \X Nat
Origin == <<0, 0>>

Stats == [recorded : SUBSET Records, dropped : SUBSET Records,
          unrecordable : SUBSET Records, unwritten : SUBSET Records,
          pruned : SUBSET Records]

TypeOK ==
  /\ up \in {"up", "leaving", "stopping", "ending", "down"}
  /\ gateway \in Gateways
  /\ ends \in 0..MaxEnds /\ abrupt \in BOOLEAN
  /\ seen \subseteq Records
  /\ queue \in Seq(Records) /\ Len(queue) <= MaxQueue
  /\ writing \in Seq(Records)
  /\ stats \in Stats
  /\ DOMAIN disk \subseteq Nat \ {0}
  /\ disk = <<>> \/ \E a, b \in DOMAIN disk : DOMAIN disk = a..b
  /\ \A s \in DOMAIN disk : disk[s] \in Segment
  /\ opened \in BOOLEAN
  /\ cursor \in Position
  /\ exporter \in [pc : {"ready", "sending", "commit", "off"},
                   batch : SUBSET Records, upto : Position,
                   limit : 1..MaxBatch]
  /\ wire \subseteq SUBSET Records
  /\ rows \subseteq Records

Ready(limit) ==
  [pc |-> "ready", batch |-> {}, upto |-> Origin, limit |-> limit]

Init ==
  /\ up = "up" /\ gateway \in Gateways /\ ends = 0 /\ abrupt = FALSE
  /\ seen = {} /\ queue = <<>> /\ writing = <<>>
  /\ stats = [f \in {"recorded", "dropped", "unrecordable", "unwritten",
                     "pruned"} |-> {}]
  /\ disk = <<>> /\ opened = FALSE /\ cursor = Origin
  /\ exporter = Ready(MaxBatch) /\ wire = {} /\ rows = {}

Elements(q) == {q[i] : i \in 1..Len(q)}

----------------------------------------------------------------------------
(* The spool.  D is the value of `disk` an operator reads or builds on.    *)

NoSegment == [lines |-> <<>>, tail |-> None]
Last(D) == CHOOSE s \in DOMAIN D : \A x \in DOMAIN D : x <= s

\* _open: the line a crash left half-written gets its newline.
Opened(D) ==
  IF DOMAIN D = {} \/ D[Last(D)].tail = None THEN D
  ELSE [D EXCEPT ![Last(D)] =
          [lines |-> Append(@.lines, @.tail), tail |-> None]]

\* The segment the next lines go to: the last one, unless it is full.
Current(D) ==
  IF DOMAIN D = {} THEN 1
  ELSE LET s == Last(D)
           size == Len(D[s].lines) + (IF D[s].tail = None THEN 0 ELSE 1)
       IN IF size >= SegmentLines THEN s + 1 ELSE s

\* What was written so far of segment g, followed by lines and a tail.
Extended(g, lines, tail) ==
  IF g.tail = None THEN [lines |-> g.lines \o lines, tail |-> tail]
  ELSE IF lines = <<>>
         THEN [g EXCEPT !.tail = IF tail = None THEN @ ELSE Torn]
         ELSE [lines |-> g.lines \o <<Torn>> \o Tail(lines), tail |-> tail]

Written(D, lines, tail) ==
  LET s == Current(D)
      g == IF s \in DOMAIN D THEN D[s] ELSE NoSegment
  IN [x \in DOMAIN D \cup {s} |->
        IF x = s THEN Extended(g, lines, tail) ELSE D[x]]

\* The directory as an append finds it, and after it.
Found == IF opened THEN disk ELSE Opened(disk)

\* Segments are numbered without a gap: the oldest beyond max_segments.
Excess(D) == {s \in DOMAIN D : s + MaxSegments <= Last(D)}

\* MUTANT: a segment the exporter is in the middle of is not counted.
BehindCursor(s) == s > cursor[1]

\* Segments removed before the exporter got through them.
Unexported(s) == s >= cursor[1]

RecordsIn(g) == Elements(g.lines) \cap Records

----------------------------------------------------------------------------
(* RequestLog: the observe hook and the writer                             *)

\* MUTANT: a full queue takes one more.
ObserveOneMore(r) ==
  /\ up \in {"up", "leaving"} /\ r \notin seen /\ Gateway[r] = gateway
  /\ seen' = seen \cup {r}
  /\ IF Len(queue) > MaxQueue
       THEN stats' = [stats EXCEPT !.dropped = @ \cup {r}] /\ UNCHANGED queue
       ELSE queue' = Append(queue, r) /\ UNCHANGED stats
  /\ UNCHANGED <<writing, disk, opened>> /\ UNCHANGED exportVars
  /\ UNCHANGED lifeVars

Observe(r) ==
  /\ up \in {"up", "leaving"} /\ r \notin seen /\ Gateway[r] = gateway
  /\ seen' = seen \cup {r}
  /\ IF Len(queue) >= MaxQueue
       THEN stats' = [stats EXCEPT !.dropped = @ \cup {r}] /\ UNCHANGED queue
       ELSE queue' = Append(queue, r) /\ UNCHANGED stats
  /\ UNCHANGED <<writing, disk, opened>> /\ UNCHANGED exportVars
  /\ UNCHANGED lifeVars

Take ==
  LET n == IF Len(queue) < WriteBatch THEN Len(queue) ELSE WriteBatch
  IN /\ up \in {"up", "leaving", "stopping"} /\ writing = <<>> /\ queue # <<>>
     /\ writing' = SubSeq(queue, 1, n)
     /\ queue' = SubSeq(queue, n + 1, Len(queue))
     /\ UNCHANGED <<seen, stats, disk, opened>> /\ UNCHANGED exportVars
     /\ UNCHANGED lifeVars

\* to_record raises for one observation of the batch: the others go on.
LeaveOut(i) ==
  /\ i \in 1..Len(writing) /\ writing[i] \in Malformed
  /\ writing' = [j \in 1..(Len(writing) - 1) |->
                   writing[IF j < i THEN j ELSE j + 1]]
  /\ stats' = [stats EXCEPT !.unrecordable = @ \cup {writing[i]}]
  /\ UNCHANGED <<seen, queue, disk, opened>> /\ UNCHANGED exportVars
  /\ UNCHANGED lifeVars

Appending == writing # <<>> /\ Elements(writing) \cap Malformed = {}

\* Spool.append: open, rotate, write, prune.
AppendLines ==
  LET D == Written(Found, writing, None)
      lost == {s \in Excess(D) : Unexported(s)}
  IN /\ Appending
     /\ disk' = [s \in DOMAIN D \ Excess(D) |-> D[s]]
     /\ stats' = [stats EXCEPT
                    !.recorded = @ \cup Elements(writing),
                    !.pruned = @ \cup UNION {RecordsIn(D[s]) : s \in lost}]
     /\ writing' = <<>> /\ opened' = TRUE
     /\ UNCHANGED <<seen, queue>> /\ UNCHANGED exportVars
     /\ UNCHANGED lifeVars

\* The write stops after n lines, perhaps inside the next one.
WrittenUpTo(n, tail) ==
  /\ Appending /\ n \in 0..Len(writing)
  /\ tail # None => n < Len(writing) /\ tail \in {Torn, writing[n + 1]}
  /\ disk' = Written(Found, SubSeq(writing, 1, n), tail)

\* The append fails: in the write, on a full disk for one, in the prune after
\* it, or before anything is written.  A cancelled writer counts nothing.
WriteFails(n, tail) ==
  /\ "write" \in Mishaps
  /\ \/ WrittenUpTo(n, tail) /\ opened' = TRUE
     \/ Appending /\ n = 0 /\ tail = None /\ UNCHANGED <<disk, opened>>
  /\ stats' = IF up = "ending" THEN stats
              ELSE [stats EXCEPT !.unwritten = @ \cup Elements(writing)]
  /\ writing' = <<>>
  /\ UNCHANGED <<seen, queue>> /\ UNCHANGED exportVars
  /\ UNCHANGED lifeVars

----------------------------------------------------------------------------
(* Exporter                                                                *)

Before(p, q) == p[1] < q[1] \/ (p[1] = q[1] /\ p[2] < q[2])
Upto(p, q) == p = q \/ Before(p, q)

Positions(D) == UNION {{s} \X (1..Len(D[s].lines)) : s \in DOMAIN D}
At(p) == disk[p[1]].lines[p[2]]
Readable == {p \in Positions(disk) : At(p) \in Records}
Pending == {p \in Positions(disk) : Before(cursor, p)}

\* MUTANT: when a segment is through, the reader goes on with the newest one.
ReadLatest ==
  LET latest == {p \in Pending : p[1] = Last(disk) \/ p[1] = cursor[1]}
  IN {p \in latest :
        Cardinality({q \in latest : Before(q, p)}) < exporter.limit}

\* Spool.read: the next lines past the cursor, in the order of the segments.
Read ==
  {p \in Pending :
     Cardinality({q \in Pending : Before(q, p)}) < exporter.limit}

\* _parse: the lines up to the first record of another gateway.
Consumed(S) ==
  {p \in S : \A q, r \in S \cap Readable :
     Upto(q, p) /\ Upto(r, p) => Gateway[At(q)] = Gateway[At(r)]}

Farthest(S) == CHOOSE p \in S : \A q \in S : Upto(q, p)

\* MUTANT: the cursor moves past every line that was read.
ThroughRead(S) == Farthest(S)

\* Where the cursor goes when the consumed lines among S are exported.
Through(S) == Farthest(Consumed(S))

\* export_once up to the request; lines of no record at all need none.
Export ==
  LET batch == {At(p) : p \in Consumed(Read) \cap Readable}
  IN /\ exporter.pc = "ready" /\ Read # {}
     /\ exporter' = [exporter EXCEPT
                       !.pc = IF batch = {} THEN "commit" ELSE "sending",
                       !.upto = Through(Read), !.batch = batch]
     /\ wire' = IF batch = {} THEN wire ELSE wire \cup {batch}
     /\ UNCHANGED <<cursor, rows>> /\ UNCHANGED writerVars
     /\ UNCHANGED lifeVars

\* POST /gateway/events: a record that is stored already is a duplicate.  The
\* request is the exporter's, or one it gave up on.
Deliver(b, acknowledged) ==
  /\ b \in wire /\ Cardinality(b) <= Accepts
  /\ wire' = wire \ {b} /\ rows' = rows \cup b
  /\ acknowledged => exporter.pc = "sending" /\ exporter.batch = b
  /\ exporter' = IF acknowledged
                   THEN [exporter EXCEPT !.pc = "commit", !.batch = {}]
                   ELSE exporter
  /\ UNCHANGED cursor /\ UNCHANGED writerVars /\ UNCHANGED lifeVars

\* MUTANT: a batch over the size limit is retried as it is.
TooLargeAsIs ==
  /\ exporter.pc = "sending" /\ exporter.limit > 1
  /\ Cardinality(exporter.batch) > Accepts
  /\ wire' = wire \ {exporter.batch}
  /\ exporter' = Ready(exporter.limit)
  /\ UNCHANGED <<cursor, rows>> /\ UNCHANGED writerVars
  /\ UNCHANGED lifeVars

\* 413: the same records again, in smaller batches.
TooLarge ==
  /\ exporter.pc = "sending" /\ exporter.limit > 1
  /\ Cardinality(exporter.batch) > Accepts
  /\ wire' = wire \ {exporter.batch}
  /\ exporter' = Ready(exporter.limit \div 2)
  /\ UNCHANGED <<cursor, rows>> /\ UNCHANGED writerVars
  /\ UNCHANGED lifeVars

\* No answer, a lost one, or a refusal: the same records again, after a while.
\* The request may still be on its way.
SendFails ==
  /\ exporter.pc = "sending"
  /\ wire' \in {wire, wire \ {exporter.batch}}
  /\ exporter' = Ready(exporter.limit)
  /\ UNCHANGED <<cursor, rows>> /\ UNCHANGED writerVars
  /\ UNCHANGED lifeVars

\* A batch on the wire gets lost.
Lose(b) ==
  /\ b \in wire /\ (exporter.pc = "sending" => b # exporter.batch)
  /\ wire' = wire \ {b}
  /\ UNCHANGED <<cursor, exporter, rows>> /\ UNCHANGED writerVars
  /\ UNCHANGED lifeVars

\* What follows a commit, whose thread may outlive the cancelled exporter.
Committed ==
  [Ready(exporter.limit) EXCEPT !.pc = IF up = "up" THEN "ready" ELSE "off"]

\* Spool.commit: the cursor file is replaced as a whole.
Commit ==
  /\ exporter.pc = "commit"
  /\ cursor' = exporter.upto /\ exporter' = Committed
  /\ UNCHANGED <<wire, rows>> /\ UNCHANGED writerVars
  /\ UNCHANGED lifeVars

\* The commit raises: what the control plane has is sent again, after a while.
CommitFails ==
  /\ "cursor" \in Mishaps /\ exporter.pc = "commit"
  /\ exporter' = Committed
  /\ UNCHANGED <<cursor, wire, rows>> /\ UNCHANGED writerVars
  /\ UNCHANGED lifeVars

\* The cursor file cannot be read any more: the export starts over.
CursorLost ==
  /\ "cursor" \in Mishaps /\ cursor # Origin
  /\ cursor' = Origin
  /\ UNCHANGED <<exporter, wire, rows>> /\ UNCHANGED writerVars
  /\ UNCHANGED lifeVars

----------------------------------------------------------------------------
(* The process                                                             *)

Off == [Ready(MaxBatch) EXCEPT !.pc = "off"]

\* The lifespan ends.  The exporter is cancelled first, a commit goes on if its
\* thread has begun; requests cut short are still observed.
Leave ==
  /\ up = "up" /\ ends < MaxEnds
  /\ up' = "leaving"
  /\ \/ exporter' = Off
     \/ exporter.pc = "commit" /\ UNCHANGED exporter
  /\ UNCHANGED <<gateway, ends, abrupt, cursor, wire, rows>>
  /\ UNCHANGED writerVars

\* RequestLog.stop: what is queued is to be written yet.
Stop ==
  /\ up = "leaving"
  /\ up' = "stopping"
  /\ UNCHANGED <<gateway, ends, abrupt>> /\ UNCHANGED writerVars
  /\ UNCHANGED exportVars

\* STOP_SECONDS are over: the writer is cancelled, not a thread that has begun.
StopTimesOut ==
  /\ "timeout" \in Mishaps /\ up = "stopping"
  /\ up' = "ending" /\ abrupt' = TRUE /\ queue' = <<>>
  /\ writing' \in {writing, <<>>}
  /\ UNCHANGED <<gateway, ends, seen, stats, disk, opened>>
  /\ UNCHANGED exportVars

\* MUTANT: the writer returns as soon as the log is closing.
StoppedEarly ==
  /\ up \in {"stopping", "ending"}
  /\ writing = <<>> /\ exporter.pc = "off"
  /\ up' = "down" /\ ends' = ends + 1 /\ queue' = <<>>
  /\ UNCHANGED <<gateway, abrupt, seen, writing, stats, disk, opened>>
  /\ UNCHANGED exportVars

Stopped ==
  /\ up \in {"stopping", "ending"}
  /\ queue = <<>> /\ writing = <<>> /\ exporter.pc = "off"
  /\ up' = "down" /\ ends' = ends + 1
  /\ UNCHANGED <<gateway, abrupt>> /\ UNCHANGED writerVars
  /\ UNCHANGED exportVars

\* The process ends at any point, inside a write for one.
Crash ==
  /\ "crash" \in Mishaps /\ up # "down" /\ ends < MaxEnds
  /\ up' = "down" /\ ends' = ends + 1 /\ abrupt' = TRUE
  /\ queue' = <<>> /\ writing' = <<>>
  /\ exporter' = Off
  /\ \/ UNCHANGED disk
     \/ \E n \in 0..Len(writing), tail \in Line \cup {None} :
          WrittenUpTo(n, tail)
  /\ UNCHANGED <<gateway, seen, stats, opened, cursor, wire, rows>>

Start ==
  /\ up = "down"
  /\ up' = "up" /\ gateway' \in Gateways /\ opened' = FALSE
  /\ exporter' = Ready(MaxBatch)
  /\ UNCHANGED <<ends, abrupt, seen, queue, writing, stats, disk, cursor,
                 wire, rows>>

----------------------------------------------------------------------------
Writer ==
  \/ Take \/ AppendLines
  \/ \E i \in 1..Len(writing) : LeaveOut(i)

Next ==
  \/ \E r \in Records : Observe(r)
  \/ Writer
  \/ \E n \in 0..Len(writing), tail \in Line \cup {None} : WriteFails(n, tail)
  \/ Export \/ TooLarge \/ SendFails \/ Commit \/ CommitFails \/ CursorLost
  \/ \E b \in wire : Lose(b)
  \/ \E b \in wire, acknowledged \in BOOLEAN : Deliver(b, acknowledged)
  \/ Leave \/ Stop \/ StopTimesOut \/ Stopped \/ Crash \/ Start

Spec == Init /\ [][Next]_vars

\* The writer and the exporter go on, the process is started again, and of
\* requests sent over and over one is answered: it is stored, or too large.  An
\* answer that does not come is a timeout of the HTTP client.
FairSpec ==
  /\ Spec
  /\ WF_vars(Writer) /\ WF_vars(Export) /\ WF_vars(Commit)
  /\ WF_vars(Stop) /\ WF_vars(Stopped) /\ WF_vars(Start)
  /\ WF_vars(SendFails) /\ SF_vars(TooLarge)
  /\ SF_vars(\E b \in wire : Deliver(b, TRUE))

----------------------------------------------------------------------------
(* Properties                                                              *)

\* The cursor never passes a record the control plane has not stored, whatever
\* was torn, refused, sent twice or written by another gateway before it.
CursorBehindRows ==
  \A p \in Readable : Upto(p, cursor) => At(p) \in rows

\* "Records appended to the spool" (LogStats.recorded) are on it: such a record
\* is stored, or waits past the cursor, or was in a segment counted as removed
\* before export.  A crash costs what was in memory, and a torn line costs no
\* record but its own.
RecordedNotLost ==
  stats.recorded \subseteq
    rows \cup {At(p) : p \in Pending} \cup stats.pruned

\* The control plane has stored a prefix of what is on disk: an export that is
\* repeated, split or delivered late leaves no gap.
StoredInOrder ==
  \A p, q \in Readable : Before(p, q) /\ At(q) \in rows => At(p) \in rows

\* "Every way a record can go missing has one": as long as the process did not
\* end with observations in memory, each is on its way or in one counter.
Accounted ==
  ~abrupt =>
    seen \subseteq Elements(queue) \cup Elements(writing)
                   \cup stats.recorded \cup stats.dropped
                   \cup stats.unrecordable \cup stats.unwritten

\* A record on the disk is stored in the end, through refusals of large batches,
\* lost answers, torn lines and restarts, unless its segment is pruned.
Exported ==
  \A r \in Records :
    (\E p \in Readable : At(p) = r) ~> r \in rows \cup stats.pruned
=============================================================================
