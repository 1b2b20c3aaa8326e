-------------------------- MODULE RequestLogProofs --------------------------
(* What RequestLog promises for any number of records, gateways and restarts, *)
(* any segment and batch sizes, and all its mishaps.                          *)
EXTENDS RequestLog, FiniteSetTheorems, SequenceTheorems, WellFoundedInduction, TLAPS

-----------------------------------------------------------------------------
(* The disk: what it keeps as it grows.                                    *)

Disk(D) ==
  /\ DOMAIN D \subseteq Nat \ {0}
  /\ D = <<>> \/ \E a, b \in DOMAIN D : DOMAIN D = a..b
  /\ \A s \in DOMAIN D : D[s] \in Segment

LineAt(D, p) == D[p[1]].lines[p[2]]

\* The position x is the origin, or of a line that is or was on the disk.
Inside(D, x) ==
  \/ x = Origin
  \/ /\ DOMAIN D # {}
     /\ \/ x[1] < Last(D)
        \/ x[1] = Last(D) /\ x[2] <= Len(D[Last(D)].lines)

\* The position p comes after all lines of D.
Past(D, p) ==
  \/ DOMAIN D = {}
  \/ p[1] > Last(D)
  \/ p[1] = Last(D) /\ p[2] > Len(D[Last(D)].lines)

\* The disk D has become E: segments may be gone, lines of N have been added.
Grown(D, E, N) ==
  /\ DOMAIN D # {} =>
       /\ DOMAIN E # {} /\ Last(D) <= Last(E)
       /\ Last(D) = Last(E) => Len(D[Last(D)].lines) <= Len(E[Last(E)].lines)
  /\ \A p \in Positions(E) :
       \/ p \in Positions(D) /\ LineAt(E, p) = LineAt(D, p)
       \/ Past(D, p) /\ LineAt(E, p) \in N \cup {Torn}

\* The record a complete line may still be made of.
TailOf(D) == IF DOMAIN D = {} THEN {} ELSE {D[Last(D)].tail} \cap Records

\* The records on the disk; no record is on it twice.
RecordsOn(D) == {LineAt(D, p) : p \in Positions(D)} \cap Records
Single(D) ==
  \A p, q \in Positions(D) :
    LineAt(D, p) = LineAt(D, q) /\ LineAt(D, p) \in Records => p = q

LEMMA DiskShape ==
  ASSUME NEW D, Disk(D), DOMAIN D # {}
  PROVE  /\ Last(D) \in DOMAIN D /\ Last(D) \in Nat \ {0}
         /\ \A s \in DOMAIN D : s <= Last(D) /\ s \in Nat \ {0}
         /\ \E a \in DOMAIN D : DOMAIN D = a..Last(D)
         /\ \A s \in DOMAIN D : /\ D[s] \in Segment /\ D[s].lines \in Seq(Line)
                                /\ Len(D[s].lines) \in Nat
                                /\ D[s].tail \in Line \cup {None}
<1>1. DOMAIN <<>> = {}
  OBVIOUS
<1>2. PICK a \in DOMAIN D, b \in DOMAIN D : DOMAIN D = a..b
  BY <1>1 DEF Disk
<1>3. a \in Nat \ {0} /\ b \in Nat \ {0}
  BY DEF Disk
<1>4. \A x \in DOMAIN D : x <= b
  BY <1>2, <1>3
<1>5. Last(D) = b
  <2>1. \A s \in DOMAIN D : (\A x \in DOMAIN D : x <= s) => s = b
    BY <1>2, <1>3, <1>4
  <2> QED BY <1>4, <2>1 DEF Last
<1>6. \A s \in DOMAIN D : D[s] \in Segment
  BY DEF Disk
<1> QED BY <1>2, <1>3, <1>4, <1>5, <1>6 DEF Segment

LEMMA PositionsOf ==
  ASSUME NEW D, Disk(D), NEW p
  PROVE  /\ p \in Positions(D) <=> /\ p \in Position /\ p[1] \in DOMAIN D
                                   /\ p[2] \in 1..Len(D[p[1]].lines)
         /\ p \in Positions(D) => p[1] >= 1 /\ p[2] >= 1 /\ LineAt(D, p) \in Line
<1>1. \A s \in DOMAIN D : s \in Nat \ {0} /\ D[s].lines \in Seq(Line) /\ Len(D[s].lines) \in Nat
  BY DEF Disk, Segment
<1>2. p \in Positions(D) <=> \E s \in DOMAIN D : p \in {s} \X (1..Len(D[s].lines))
  BY DEF Positions
<1>3. ASSUME p \in Positions(D)
      PROVE  p \in Position /\ p[1] \in DOMAIN D /\ p[2] \in 1..Len(D[p[1]].lines)
  <2>1. PICK s \in DOMAIN D : p \in {s} \X (1..Len(D[s].lines))
    BY <1>2, <1>3
  <2>2. p = <<p[1], p[2]>> /\ p[1] = s /\ p[2] \in 1..Len(D[s].lines)
    BY <2>1
  <2> QED BY <2>2, <1>1 DEF Position
<1>4. ASSUME p \in Position, p[1] \in DOMAIN D, p[2] \in 1..Len(D[p[1]].lines)
      PROVE  p \in Positions(D)
  <2>1. p = <<p[1], p[2]>>
    BY <1>4 DEF Position
  <2>2. p \in {p[1]} \X (1..Len(D[p[1]].lines))
    BY <2>1, <1>4
  <2> QED BY <2>2, <1>2, <1>4
<1>5. p \in Positions(D) => p[1] >= 1 /\ p[2] >= 1 /\ LineAt(D, p) \in Line
  BY <1>1, <1>3, ElementOfSeq DEF LineAt
<1> QED BY <1>3, <1>4, <1>5

\* Lines that are on the disk lie inside it; lines that come later lie behind.
LEMMA InsideAll ==
  ASSUME NEW D, Disk(D), NEW p \in Positions(D)
  PROVE  Inside(D, p)
<1>1. /\ p[1] \in DOMAIN D /\ p[2] \in 1..Len(D[p[1]].lines)
  BY PositionsOf
<1>2. p[1] <= Last(D) /\ Last(D) \in Nat /\ p[1] \in Nat /\ DOMAIN D # {}
  BY <1>1, DiskShape
<1>3. Len(D[p[1]].lines) \in Nat
  BY <1>1, DiskShape
<1> QED BY <1>1, <1>2, <1>3 DEF Inside

LEMMA PastAll ==
  ASSUME NEW D, NEW E, Disk(D), Disk(E), NEW p \in Positions(E), Past(D, p),
         NEW x \in Position, Inside(D, x)
  PROVE  Before(x, p) /\ ~ Upto(p, x)
<1>1. p[1] \in Nat \ {0} /\ p[2] \in Nat \ {0} /\ p \in Position
  BY PositionsOf DEF Position
<1>2. x[1] \in Nat /\ x[2] \in Nat
  BY DEF Position
<1>3. CASE x = Origin
  BY <1>1, <1>3 DEF Origin, Before, Upto
<1>4. CASE x # Origin
  <2>1. /\ DOMAIN D # {}
        /\ \/ x[1] < Last(D)
           \/ x[1] = Last(D) /\ x[2] <= Len(D[Last(D)].lines)
    BY <1>4 DEF Inside
  <2>2. Last(D) \in Nat /\ Len(D[Last(D)].lines) \in Nat
    BY <2>1, DiskShape
  <2>3. p[1] > Last(D) \/ (p[1] = Last(D) /\ p[2] > Len(D[Last(D)].lines))
    BY <2>1 DEF Past
  <2> QED BY <1>1, <1>2, <2>1, <2>2, <2>3 DEF Before, Upto
<1> QED BY <1>3, <1>4

LEMMA InsideKept ==
  ASSUME NEW D, NEW E, NEW N, Disk(D), Disk(E), Grown(D, E, N),
         NEW x \in Position, Inside(D, x)
  PROVE  Inside(E, x)
<1>1. CASE x = Origin
  BY <1>1 DEF Inside
<1>2. CASE x # Origin
  <2>1. /\ DOMAIN D # {}
        /\ \/ x[1] < Last(D)
           \/ x[1] = Last(D) /\ x[2] <= Len(D[Last(D)].lines)
    BY <1>2 DEF Inside
  <2>2. /\ DOMAIN E # {} /\ Last(D) <= Last(E)
        /\ Last(D) = Last(E) => Len(D[Last(D)].lines) <= Len(E[Last(E)].lines)
    BY <2>1 DEF Grown
  <2>3. /\ Last(D) \in Nat /\ Len(D[Last(D)].lines) \in Nat
        /\ Last(E) \in Nat /\ Len(E[Last(E)].lines) \in Nat
        /\ x[1] \in Nat /\ x[2] \in Nat
    BY <2>1, <2>2, DiskShape DEF Position
  <2> QED BY <2>1, <2>2, <2>3 DEF Inside
<1> QED BY <1>1, <1>2

LEMMA GrownTwice ==
  ASSUME NEW D, NEW E, NEW F, NEW N, NEW M, Disk(D), Disk(E), Disk(F),
         Grown(D, E, N), Grown(E, F, M)
  PROVE  Grown(D, F, N \cup M)
<1>1. CASE DOMAIN D = {}
  <2>1. \A p \in Positions(F) : LineAt(F, p) \in N \cup M \cup {Torn}
    <3> TAKE p \in Positions(F)
    <3>1. CASE p \in Positions(E) /\ LineAt(F, p) = LineAt(E, p)
      <4>1. p \notin Positions(D)
        BY <1>1, PositionsOf
      <4> QED BY <3>1, <4>1 DEF Grown
    <3>2. CASE LineAt(F, p) \in M \cup {Torn}
      BY <3>2
    <3> QED BY <3>1, <3>2 DEF Grown
  <2> QED BY <1>1, <2>1 DEF Grown, Past
<1>2. CASE DOMAIN D # {}
  <2>1. /\ DOMAIN E # {} /\ Last(D) <= Last(E)
        /\ Last(D) = Last(E) => Len(D[Last(D)].lines) <= Len(E[Last(E)].lines)
    BY <1>2 DEF Grown
  <2>2. /\ DOMAIN F # {} /\ Last(E) <= Last(F)
        /\ Last(E) = Last(F) => Len(E[Last(E)].lines) <= Len(F[Last(F)].lines)
    BY <2>1 DEF Grown
  <2>3. /\ Last(D) \in Nat /\ Len(D[Last(D)].lines) \in Nat
        /\ Last(E) \in Nat /\ Len(E[Last(E)].lines) \in Nat
        /\ Last(F) \in Nat /\ Len(F[Last(F)].lines) \in Nat
    BY <1>2, <2>1, <2>2, DiskShape
  <2>4. /\ Last(D) <= Last(F)
        /\ Last(D) = Last(F) => Len(D[Last(D)].lines) <= Len(F[Last(F)].lines)
    BY <2>1, <2>2, <2>3
  <2>5. ASSUME NEW p \in Positions(F)
        PROVE  \/ p \in Positions(D) /\ LineAt(F, p) = LineAt(D, p)
               \/ Past(D, p) /\ LineAt(F, p) \in N \cup M \cup {Torn}
    <3>1. CASE p \in Positions(E) /\ LineAt(F, p) = LineAt(E, p)
      BY <3>1 DEF Grown
    <3>2. CASE Past(E, p) /\ LineAt(F, p) \in M \cup {Torn}
      <4>1. p[1] \in Nat /\ p[2] \in Nat
        BY PositionsOf DEF Position
      <4>2. Past(D, p)
        BY <2>1, <2>3, <3>2, <4>1 DEF Past
      <4> QED BY <3>2, <4>2
    <3> QED BY <3>1, <3>2 DEF Grown
  <2> QED BY <1>2, <2>2, <2>4, <2>5 DEF Grown
<1> QED BY <1>1, <1>2

-----------------------------------------------------------------------------
(* What an append does to the disk.                                        *)

\* All lines of D are still on E.
Kept(D, E) == \A p \in Positions(D) : p \in Positions(E) /\ LineAt(E, p) = LineAt(D, p)

LinesAt(D, s) == IF s \in DOMAIN D THEN D[s].lines ELSE <<>>

LEMMA LastOf ==
  ASSUME NEW D, NEW a \in Nat, NEW b \in Nat, a <= b, DOMAIN D = a..b
  PROVE  Last(D) = b
<1>1. b \in DOMAIN D /\ \A x \in DOMAIN D : x <= b
  OBVIOUS
<1>2. ASSUME NEW s \in DOMAIN D, \A x \in DOMAIN D : x <= s
      PROVE  s = b
  <2>1. b <= s /\ s <= b /\ s \in Nat
    BY <1>1, <1>2
  <2> QED BY <2>1
<1> QED BY <1>1, <1>2 DEF Last

\* Segment s, the last one or the one after it, is extended to g by lines of N.
Extends(D, E, s, g, N) ==
  /\ g \in Segment
  /\ DOMAIN D = {} => s = 1
  /\ DOMAIN D # {} => s \in {Last(D), Last(D) + 1}
  /\ E = [x \in DOMAIN D \cup {s} |-> IF x = s THEN g ELSE D[x]]
  /\ Len(LinesAt(D, s)) <= Len(g.lines)
  /\ \A n \in 1..Len(LinesAt(D, s)) : g.lines[n] = LinesAt(D, s)[n]
  /\ \A n \in 1..Len(g.lines) :
       n > Len(LinesAt(D, s)) => g.lines[n] \in N \cup {Torn}

LEMMA SegmentGrows ==
  ASSUME NEW D, Disk(D), NEW E, NEW s, NEW g, NEW N, Extends(D, E, s, g, N)
  PROVE  /\ Disk(E) /\ Grown(D, E, N) /\ Kept(D, E)
         /\ DOMAIN E # {} /\ Last(E) = s /\ E[s] = g
<1> USE DEF Extends
<1>1. /\ DOMAIN E = DOMAIN D \cup {s} /\ E[s] = g
      /\ \A x \in DOMAIN D : x # s => E[x] = D[x]
  OBVIOUS
<1>2. /\ s \in Nat \ {0}
      /\ \E a \in Nat \ {0} : a <= s /\ DOMAIN E = a..s
      /\ \A x \in DOMAIN D : x <= s
  <2>1. CASE DOMAIN D = {}
    <3>1. s = 1 /\ DOMAIN E = 1..1
      BY <1>1, <2>1
    <3> QED BY <2>1, <3>1
  <2>2. CASE DOMAIN D # {}
    <3>1. PICK a \in DOMAIN D : DOMAIN D = a..Last(D)
      BY <2>2, DiskShape
    <3>2. a \in Nat \ {0} /\ a <= Last(D) /\ Last(D) \in Nat \ {0} /\ Last(D) \in DOMAIN D
      BY <2>2, <3>1, DiskShape
    <3>3. DOMAIN E = a..s /\ a <= s /\ s \in Nat \ {0}
      BY <1>1, <2>2, <3>1, <3>2
    <3> QED BY <3>1, <3>2, <3>3, <2>2
  <2> QED BY <2>1, <2>2
<1>3. PICK a \in Nat \ {0} : a <= s /\ DOMAIN E = a..s
  BY <1>2
<1>4. Last(E) = s
  BY <1>2, <1>3, LastOf
<1>5. \A x \in DOMAIN E : E[x] \in Segment
  BY <1>1 DEF Disk
<1>6. Disk(E)
  <2>1. a \in DOMAIN E /\ s \in DOMAIN E /\ DOMAIN E \subseteq Nat \ {0}
    BY <1>2, <1>3
  <2> QED BY <1>3, <1>5, <2>1 DEF Disk
<1>7. g.lines \in Seq(Line) /\ Len(g.lines) \in Nat
  BY DEF Segment
<1>8. Len(LinesAt(D, s)) \in Nat
  BY DiskShape DEF LinesAt
<1>9. DOMAIN D # {} =>
        /\ Last(D) <= s
        /\ Last(D) = s => LinesAt(D, s) = D[Last(D)].lines
  BY DiskShape DEF LinesAt
<1>10. Kept(D, E)
  <2> SUFFICES ASSUME NEW p \in Positions(D)
               PROVE  p \in Positions(E) /\ LineAt(E, p) = LineAt(D, p)
    BY DEF Kept
  <2>1. p \in Position /\ p[1] \in DOMAIN D /\ p[2] \in 1..Len(D[p[1]].lines)
    BY PositionsOf
  <2>2. CASE p[1] # s
    <3>1. E[p[1]] = D[p[1]] /\ p[1] \in DOMAIN E
      BY <1>1, <2>1, <2>2
    <3> QED BY <1>6, <2>1, <3>1, PositionsOf DEF LineAt
  <2>3. CASE p[1] = s
    <3>1. LinesAt(D, s) = D[p[1]].lines
      BY <2>1, <2>3 DEF LinesAt
    <3>2. p[2] \in 1..Len(E[p[1]].lines) /\ E[p[1]].lines[p[2]] = D[p[1]].lines[p[2]]
      BY <1>1, <1>7, <1>8, <2>1, <2>3, <3>1
    <3> QED BY <1>1, <1>6, <2>1, <2>3, <3>2, PositionsOf DEF LineAt
  <2> QED BY <2>2, <2>3
<1>11. ASSUME NEW p \in Positions(E)
       PROVE  \/ p \in Positions(D) /\ LineAt(E, p) = LineAt(D, p)
              \/ Past(D, p) /\ LineAt(E, p) \in N \cup {Torn}
  <2>1. p \in Position /\ p[1] \in DOMAIN E /\ p[2] \in 1..Len(E[p[1]].lines)
    BY <1>6, PositionsOf
  <2>2. CASE p[1] # s
    <3>1. E[p[1]] = D[p[1]] /\ p[1] \in DOMAIN D
      BY <1>1, <2>1, <2>2
    <3> QED BY <2>1, <3>1, PositionsOf DEF LineAt
  <2>3. CASE p[1] = s /\ p[2] <= Len(LinesAt(D, s))
    <3>1. s \in DOMAIN D /\ LinesAt(D, s) = D[s].lines
      BY <2>1, <2>3 DEF LinesAt
    <3>2. p[2] \in 1..Len(D[s].lines)
      BY <1>8, <2>1, <2>3, <3>1 DEF Position
    <3>3. LineAt(E, p) = LineAt(D, p)
      BY <1>1, <2>3, <3>1, <3>2 DEF LineAt
    <3> QED BY <2>1, <2>3, <3>1, <3>2, <3>3, PositionsOf
  <2>4. CASE p[1] = s /\ p[2] > Len(LinesAt(D, s))
    <3>1. LineAt(E, p) \in N \cup {Torn}
      BY <1>1, <2>1, <2>4 DEF LineAt
    <3>2. Past(D, p)
      <4>1. CASE DOMAIN D = {}
        BY <4>1 DEF Past
      <4>2. CASE DOMAIN D # {} /\ s > Last(D)
        BY <2>4, <4>2 DEF Past
      <4>3. CASE DOMAIN D # {} /\ s = Last(D)
        BY <1>9, <2>4, <4>3 DEF Past
      <4>4. DOMAIN D # {} => Last(D) \in Nat
        BY DiskShape
      <4>5. CASE DOMAIN D # {} /\ s = Last(D) + 1
        BY <4>2, <4>4, <4>5
      <4> QED BY <4>1, <4>3, <4>5
    <3> QED BY <3>1, <3>2
  <2>5. p[2] \in Nat
    BY <2>1 DEF Position
  <2> QED BY <1>8, <2>2, <2>3, <2>4, <2>5
<1>12. Grown(D, E, N)
  <2>1. DOMAIN D # {} =>
          /\ DOMAIN E # {} /\ Last(D) <= Last(E)
          /\ Last(D) = Last(E) => Len(D[Last(D)].lines) <= Len(E[Last(E)].lines)
    BY <1>1, <1>4, <1>9
  <2> QED BY <1>11, <2>1 DEF Grown
<1> QED BY <1>1, <1>4, <1>6, <1>10, <1>12

\* Beyond the first k lines, no record is there twice.
Distinct(q, k) ==
  \A m, n \in 1..Len(q) :
    m > k /\ n > k /\ q[m] = q[n] /\ q[m] \in Records => m = n

Injective(q) == \A i, j \in 1..Len(q) : q[i] = q[j] => i = j

LEMMA SegmentSingle ==
  ASSUME NEW D, Disk(D), NEW E, NEW s, NEW g, NEW N, Extends(D, E, s, g, N),
         Single(D), N \cap RecordsOn(D) = {}, Distinct(g.lines, Len(LinesAt(D, s)))
  PROVE  Single(E)
<1>1. /\ Disk(E) /\ DOMAIN E = DOMAIN D \cup {s} /\ E[s] = g
      /\ \A x \in DOMAIN D : x # s => E[x] = D[x]
  <2>1. Disk(E)
    BY SegmentGrows
  <2> QED BY <2>1 DEF Extends
<1>2. ASSUME NEW p \in Positions(E)
      PROVE  \/ p \in Positions(D) /\ LineAt(E, p) = LineAt(D, p)
             \/ /\ p[1] = s /\ p[2] \in 1..Len(g.lines) /\ p[2] > Len(LinesAt(D, s))
                /\ LineAt(E, p) = g.lines[p[2]] /\ LineAt(E, p) \in N \cup {Torn}
  <2>1. p \in Position /\ p[1] \in DOMAIN E /\ p[2] \in 1..Len(E[p[1]].lines)
    BY <1>1, PositionsOf
  <2>2. CASE p[1] # s
    <3>1. E[p[1]] = D[p[1]] /\ p[1] \in DOMAIN D
      BY <1>1, <2>1, <2>2
    <3> QED BY <2>1, <3>1, PositionsOf DEF LineAt
  <2>3. CASE p[1] = s /\ p[2] > Len(LinesAt(D, s))
    BY <1>1, <2>1, <2>3 DEF LineAt, Extends
  <2>4. CASE p[1] = s /\ ~ (p[2] > Len(LinesAt(D, s)))
    <3>1. Len(LinesAt(D, s)) \in Nat /\ p[2] \in Nat
      BY <2>1, DiskShape DEF LinesAt, Position
    <3>2. s \in DOMAIN D /\ LinesAt(D, s) = D[s].lines
      BY <2>1, <2>4 DEF LinesAt
    <3>3. p[2] \in 1..Len(D[s].lines) /\ g.lines[p[2]] = D[s].lines[p[2]]
      BY <2>1, <2>4, <3>1, <3>2 DEF Extends
    <3> QED BY <1>1, <2>1, <2>4, <3>2, <3>3, PositionsOf DEF LineAt
  <2> QED BY <2>2, <2>3, <2>4
<1>3. Torn \notin Records
  BY RecordsAssumption
<1>4. \A p \in Positions(D) : LineAt(D, p) \in Records => LineAt(D, p) \notin N
  BY DEF RecordsOn
<1> SUFFICES ASSUME NEW p \in Positions(E), NEW q \in Positions(E),
                    LineAt(E, p) = LineAt(E, q), LineAt(E, p) \in Records
             PROVE  p = q
  BY DEF Single
<1>5. CASE p \in Positions(D) /\ LineAt(E, p) = LineAt(D, p)
  <2>1. q \in Positions(D) /\ LineAt(E, q) = LineAt(D, q)
    BY <1>2, <1>3, <1>4, <1>5
  <2> QED BY <1>5, <2>1 DEF Single
<1>6. CASE q \in Positions(D) /\ LineAt(E, q) = LineAt(D, q)
  <2>1. p \in Positions(D) /\ LineAt(E, p) = LineAt(D, p)
    BY <1>2, <1>3, <1>4, <1>6
  <2> QED BY <1>6, <2>1 DEF Single
<1>7. CASE /\ p[1] = s /\ q[1] = s /\ p[2] \in 1..Len(g.lines) /\ q[2] \in 1..Len(g.lines)
           /\ p[2] > Len(LinesAt(D, s)) /\ q[2] > Len(LinesAt(D, s))
           /\ LineAt(E, p) = g.lines[p[2]] /\ LineAt(E, q) = g.lines[q[2]]
  <2>1. p[2] = q[2]
    BY <1>7 DEF Distinct
  <2>2. p = <<p[1], p[2]>> /\ q = <<q[1], q[2]>>
    BY <1>1, PositionsOf DEF Position
  <2> QED BY <1>7, <2>1, <2>2
<1> QED BY <1>2, <1>5, <1>6, <1>7

LEMMA Unchanged ==
  ASSUME NEW D, Disk(D), NEW N
  PROVE  Grown(D, D, N) /\ Kept(D, D)
<1>1. DOMAIN D # {} => Last(D) \in Nat /\ Len(D[Last(D)].lines) \in Nat
  BY DiskShape
<1> QED BY <1>1 DEF Grown, Kept

LEMMA OpenedGrows ==
  ASSUME NEW D, Disk(D), None \notin Line
  PROVE  /\ Disk(Opened(D)) /\ Grown(D, Opened(D), TailOf(D)) /\ Kept(D, Opened(D))
         /\ TailOf(Opened(D)) = {}
         /\ DOMAIN Opened(D) # {} => Opened(D)[Last(Opened(D))].tail = None
         /\ Single(D) /\ TailOf(D) \cap RecordsOn(D) = {} => Single(Opened(D))
<1>1. CASE DOMAIN D = {} \/ D[Last(D)].tail = None
  <2>1. Opened(D) = D
    BY <1>1 DEF Opened
  <2>2. TailOf(D) = {}
    BY <1>1 DEF TailOf, Line
  <2> QED BY <1>1, <2>1, <2>2, Unchanged
<1>2. CASE DOMAIN D # {} /\ D[Last(D)].tail # None
  <2> DEFINE s == Last(D)
             g == [lines |-> Append(D[s].lines, D[s].tail), tail |-> None]
             E == Opened(D)
  <2>1. /\ s \in DOMAIN D /\ s \in Nat \ {0} /\ D[s].lines \in Seq(Line)
        /\ Len(D[s].lines) \in Nat /\ D[s].tail \in Line
    BY <1>2, DiskShape
  <2>2. /\ Append(D[s].lines, D[s].tail) \in Seq(Line)
        /\ Len(Append(D[s].lines, D[s].tail)) = Len(D[s].lines) + 1
        /\ \A i \in 1..Len(D[s].lines) : Append(D[s].lines, D[s].tail)[i] = D[s].lines[i]
        /\ Append(D[s].lines, D[s].tail)[Len(D[s].lines) + 1] = D[s].tail
    BY <2>1, AppendProperties
  <2>3. g \in Segment /\ g.tail = None
    BY <2>2 DEF Segment
  <2>4. E = [x \in DOMAIN D \cup {s} |-> IF x = s THEN g ELSE D[x]]
    <3>1. E = [D EXCEPT ![s] = g]
      BY <1>2 DEF Opened
    <3>2. DOMAIN D \cup {s} = DOMAIN D
      BY <2>1
    <3> QED BY <3>1, <3>2
  <2>5. LinesAt(D, s) = D[s].lines
    BY <2>1 DEF LinesAt
  <2>6. D[s].tail \in TailOf(D) \cup {Torn}
    BY <1>2, <2>1 DEF TailOf, Line
  <2>7. /\ Len(LinesAt(D, s)) <= Len(g.lines)
        /\ \A n \in 1..Len(LinesAt(D, s)) : g.lines[n] = LinesAt(D, s)[n]
        /\ \A n \in 1..Len(g.lines) :
             n > Len(LinesAt(D, s)) => g.lines[n] \in TailOf(D) \cup {Torn}
    BY <2>1, <2>2, <2>5, <2>6
  <2>8. (DOMAIN D = {} => s = 1) /\ s \in {Last(D), Last(D) + 1}
    BY <1>2
  <2> HIDE DEF s, g, E
  <2>11. Extends(D, E, s, g, TailOf(D))
    BY <2>3, <2>4, <2>7, <2>8 DEF Extends
  <2>9. /\ Disk(E) /\ Grown(D, E, TailOf(D)) /\ Kept(D, E)
        /\ DOMAIN E # {} /\ Last(E) = s /\ E[s] = g
    BY <2>11, SegmentGrows
  <2>10. TailOf(E) = {}
    BY <2>3, <2>9 DEF TailOf, Line
  <2>12. ASSUME Single(D), TailOf(D) \cap RecordsOn(D) = {}
         PROVE  Single(E)
    <3>1. Len(g.lines) = Len(LinesAt(D, s)) + 1 /\ Len(LinesAt(D, s)) \in Nat
      BY <2>1, <2>2, <2>5 DEF g
    <3>2. Distinct(g.lines, Len(LinesAt(D, s)))
      BY <3>1 DEF Distinct
    <3> QED BY <2>11, <2>12, <3>2, SegmentSingle
  <2> QED BY <2>3, <2>9, <2>10, <2>12 DEF E
<1> QED BY <1>1, <1>2

LEMMA ElementsOf ==
  ASSUME NEW S, NEW q \in Seq(S)
  PROVE  Elements(q) \subseteq S /\ \A i \in 1..Len(q) : q[i] \in Elements(q)
BY ElementOfSeq DEF Elements

LEMMA SegmentExtended ==
  ASSUME NEW g \in Segment, NEW lines \in Seq(Records), NEW tail \in Line \cup {None},
         NEW h, h = Extended(g, lines, tail)
  PROVE  /\ h \in Segment
         /\ Len(g.lines) <= Len(h.lines)
         /\ \A n \in 1..Len(g.lines) : h.lines[n] = g.lines[n]
         /\ \A n \in 1..Len(h.lines) :
              n > Len(g.lines) => h.lines[n] \in Elements(lines) \cup {Torn}
         /\ h.tail \in {tail, g.tail, Torn}
         /\ g.tail = None =>
              /\ h.tail = tail
              /\ \A r \in Elements(lines) : \E n \in 1..Len(h.lines) : h.lines[n] = r
         /\ Injective(lines) => Distinct(h.lines, Len(g.lines))
<1>1. g.lines \in Seq(Line) /\ Len(g.lines) \in Nat /\ g.tail \in Line \cup {None}
  BY DEF Segment
<1>2. lines \in Seq(Line) /\ Len(lines) \in Nat
  BY SeqMonotonic DEF Line
<1>3. \A i \in 1..Len(lines) : lines[i] \in Elements(lines)
  BY ElementsOf
<1>4. CASE g.tail = None
  <2>1. h = [lines |-> g.lines \o lines, tail |-> tail]
    BY <1>4 DEF Extended
  <2>2. /\ g.lines \o lines \in Seq(Line)
        /\ Len(g.lines \o lines) = Len(g.lines) + Len(lines)
        /\ \A i \in 1..Len(g.lines) + Len(lines) : (g.lines \o lines)[i] =
             IF i <= Len(g.lines) THEN g.lines[i] ELSE lines[i - Len(g.lines)]
    BY <1>1, <1>2, ConcatProperties
  <2>3. h.lines = g.lines \o lines /\ h.tail = tail /\ h \in Segment
    BY <2>1, <2>2 DEF Segment
  <2> DEFINE l == g.lines \o lines
  <2> HIDE DEF l
  <2>4. \A n \in 1..Len(l) : n > Len(g.lines) => l[n] \in Elements(lines)
    <3> SUFFICES ASSUME NEW n \in 1..Len(l), n > Len(g.lines)
                 PROVE  l[n] \in Elements(lines)
      OBVIOUS
    <3>1. l[n] = lines[n - Len(g.lines)] /\ n - Len(g.lines) \in 1..Len(lines)
      BY <1>1, <1>2, <2>2 DEF l
    <3> QED BY <1>3, <3>1
  <2>5. \A r \in Elements(lines) : \E n \in 1..Len(l) : l[n] = r
    <3> SUFFICES ASSUME NEW r \in Elements(lines)
                 PROVE  \E n \in 1..Len(l) : l[n] = r
      OBVIOUS
    <3>1. PICK i \in 1..Len(lines) : lines[i] = r
      BY DEF Elements
    <3>2. i + Len(g.lines) \in 1..Len(l) /\ l[i + Len(g.lines)] = lines[i]
      BY <1>1, <1>2, <2>2 DEF l
    <3> QED BY <3>1, <3>2
  <2>6. Len(g.lines) <= Len(l) /\ \A n \in 1..Len(g.lines) : l[n] = g.lines[n]
    BY <1>1, <1>2, <2>2 DEF l
  <2>7. h.lines = l
    BY <2>3 DEF l
  <2>8. ASSUME Injective(lines)
        PROVE  Distinct(l, Len(g.lines))
    <3> SUFFICES ASSUME NEW m \in 1..Len(l), NEW n \in 1..Len(l), m > Len(g.lines),
                        n > Len(g.lines), l[m] = l[n]
                 PROVE  m = n
      BY DEF Distinct
    <3>1. /\ l[n] = lines[n - Len(g.lines)] /\ n - Len(g.lines) \in 1..Len(lines)
          /\ l[m] = lines[m - Len(g.lines)] /\ m - Len(g.lines) \in 1..Len(lines)
      BY <1>1, <1>2, <2>2 DEF l
    <3>2. m - Len(g.lines) = n - Len(g.lines)
      BY <2>8, <3>1 DEF Injective
    <3> QED BY <1>1, <3>2
  <2> QED BY <2>3, <2>4, <2>5, <2>6, <2>7, <2>8
<1>5. CASE g.tail # None /\ lines = <<>>
  <2>1. h = [g EXCEPT !.tail = IF tail = None THEN @ ELSE Torn]
    BY <1>5 DEF Extended
  <2>2. h.lines = g.lines /\ h.tail \in {g.tail, Torn} /\ h \in Segment
    BY <1>1, <2>1 DEF Segment, Line
  <2>3. Distinct(h.lines, Len(g.lines))
    <3>1. \A m \in 1..Len(g.lines) : ~ (m > Len(g.lines))
      BY <1>1
    <3> QED BY <2>2, <3>1 DEF Distinct
  <2> QED BY <1>1, <1>5, <2>2, <2>3
<1>6. CASE g.tail # None /\ lines # <<>>
  <2> DEFINE m == g.lines \o <<Torn>>
             l == m \o Tail(lines)
  <2>1. h = [lines |-> l, tail |-> tail]
    BY <1>6 DEF Extended
  <2>2. <<Torn>> \in Seq(Line) /\ Len(<<Torn>>) = 1 /\ <<Torn>>[1] = Torn
    BY DEF Line
  <2>3. /\ m \in Seq(Line) /\ Len(m) = Len(g.lines) + 1
        /\ \A i \in 1..Len(g.lines) + 1 :
             m[i] = IF i <= Len(g.lines) THEN g.lines[i] ELSE <<Torn>>[i - Len(g.lines)]
    BY <1>1, <2>2, ConcatProperties
  <2>4. /\ Tail(lines) \in Seq(Line) /\ Len(Tail(lines)) = Len(lines) - 1
        /\ \A i \in 1..Len(Tail(lines)) : Tail(lines)[i] = lines[i + 1]
    BY <1>2, <1>6, HeadTailProperties
  <2> HIDE DEF m
  <2>5. /\ l \in Seq(Line) /\ Len(l) = Len(m) + Len(Tail(lines))
        /\ \A i \in 1..Len(m) + Len(Tail(lines)) :
             l[i] = IF i <= Len(m) THEN m[i] ELSE Tail(lines)[i - Len(m)]
    BY <2>3, <2>4, ConcatProperties
  <2> HIDE DEF l
  <2>6. Len(lines) \in Nat \ {0}
    BY <1>2, <1>6, EmptySeq
  <2>7. h.lines = l /\ h.tail = tail /\ h \in Segment
    BY <2>1, <2>5 DEF Segment
  <2>8. \A n \in 1..Len(l) : n > Len(g.lines) => l[n] \in Elements(lines) \cup {Torn}
    <3> SUFFICES ASSUME NEW n \in 1..Len(l), n > Len(g.lines)
                 PROVE  l[n] \in Elements(lines) \cup {Torn}
      OBVIOUS
    <3>1. CASE n = Len(g.lines) + 1
      <4>1. Len(Tail(lines)) \in Nat /\ n \in 1..Len(m) + Len(Tail(lines)) /\ n <= Len(m)
        BY <1>1, <2>3, <2>4, <2>5, <2>6, <3>1
      <4>2. l[n] = m[n]
        BY <2>5, <4>1
      <4>3. n \in 1..Len(g.lines) + 1 /\ ~ (n <= Len(g.lines)) /\ n - Len(g.lines) = 1
        BY <1>1, <3>1
      <4>4. m[n] = <<Torn>>[1]
        BY <2>3, <4>3
      <4> QED BY <2>2, <4>2, <4>4
    <3>2. CASE n > Len(g.lines) + 1
      <4>1. n - Len(m) \in 1..Len(Tail(lines)) /\ l[n] = Tail(lines)[n - Len(m)]
        BY <1>1, <2>3, <2>4, <2>5, <2>6, <3>2
      <4>2. l[n] = lines[n - Len(m) + 1] /\ n - Len(m) + 1 \in 1..Len(lines)
        BY <1>1, <2>3, <2>4, <2>6, <4>1
      <4> QED BY <1>3, <4>2
    <3> QED BY <1>1, <3>1, <3>2
  <2>9. Len(g.lines) <= Len(l)
    BY <1>1, <2>3, <2>4, <2>5, <2>6
  <2>10. \A n \in 1..Len(g.lines) : l[n] = g.lines[n]
    <3> TAKE n \in 1..Len(g.lines)
    <3>1. /\ n \in 1..Len(m) + Len(Tail(lines)) /\ n <= Len(m)
          /\ n \in 1..Len(g.lines) + 1 /\ n <= Len(g.lines)
      BY <1>1, <2>3, <2>4, <2>6
    <3>2. l[n] = m[n]
      BY <2>5, <3>1
    <3>3. m[n] = g.lines[n]
      BY <2>3, <3>1
    <3> QED BY <3>2, <3>3
  <2>11. ASSUME Injective(lines)
         PROVE  Distinct(l, Len(g.lines))
    <3>1. ASSUME NEW n \in 1..Len(l), n > Len(g.lines), l[n] \in Records
          PROVE  /\ n - Len(g.lines) \in 1..Len(lines)
                 /\ l[n] = lines[n - Len(g.lines)]
      <4>1. CASE n = Len(g.lines) + 1
        <5>1. Len(Tail(lines)) \in Nat /\ n \in 1..Len(m) + Len(Tail(lines)) /\ n <= Len(m)
          BY <1>1, <2>3, <2>4, <2>5, <2>6, <4>1
        <5>2. l[n] = m[n]
          BY <2>5, <5>1
        <5>3. n \in 1..Len(g.lines) + 1 /\ ~ (n <= Len(g.lines)) /\ n - Len(g.lines) = 1
          BY <1>1, <4>1
        <5>4. m[n] = <<Torn>>[1]
          BY <2>3, <5>3
        <5>5. Torn \notin Records
          BY RecordsAssumption
        <5> QED BY <2>2, <3>1, <5>2, <5>4, <5>5
      <4>2. CASE n > Len(g.lines) + 1
        <5>1. n - Len(m) \in 1..Len(Tail(lines)) /\ l[n] = Tail(lines)[n - Len(m)]
          BY <1>1, <2>3, <2>4, <2>5, <2>6, <4>2
        <5>2. l[n] = lines[n - Len(m) + 1] /\ n - Len(m) + 1 \in 1..Len(lines)
          BY <1>1, <2>3, <2>4, <2>6, <5>1
        <5>3. n - Len(m) + 1 = n - Len(g.lines)
          BY <1>1, <2>3
        <5> QED BY <5>2, <5>3
      <4> QED BY <1>1, <3>1, <4>1, <4>2
    <3> SUFFICES ASSUME NEW i \in 1..Len(l), NEW n \in 1..Len(l), i > Len(g.lines),
                        n > Len(g.lines), l[i] = l[n], l[i] \in Records
                 PROVE  i = n
      BY DEF Distinct
    <3>2. i - Len(g.lines) = n - Len(g.lines)
      <4>1. /\ i - Len(g.lines) \in 1..Len(lines) /\ l[i] = lines[i - Len(g.lines)]
            /\ n - Len(g.lines) \in 1..Len(lines) /\ l[n] = lines[n - Len(g.lines)]
        BY <3>1
      <4> QED BY <2>11, <4>1 DEF Injective
    <3> QED BY <1>1, <3>2
  <2> QED BY <1>6, <2>7, <2>8, <2>9, <2>10, <2>11
<1> QED BY <1>4, <1>5, <1>6

LEMMA WrittenGrows ==
  ASSUME NEW D, Disk(D), NEW lines \in Seq(Records), NEW tail \in Line \cup {None},
         None \notin Line, NEW W, W = Written(D, lines, tail)
  PROVE  /\ Disk(W) /\ Grown(D, W, Elements(lines)) /\ Kept(D, W)
         /\ DOMAIN W # {}
         /\ TailOf(W) \subseteq TailOf(D) \cup {tail}
         /\ (DOMAIN D = {} \/ D[Last(D)].tail = None) =>
              /\ W[Last(W)].tail = tail
              /\ \A r \in Elements(lines) : \E p \in Positions(W) : LineAt(W, p) = r
         /\ Single(D) /\ Injective(lines) /\ Elements(lines) \cap RecordsOn(D) = {}
              => Single(W)
<1> DEFINE s == Current(D)
           g == IF s \in DOMAIN D THEN D[s] ELSE NoSegment
           h == Extended(g, lines, tail)
<1>1. W = [x \in DOMAIN D \cup {s} |-> IF x = s THEN h ELSE D[x]]
  BY DEF Written
<1>2. NoSegment \in Segment /\ NoSegment.lines = <<>> /\ NoSegment.tail = None
  <2>1. <<>> \in Seq(Line)
    BY EmptySeq
  <2> QED BY <2>1 DEF NoSegment, Segment
<1>3. g \in Segment /\ g.lines = LinesAt(D, s)
  BY <1>2 DEF LinesAt, Disk
<1>4. (DOMAIN D = {} => s = 1) /\ (DOMAIN D # {} => s \in {Last(D), Last(D) + 1})
  BY DEF Current
<1>5. g.tail = None \/ (DOMAIN D # {} /\ s = Last(D) /\ g = D[Last(D)])
  <2>1. CASE s \in DOMAIN D
    <3>1. s <= Last(D) /\ Last(D) \in Nat /\ s \in Nat
      BY <2>1, DiskShape
    <3> QED BY <1>4, <2>1, <3>1
  <2>2. CASE s \notin DOMAIN D
    BY <1>2, <2>2
  <2> QED BY <2>1, <2>2
<1> HIDE DEF s, g, h
<1>6. /\ h \in Segment
      /\ Len(g.lines) <= Len(h.lines)
      /\ \A n \in 1..Len(g.lines) : h.lines[n] = g.lines[n]
      /\ \A n \in 1..Len(h.lines) :
           n > Len(g.lines) => h.lines[n] \in Elements(lines) \cup {Torn}
      /\ h.tail \in {tail, g.tail, Torn}
      /\ g.tail = None =>
           /\ h.tail = tail
           /\ \A r \in Elements(lines) : \E n \in 1..Len(h.lines) : h.lines[n] = r
      /\ Injective(lines) => Distinct(h.lines, Len(g.lines))
  BY <1>3, SegmentExtended DEF h
<1>7. Extends(D, W, s, h, Elements(lines))
  BY <1>1, <1>3, <1>4, <1>6 DEF Extends
<1>8. /\ Disk(W) /\ Grown(D, W, Elements(lines)) /\ Kept(D, W)
      /\ DOMAIN W # {} /\ Last(W) = s /\ W[s] = h
  BY <1>7, SegmentGrows
<1>9. TailOf(W) \subseteq TailOf(D) \cup {tail}
  <2>1. TailOf(W) = {h.tail} \cap Records
    BY <1>8 DEF TailOf
  <2>2. Torn \notin Records /\ None \notin Records
    BY RecordsAssumption
  <2>3. {g.tail} \cap Records \subseteq TailOf(D)
    BY <1>5, <2>2 DEF TailOf
  <2> QED BY <1>6, <2>1, <2>2, <2>3
<1>10. ASSUME DOMAIN D = {} \/ D[Last(D)].tail = None
       PROVE  /\ W[Last(W)].tail = tail
              /\ \A r \in Elements(lines) : \E p \in Positions(W) : LineAt(W, p) = r
  <2>1. g.tail = None
    BY <1>5, <1>10
  <2>2. ASSUME NEW r \in Elements(lines)
        PROVE  \E p \in Positions(W) : LineAt(W, p) = r
    <3>1. PICK n \in 1..Len(h.lines) : h.lines[n] = r
      BY <1>6, <2>1
    <3>2. <<s, n>> \in Position /\ s \in DOMAIN W
      <4>1. s \in DOMAIN W /\ s \in Nat
        BY <1>1, <1>8 DEF Disk
      <4>2. n \in Nat
        BY <1>6 DEF Segment
      <4> QED BY <4>1, <4>2 DEF Position
    <3>3. <<s, n>> \in Positions(W)
      BY <1>8, <3>1, <3>2, PositionsOf
    <3>4. LineAt(W, <<s, n>>) = r
      BY <1>8, <3>1 DEF LineAt
    <3> QED BY <3>3, <3>4
  <2> QED BY <1>6, <1>8, <2>1, <2>2
<1>11. ASSUME Single(D), Injective(lines), Elements(lines) \cap RecordsOn(D) = {}
       PROVE  Single(W)
  <2>1. Distinct(h.lines, Len(LinesAt(D, s)))
    BY <1>3, <1>6, <1>11
  <2> QED BY <1>7, <1>11, <2>1, SegmentSingle
<1> QED BY <1>8, <1>9, <1>10, <1>11

LEMMA PrunedGrows ==
  ASSUME NEW D, Disk(D), DOMAIN D # {},
         NEW E, E = [s \in DOMAIN D \ Excess(D) |-> D[s]]
  PROVE  /\ Disk(E) /\ Grown(D, E, {}) /\ DOMAIN E # {}
         /\ Last(E) = Last(D) /\ E[Last(E)] = D[Last(D)]
         /\ \A p \in Positions(D) :
              p[1] \notin Excess(D) => p \in Positions(E) /\ LineAt(E, p) = LineAt(D, p)
         /\ Single(D) => Single(E)
<1>1. MaxSegments \in Nat \ {0}
  BY BoundsAssumption
<1>2. PICK a \in DOMAIN D : DOMAIN D = a..Last(D)
  BY DiskShape
<1>3. a \in Nat \ {0} /\ Last(D) \in Nat \ {0} /\ a <= Last(D) /\ Last(D) \in DOMAIN D
  BY DiskShape
<1>4. DOMAIN E = DOMAIN D \ Excess(D) /\ \A s \in DOMAIN E : E[s] = D[s]
  OBVIOUS
<1>5. Excess(D) = {s \in a..Last(D) : s + MaxSegments <= Last(D)}
  BY <1>2 DEF Excess
<1>6. \E c \in Nat \ {0} : c <= Last(D) /\ DOMAIN E = c..Last(D)
  <2>1. CASE a + MaxSegments <= Last(D)
    <3> DEFINE c == Last(D) - MaxSegments + 1
    <3>1. c \in Nat \ {0} /\ c <= Last(D) /\ c >= a
      BY <1>1, <1>3, <2>1
    <3>2. DOMAIN E = c..Last(D)
      BY <1>1, <1>2, <1>3, <1>4, <1>5, <3>1
    <3> QED BY <3>1, <3>2
  <2>2. CASE ~ (a + MaxSegments <= Last(D))
    <3>1. Excess(D) = {}
      BY <1>1, <1>3, <1>5, <2>2
    <3> QED BY <1>2, <1>3, <1>4, <3>1
  <2> QED BY <2>1, <2>2
<1>7. PICK c \in Nat \ {0} : c <= Last(D) /\ DOMAIN E = c..Last(D)
  BY <1>6
<1>8. Last(E) = Last(D) /\ Last(D) \in DOMAIN E
  <2>1. c \in Nat /\ Last(D) \in Nat /\ c <= Last(D)
    BY <1>3, <1>7
  <2>2. Last(D) \in DOMAIN E
    BY <1>7, <2>1
  <2> DEFINE z == Last(D)
  <2>3. z \in Nat /\ c \in Nat /\ c <= z /\ DOMAIN E = c..z
    BY <1>7, <2>1
  <2> HIDE DEF z
  <2>4. Last(E) = z
    BY <2>3, LastOf
  <2> QED BY <2>2, <2>4 DEF z
<1>9. Disk(E)
  <2>1. c \in DOMAIN E /\ DOMAIN E \subseteq Nat \ {0}
    BY <1>3, <1>7
  <2>2. \A s \in DOMAIN E : E[s] \in Segment
    BY <1>4 DEF Disk
  <2> QED BY <1>7, <1>8, <2>1, <2>2 DEF Disk
<1>10. \A p \in Positions(E) : p \in Positions(D) /\ LineAt(E, p) = LineAt(D, p)
  BY <1>4, <1>9, PositionsOf DEF LineAt
<1>11. ASSUME NEW p \in Positions(D), p[1] \notin Excess(D)
       PROVE  p \in Positions(E) /\ LineAt(E, p) = LineAt(D, p)
  <2>1. p \in Position /\ p[1] \in DOMAIN D /\ p[2] \in 1..Len(D[p[1]].lines)
    BY PositionsOf
  <2>2. p[1] \in DOMAIN E /\ E[p[1]] = D[p[1]]
    BY <1>4, <1>11, <2>1
  <2> QED BY <1>9, <2>1, <2>2, PositionsOf DEF LineAt
<1>12. Grown(D, E, {})
  <2>1. Len(D[Last(D)].lines) \in Nat
    BY DiskShape
  <2>2. /\ DOMAIN E # {} /\ Last(D) <= Last(E)
        /\ Len(D[Last(D)].lines) <= Len(E[Last(E)].lines)
    BY <1>3, <1>4, <1>8, <2>1
  <2> QED BY <1>10, <2>2 DEF Grown
<1>13. Single(D) => Single(E)
  BY <1>10 DEF Single
<1> QED BY <1>4, <1>8, <1>9, <1>11, <1>12, <1>13

-----------------------------------------------------------------------------
(* Least and greatest positions.                                           *)

LEMMA NatMin ==
  ASSUME NEW T, T \subseteq Nat, T # {}
  PROVE  \E x \in T : \A y \in T : x <= y
<1> DEFINE C == {1..n : n \in T}
<1>1. IsWellFoundedOn(StrictSubsetOrdering(Nat), FiniteSubsetsOf(Nat))
  BY FS_StrictSubsetOrderingWellFounded
<1>2. \A n \in Nat : IsFiniteSet(1..n) /\ 1..n \subseteq Nat
  BY FS_Interval
<1>3. C \subseteq FiniteSubsetsOf(Nat) /\ C # {}
  BY <1>2 DEF FiniteSubsetsOf
<1>4. \E x \in C : \A y \in C : ~ (<<y, x>> \in StrictSubsetOrdering(Nat))
  <2> HIDE DEF C
  <2> QED BY <1>1, <1>3, WFMin
<1>5. PICK x \in T : \A y \in T : ~ (<<1..y, 1..x>> \in StrictSubsetOrdering(Nat))
  BY <1>4
<1>6. ASSUME NEW y \in T, y < x
      PROVE  FALSE
  <2>1. x \in 1..x /\ x \notin 1..y /\ 1..y \subseteq 1..x
    BY <1>6
  <2>2. 1..x \in SUBSET Nat /\ 1..y \in SUBSET Nat /\ 1..x # 1..y
    BY <2>1, <1>2
  <2>3. <<1..y, 1..x>> \in StrictSubsetOrdering(Nat)
    BY <2>1, <2>2, Zenon DEF StrictSubsetOrdering
  <2> QED BY <2>3, <1>5
<1> QED BY <1>6

LEMMA NatMax ==
  ASSUME NEW T, T \subseteq Nat, T # {}, NEW b \in Nat, \A x \in T : x <= b
  PROVE  \E x \in T : \A y \in T : y <= x
<1> DEFINE U == {n \in Nat : \A x \in T : x <= n}
<1>1. U \subseteq Nat /\ b \in U
  OBVIOUS
<1>2. PICK m \in U : \A n \in U : m <= n
  <2> HIDE DEF U
  <2> QED BY <1>1, NatMin
<1>3. ASSUME m \notin T
      PROVE  FALSE
  <2>1. PICK t \in T : TRUE
    OBVIOUS
  <2>2. \A x \in T : x \in Nat /\ x < m
    BY <1>2, <1>3
  <2>3. m - 1 \in Nat /\ \A x \in T : x <= m - 1
    BY <1>2, <2>1, <2>2
  <2>4. m - 1 \in U
    BY <2>3
  <2> QED BY <1>2, <2>4
<1> QED BY <1>2, <1>3

LEMMA OrderOfPositions ==
  ASSUME NEW p \in Position, NEW q \in Position
  PROVE  /\ Before(p, q) \/ Before(q, p) \/ p = q
         /\ ~ Before(p, p)
         /\ Before(p, q) => ~ Upto(q, p)
         /\ Upto(p, q) \/ Before(q, p)
<1>1. p = <<p[1], p[2]>> /\ q = <<q[1], q[2]>>
  BY DEF Position
<1>2. p[1] \in Nat /\ p[2] \in Nat /\ q[1] \in Nat /\ q[2] \in Nat
  BY DEF Position
<1>3. (p[1] = q[1] /\ p[2] = q[2]) => p = q
  BY <1>1
<1> QED BY <1>2, <1>3 DEF Before, Upto

LEMMA BeforeTransitive ==
  ASSUME NEW p \in Position, NEW q \in Position, NEW r \in Position
  PROVE  /\ Before(p, q) /\ Before(q, r) => Before(p, r)
         /\ Before(p, q) /\ Upto(q, r) => Before(p, r)
         /\ Upto(p, q) /\ Before(q, r) => Before(p, r)
         /\ Upto(p, q) /\ Upto(q, r) => Upto(p, r)
<1>1. /\ p[1] \in Nat /\ p[2] \in Nat /\ q[1] \in Nat /\ q[2] \in Nat
      /\ r[1] \in Nat /\ r[2] \in Nat
  BY DEF Position
<1> QED BY <1>1 DEF Before, Upto

LEMMA FirstOf ==
  ASSUME NEW S, S \subseteq Position, S # {}
  PROVE  \E p \in S : \A q \in S : Upto(p, q)
<1> DEFINE A == {p[1] : p \in S}
<1>1. A \subseteq Nat /\ A # {}
  BY DEF Position
<1>2. PICK a \in A : \A x \in A : a <= x
  <2> HIDE DEF A
  <2> QED BY <1>1, NatMin
<1> DEFINE B == {p[2] : p \in {q \in S : q[1] = a}}
<1>3. B \subseteq Nat /\ B # {}
  BY <1>2 DEF Position
<1>4. PICK b \in B : \A x \in B : b <= x
  <2> HIDE DEF B
  <2> QED BY <1>3, NatMin
<1>5. PICK p \in S : p[1] = a /\ p[2] = b
  BY <1>4
<1>6. ASSUME NEW q \in S
      PROVE  Upto(p, q)
  <2>1. ~ Before(q, p)
    <3>1. a <= q[1] /\ a \in Nat /\ b \in Nat /\ q[1] \in Nat /\ q[2] \in Nat
      BY <1>1, <1>2, <1>3, <1>4 DEF Position
    <3>2. q[1] = a => b <= q[2]
      BY <1>4
    <3> QED BY <1>5, <3>1, <3>2 DEF Before
  <2>2. p \in Position /\ q \in Position
    OBVIOUS
  <2>3. Upto(p, q) \/ Before(q, p)
    BY <2>2, OrderOfPositions
  <2> QED BY <2>1, <2>3
<1> QED BY <1>5, <1>6

LEMMA FarthestOf ==
  ASSUME NEW D, Disk(D), NEW S, S \subseteq Positions(D), S # {}
  PROVE  Farthest(S) \in S /\ \A q \in S : Upto(q, Farthest(S))
<1> DEFINE A == {p[1] : p \in S}
<1>1. \A p \in S : /\ p \in Position /\ p[1] \in DOMAIN D /\ p[1] \in Nat /\ p[2] \in Nat
                   /\ p[1] <= Last(D) /\ Last(D) \in Nat
                   /\ p[2] <= Len(D[p[1]].lines) /\ Len(D[p[1]].lines) \in Nat
  <2> TAKE p \in S
  <2>1. p \in Position /\ p[1] \in DOMAIN D /\ p[2] \in 1..Len(D[p[1]].lines)
    BY PositionsOf
  <2> QED BY <2>1, DiskShape DEF Position
<1>2. A \subseteq Nat /\ A # {} /\ Last(D) \in Nat /\ \A x \in A : x <= Last(D)
  BY <1>1
<1>3. PICK a \in A : \A x \in A : x <= a
  <2> HIDE DEF A
  <2> DEFINE z == Last(D)
  <2>1. z \in Nat /\ \A x \in A : x <= z
    BY <1>2
  <2> HIDE DEF z
  <2> QED BY <1>2, <2>1, NatMax
<1> DEFINE B == {p[2] : p \in {q \in S : q[1] = a}}
<1>4. B \subseteq Nat /\ B # {}
  BY <1>1, <1>3
<1>5. Len(D[a].lines) \in Nat /\ \A x \in B : x <= Len(D[a].lines)
  BY <1>1, <1>3
<1>6. PICK b \in B : \A x \in B : x <= b
  <2> HIDE DEF B
  <2> DEFINE z == Len(D[a].lines)
  <2>1. z \in Nat /\ \A x \in B : x <= z
    BY <1>5
  <2> HIDE DEF z
  <2> QED BY <1>4, <2>1, NatMax
<1>7. PICK p \in S : p[1] = a /\ p[2] = b
  BY <1>6
<1>8. ASSUME NEW q \in S
      PROVE  Upto(q, p)
  <2>1. ~ Before(p, q)
    <3>1. q[1] <= a /\ a \in Nat /\ b \in Nat /\ q[1] \in Nat /\ q[2] \in Nat
      BY <1>1, <1>3, <1>4, <1>6
    <3>2. q[1] = a => q[2] <= b
      BY <1>6
    <3> QED BY <1>7, <3>1, <3>2 DEF Before
  <2>2. p \in Position /\ q \in Position
    BY <1>1
  <2>3. Upto(q, p) \/ Before(p, q)
    BY <2>2, OrderOfPositions
  <2> QED BY <2>1, <2>3
<1> QED BY <1>7, <1>8 DEF Farthest

LEMMA FinitePositions ==
  ASSUME NEW D, Disk(D)
  PROVE  IsFiniteSet(Positions(D))
<1>1. IsFiniteSet(DOMAIN D)
  <2>1. CASE DOMAIN D = {}
    BY <2>1, FS_EmptySet
  <2>2. CASE DOMAIN D # {}
    <3>1. PICK a \in DOMAIN D : DOMAIN D = a..Last(D)
      BY <2>2, DiskShape
    <3>2. a \in Int /\ Last(D) \in Int
      BY <2>2, DiskShape
    <3>3. IsFiniteSet(a..Last(D))
      BY <3>2, FS_Interval
    <3> QED BY <3>1, <3>3
  <2> QED BY <2>1, <2>2
<1> DEFINE L(s) == {s} \X (1..Len(D[s].lines))
           T == {L(s) : s \in DOMAIN D}
           f == [s \in DOMAIN D |-> L(s)]
<1>2. f \in Surjection(DOMAIN D, T)
  BY DEF Surjection
<1>3. IsFiniteSet(T)
  <2> HIDE DEF f, T
  <2> QED BY <1>1, <1>2, FS_Surjection
<1>4. ASSUME NEW s \in DOMAIN D
      PROVE  IsFiniteSet(L(s))
  <2>1. Len(D[s].lines) \in Int /\ 1 \in Int
    BY DiskShape
  <2>2. IsFiniteSet(1..Len(D[s].lines))
    BY <2>1, FS_Interval
  <2>3. IsFiniteSet({s})
    BY FS_Singleton
  <2> QED BY <2>2, <2>3, FS_Product
<1>5. \A X \in T : IsFiniteSet(X)
  BY <1>4
<1>6. IsFiniteSet(UNION T)
  <2> HIDE DEF T
  <2> QED BY <1>3, <1>5, FS_UNION
<1> QED BY <1>6 DEF Positions

-----------------------------------------------------------------------------
(* What an export takes from the disk: all that is pending up to a position. *)

LEMMA ReadFromTheFront ==
  ASSUME TypeOK, NEW p \in Read, NEW q \in Pending, Before(q, p)
  PROVE  q \in Read
<1> DEFINE P(x) == {y \in Pending : Before(y, x)}
<1>1. Disk(disk) /\ Pending \subseteq Positions(disk)
  BY DEF TypeOK, Disk, Pending
<1>2. IsFiniteSet(Positions(disk))
  BY <1>1, FinitePositions
<1>3. \A x : IsFiniteSet(P(x)) /\ Cardinality(P(x)) \in Nat
  <2> TAKE x
  <2>1. P(x) \in SUBSET Positions(disk)
    BY <1>1
  <2> HIDE DEF P
  <2> QED BY <1>2, <2>1, FS_Subset, FS_CardinalityType
<1>4. P(q) \in SUBSET P(p)
  <2>1. Pending \subseteq Position
    BY <1>1, PositionsOf
  <2>2. p \in Pending
    BY DEF Read
  <2> SUFFICES ASSUME NEW y \in Pending, Before(y, q)
               PROVE  Before(y, p)
    OBVIOUS
  <2>3. y \in Position /\ q \in Position /\ p \in Position
    BY <2>1, <2>2
  <2> QED BY <2>3, BeforeTransitive
<1>5. Cardinality(P(q)) <= Cardinality(P(p))
  <2> HIDE DEF P
  <2> QED BY <1>3, <1>4, FS_Subset
<1>6. Cardinality(P(p)) < exporter.limit
  BY DEF Read
<1>7. exporter.limit \in Nat
  BY BoundsAssumption DEF TypeOK
<1>8. Cardinality(P(q)) < exporter.limit
  <2> HIDE DEF P
  <2> QED BY <1>3, <1>5, <1>6, <1>7
<1> QED BY <1>8 DEF Read

LEMMA ThroughIs ==
  ASSUME TypeOK, Read # {}
  PROVE  /\ Through(Read) \in Pending
         /\ \A q \in Pending : Upto(q, Through(Read)) => q \in Consumed(Read)
         /\ \A q \in Consumed(Read) : q \in Pending /\ Upto(q, Through(Read))
<1>1. Disk(disk) /\ Read \subseteq Pending /\ Pending \subseteq Positions(disk)
  BY DEF TypeOK, Disk, Pending, Read
<1>2. Pending \subseteq Position /\ Consumed(Read) \subseteq Read
  BY <1>1, PositionsOf DEF Consumed
<1>3. Consumed(Read) # {}
  <2>1. PICK p \in Read : \A q \in Read : Upto(p, q)
    BY <1>1, <1>2, FirstOf
  <2>2. \A q \in Read : Upto(q, p) => q = p
    <3> SUFFICES ASSUME NEW q \in Read, Upto(q, p), q # p
                 PROVE  FALSE
      OBVIOUS
    <3>1. Before(q, p) /\ p \in Position /\ q \in Position /\ Upto(p, q)
      BY <1>1, <1>2, <2>1 DEF Upto
    <3> QED BY <3>1, OrderOfPositions
  <2>3. p \in Consumed(Read)
    BY <2>2 DEF Consumed
  <2> QED BY <2>3
<1>4. /\ Through(Read) \in Consumed(Read)
      /\ \A q \in Consumed(Read) : Upto(q, Through(Read))
  <2> DEFINE S == Consumed(Read)
  <2>1. S \subseteq Positions(disk) /\ S # {}
    BY <1>1, <1>2, <1>3
  <2> HIDE DEF S
  <2>2. Farthest(S) \in S /\ \A q \in S : Upto(q, Farthest(S))
    BY <1>1, <2>1, FarthestOf
  <2> QED BY <2>2 DEF S, Through
<1>5. ASSUME NEW q \in Pending, Upto(q, Through(Read))
      PROVE  q \in Consumed(Read)
  <2> DEFINE t == Through(Read)
  <2>1. t \in Read /\ t \in Position /\ q \in Position
    BY <1>1, <1>2, <1>4
  <2>2. q \in Read
    BY <1>5, <2>1, ReadFromTheFront DEF Upto
  <2>3. \A x \in Read : Upto(x, q) => Upto(x, t)
    <3> TAKE x \in Read
    <3>1. x \in Position
      BY <1>1, <1>2
    <3> HIDE DEF t
    <3> QED BY <2>1, <3>1, <1>5, BeforeTransitive DEF t
  <2>4. \A x, y \in Read \cap Readable :
          Upto(x, t) /\ Upto(y, t) => Gateway[At(x)] = Gateway[At(y)]
    BY <1>4 DEF Consumed
  <2> HIDE DEF t
  <2> QED BY <2>2, <2>3, <2>4 DEF Consumed
<1> QED BY <1>1, <1>2, <1>4, <1>5

-----------------------------------------------------------------------------
(* Queues of records.                                                      *)

\* z is q with r at its end, without its i-th record; y and z are q, cut after n.
Added(q, r, z) == q \in Seq(Records) /\ r \in Records /\ z = Append(q, r)
Without(q, i, z) ==
  /\ q \in Seq(Records) /\ i \in 1..Len(q)
  /\ z = [j \in 1..(Len(q) - 1) |-> q[IF j < i THEN j ELSE j + 1]]
Cut(q, n, y, z) ==
  /\ q \in Seq(Records) /\ n \in 0..Len(q)
  /\ y = SubSeq(q, 1, n) /\ z = SubSeq(q, n + 1, Len(q))

LEMMA Adding ==
  ASSUME NEW q, NEW r, NEW z, Added(q, r, z)
  PROVE  /\ z \in Seq(Records) /\ Len(z) = Len(q) + 1
         /\ Elements(z) = Elements(q) \cup {r}
         /\ Injective(q) /\ r \notin Elements(q) => Injective(z)
<1> USE DEF Added
<1>1. /\ z \in Seq(Records) /\ Len(z) = Len(q) + 1 /\ Len(q) \in Nat
      /\ \A i \in 1..Len(q) : z[i] = q[i]
      /\ z[Len(q) + 1] = r
  BY AppendProperties
<1>2. Elements(z) = Elements(q) \cup {r}
  <2>1. ASSUME NEW x \in Elements(z)
        PROVE  x \in Elements(q) \cup {r}
    <3>1. PICK i \in 1..Len(z) : z[i] = x
      BY DEF Elements
    <3>2. CASE i = Len(q) + 1
      BY <1>1, <3>1, <3>2
    <3>3. CASE i # Len(q) + 1
      <4>1. i \in 1..Len(q)
        BY <1>1, <3>1, <3>3
      <4> QED BY <1>1, <3>1, <4>1 DEF Elements
    <3> QED BY <3>2, <3>3
  <2>2. ASSUME NEW x \in Elements(q)
        PROVE  x \in Elements(z)
    <3>1. PICK i \in 1..Len(q) : q[i] = x
      BY DEF Elements
    <3>2. i \in 1..Len(z) /\ z[i] = x
      BY <1>1, <3>1
    <3> QED BY <3>2 DEF Elements
  <2>3. r \in Elements(z)
    <3>1. Len(q) + 1 \in 1..Len(z)
      BY <1>1
    <3> QED BY <1>1, <3>1 DEF Elements
  <2> QED BY <2>1, <2>2, <2>3
<1>3. ASSUME Injective(q), r \notin Elements(q)
      PROVE  Injective(z)
  <2> SUFFICES ASSUME NEW i \in 1..Len(z), NEW j \in 1..Len(z), z[i] = z[j]
               PROVE  i = j
    BY DEF Injective
  <2>1. \A k \in 1..Len(z) : k \in 1..Len(q) \/ k = Len(q) + 1
    BY <1>1
  <2>2. \A k \in 1..Len(q) : z[k] = q[k] /\ z[k] # r
    BY <1>1, <1>3 DEF Elements
  <2> QED BY <1>1, <1>3, <2>1, <2>2 DEF Injective
<1> QED BY <1>1, <1>2, <1>3

LEMMA Splitting ==
  ASSUME NEW q, NEW n, NEW y, NEW z, Cut(q, n, y, z)
  PROVE  /\ y \in Seq(Records) /\ z \in Seq(Records)
         /\ Len(y) = n /\ Len(z) = Len(q) - n
         /\ Elements(q) = Elements(y) \cup Elements(z)
         /\ Injective(q) =>
              /\ Injective(y) /\ Injective(z) /\ Elements(y) \cap Elements(z) = {}
              /\ n < Len(q) => q[n + 1] \notin Elements(y)
         /\ n < Len(q) => q[n + 1] \in Elements(q)
<1> USE DEF Cut
<1>1. Len(q) \in Nat /\ n \in Nat /\ n <= Len(q)
  BY LenProperties
<1>2. /\ y \in Seq(Records) /\ Len(y) = n
      /\ \A i \in 1..n : y[i] = q[i]
  BY <1>1
<1>3. /\ z \in Seq(Records) /\ Len(z) = Len(q) - n
      /\ \A i \in 1..Len(q) - n : z[i] = q[i + n]
  BY <1>1
<1>4. \A i \in 1..n : i \in 1..Len(q)
  BY <1>1
<1>5. \A i \in 1..Len(q) - n : i + n \in 1..Len(q) /\ i + n > n
  BY <1>1
<1>6. Elements(q) = Elements(y) \cup Elements(z)
  <2>1. ASSUME NEW x \in Elements(q)
        PROVE  x \in Elements(y) \cup Elements(z)
    <3>1. PICK i \in 1..Len(q) : q[i] = x
      BY DEF Elements
    <3>2. CASE i <= n
      BY <1>1, <1>2, <3>1, <3>2 DEF Elements
    <3>3. CASE ~ (i <= n)
      <4>1. i - n \in 1..Len(z) /\ z[i - n] = q[i]
        BY <1>1, <1>3, <3>1, <3>3
      <4> QED BY <3>1, <4>1 DEF Elements
    <3> QED BY <3>2, <3>3
  <2>2. Elements(y) \subseteq Elements(q)
    BY <1>2, <1>4 DEF Elements
  <2>3. Elements(z) \subseteq Elements(q)
    BY <1>3, <1>5 DEF Elements
  <2> QED BY <2>1, <2>2, <2>3
<1>7. ASSUME Injective(q)
      PROVE  /\ Injective(y) /\ Injective(z) /\ Elements(y) \cap Elements(z) = {}
             /\ n < Len(q) => q[n + 1] \notin Elements(y)
  <2>1. Injective(y)
    BY <1>2, <1>4, <1>7 DEF Injective
  <2>2. Injective(z)
    <3> SUFFICES ASSUME NEW i \in 1..Len(z), NEW j \in 1..Len(z), z[i] = z[j]
                 PROVE  i = j
      BY DEF Injective
    <3>1. i + n = j + n
      BY <1>3, <1>5, <1>7 DEF Injective
    <3> QED BY <1>1, <1>3, <3>1
  <2>3. ASSUME NEW i \in 1..n, NEW j \in 1..Len(q), j > n
        PROVE  q[i] # q[j]
    BY <1>1, <1>4, <1>7, <2>3 DEF Injective
  <2>4. Elements(y) \cap Elements(z) = {}
    <3> SUFFICES ASSUME NEW x \in Elements(y), x \in Elements(z)
                 PROVE  FALSE
      OBVIOUS
    <3>1. PICK i \in 1..n : q[i] = x
      BY <1>2 DEF Elements
    <3>2. PICK j \in 1..Len(q) - n : q[j + n] = x
      BY <1>3 DEF Elements
    <3> QED BY <1>5, <2>3, <3>1, <3>2
  <2>5. ASSUME n < Len(q)
        PROVE  q[n + 1] \notin Elements(y)
    <3>1. n + 1 \in 1..Len(q) /\ n + 1 > n
      BY <1>1, <2>5
    <3> QED BY <1>2, <2>3, <3>1 DEF Elements
  <2> QED BY <2>1, <2>2, <2>4, <2>5
<1>8. n < Len(q) => q[n + 1] \in Elements(q)
  <2>1. n < Len(q) => n + 1 \in 1..Len(q)
    BY <1>1
  <2> QED BY <2>1 DEF Elements
<1> QED BY <1>2, <1>3, <1>6, <1>7, <1>8

LEMMA LeavingOut ==
  ASSUME NEW q, NEW i, NEW z, Without(q, i, z)
  PROVE  /\ z \in Seq(Records)
         /\ Elements(q) = Elements(z) \cup {q[i]}
         /\ Injective(q) => Injective(z)
<1> USE DEF Without
<1>1. Len(q) \in Nat /\ Len(q) > 0 /\ Len(q) - 1 \in Nat
  BY LenProperties
<1>2. \A j \in 1..(Len(q) - 1) : (IF j < i THEN j ELSE j + 1) \in 1..Len(q)
  BY <1>1
<1>3. \A j \in 1..Len(q) : q[j] \in Records
  BY ElementOfSeq
<1>4. z \in Seq(Records) /\ Len(z) = Len(q) - 1
  <2>1. z \in [1..(Len(q) - 1) -> Records]
    BY <1>2, <1>3
  <2> QED BY <1>1, <2>1, IsASeq, LenProperties
<1>5. ASSUME NEW x \in Elements(q)
      PROVE  x \in Elements(z) \cup {q[i]}
  <2>1. PICK k \in 1..Len(q) : q[k] = x
    BY DEF Elements
  <2>2. CASE k = i
    BY <2>1, <2>2
  <2>3. CASE k < i
    <3>1. k \in 1..Len(z) /\ z[k] = q[k]
      BY <1>1, <1>4, <2>3
    <3> QED BY <2>1, <3>1 DEF Elements
  <2>4. CASE k > i
    <3>1. k - 1 \in 1..Len(z) /\ ~ (k - 1 < i) /\ (k - 1) + 1 = k
      BY <1>1, <1>4, <2>4
    <3>2. z[k - 1] = q[k]
      BY <1>4, <3>1
    <3> QED BY <2>1, <3>1, <3>2 DEF Elements
  <2> QED BY <2>2, <2>3, <2>4
<1>6. Elements(z) \subseteq Elements(q)
  BY <1>2, <1>4 DEF Elements
<1>7. q[i] \in Elements(q)
  BY DEF Elements
<1>8. ASSUME Injective(q)
      PROVE  Injective(z)
  <2> SUFFICES ASSUME NEW j \in 1..(Len(q) - 1), NEW k \in 1..(Len(q) - 1), z[j] = z[k]
               PROVE  j = k
    BY <1>4 DEF Injective
  <2>1. (IF j < i THEN j ELSE j + 1) = (IF k < i THEN k ELSE k + 1)
    BY <1>2, <1>8 DEF Injective
  <2> QED BY <2>1
<1> QED BY <1>4, <1>5, <1>6, <1>7, <1>8

-----------------------------------------------------------------------------
(* The invariant.                                                          *)

Sent == rows \cup UNION wire
Held == Elements(queue) \cup Elements(writing) \cup TailOf(disk)

\* A record is in one place: in memory, half-written, on the disk or sent.
Tracked ==
  /\ Sent \cup RecordsOn(disk) \cup Held \subseteq seen
  /\ Held \cap (Sent \cup RecordsOn(disk)) = {}
  /\ Single(disk)
  /\ Injective(queue) /\ Injective(writing)
  /\ Elements(queue) \cap Elements(writing) = {}
  /\ (Elements(queue) \cup Elements(writing)) \cap TailOf(disk) = {}

\* Every batch on the wire extends what is stored without a gap.
Gapless(B) ==
  \A p, q \in Readable : Before(p, q) /\ At(q) \in B => At(p) \in B
OrderInv == Gapless(rows) /\ \A b \in wire : Gapless(rows \cup b)

\* What lies up to x on the disk is in B.
Covered(x, B) ==
  Inside(disk, x) /\ \A p \in Readable : Upto(p, x) => At(p) \in B
CursorInv ==
  /\ Covered(cursor, rows)
  /\ exporter.pc \in {"sending", "commit"} =>
       Covered(exporter.upto, rows \cup exporter.batch)
  /\ exporter.pc # "sending" => exporter.batch = {}

LifeInv ==
  /\ up \in {"leaving", "stopping", "ending"} => ends < MaxEnds
  /\ up = "ending" => abrupt

Inv == TypeOK /\ LifeInv /\ Tracked /\ OrderInv /\ CursorInv /\ Accounted

LEMMA DiskIs ==
  ASSUME TypeOK
  PROVE  /\ Disk(disk) /\ None \notin Line
         /\ Readable = {p \in Positions(disk) : LineAt(disk, p) \in Records}
         /\ \A p : At(p) = LineAt(disk, p)
         /\ \A p \in Readable : p \in Position /\ At(p) \in RecordsOn(disk)
<1>1. Disk(disk)
  BY DEF TypeOK, Disk
<1>2. None \notin Line
  BY RecordsAssumption DEF Line
<1>3. /\ Readable = {p \in Positions(disk) : LineAt(disk, p) \in Records}
      /\ \A p : At(p) = LineAt(disk, p)
  BY DEF Readable, At, LineAt
<1> QED BY <1>1, <1>2, <1>3, PositionsOf DEF RecordsOn

\* The order of what is stored and the cursor's place survive any growth of the
\* disk by records that were not sent.
LEMMA LogGrows ==
  ASSUME TypeOK, TypeOK', NEW N, Grown(disk, disk', N), N \cap Sent = {},
         OrderInv, CursorInv, rows' = rows, wire' = wire, cursor' = cursor,
         \/ exporter' = exporter
         \/ exporter'.pc \in {"ready", "off"} /\ exporter'.batch = {}
  PROVE  OrderInv' /\ CursorInv'
<1>1. /\ Disk(disk) /\ Disk(disk')
      /\ Readable' = {p \in Positions(disk') : LineAt(disk', p) \in Records}
      /\ \A p : At(p)' = LineAt(disk', p)
      /\ Readable = {p \in Positions(disk) : LineAt(disk, p) \in Records}
      /\ \A p : At(p) = LineAt(disk, p)
      /\ Torn \notin Records
  BY RecordsAssumption DEF TypeOK, Disk, Readable, At, LineAt
<1>2. ASSUME NEW p \in Readable'
      PROVE  \/ p \in Readable /\ At(p)' = At(p)
             \/ Past(disk, p) /\ At(p)' \in N
  BY <1>1, <1>2 DEF Grown
<1>3. ASSUME NEW B, Gapless(B), B \subseteq Sent
      PROVE  Gapless(B)'
  <2> SUFFICES ASSUME NEW p \in Readable', NEW q \in Readable', Before(p, q), At(q)' \in B
               PROVE  At(p)' \in B
    BY DEF Gapless
  <2>1. q \in Readable /\ At(q)' = At(q)
    BY <1>2, <1>3
  <2>2. CASE p \in Readable /\ At(p)' = At(p)
    BY <1>3, <2>1, <2>2 DEF Gapless
  <2>3. CASE Past(disk, p)
    <3>1. q \in Position /\ Inside(disk, q) /\ p \in Position /\ p \in Positions(disk')
      BY <1>1, <2>1, InsideAll, PositionsOf
    <3>2. Before(q, p)
      BY <1>1, <2>3, <3>1, PastAll
    <3> QED BY <3>1, <3>2, OrderOfPositions DEF Upto
  <2> QED BY <1>2, <2>2, <2>3
<1>4. OrderInv'
  <2>1. rows \subseteq Sent /\ \A b \in wire : rows \cup b \subseteq Sent
    BY DEF Sent
  <2> QED BY <1>3, <2>1 DEF OrderInv, Gapless
<1>5. ASSUME NEW x \in Position, NEW B, Covered(x, B)
      PROVE  Covered(x, B)'
  <2>1. Inside(disk, x)
    BY <1>5 DEF Covered
  <2>2. Inside(disk', x)
    BY <1>1, <2>1, InsideKept
  <2>3. ASSUME NEW p \in Readable', Upto(p, x)
        PROVE  At(p)' \in B
    <3>1. ~ Past(disk, p)
      <4>1. p \in Positions(disk')
        BY <1>1
      <4> QED BY <1>1, <2>1, <2>3, <4>1, PastAll
    <3> QED BY <1>2, <1>5, <2>3, <3>1 DEF Covered
  <2> QED BY <2>2, <2>3 DEF Covered
<1>6. cursor \in Position /\ exporter.upto \in Position
  BY DEF TypeOK
<1>7. Covered(cursor, rows)'
  BY <1>5, <1>6 DEF CursorInv, Covered
<1>8. CASE exporter' = exporter
  <2>1. exporter.pc \in {"sending", "commit"} =>
          Covered(exporter.upto, rows \cup exporter.batch)'
    BY <1>5, <1>6, <1>8 DEF CursorInv, Covered
  <2> QED BY <1>4, <1>7, <1>8, <2>1 DEF CursorInv, Covered
<1>9. CASE exporter'.pc \in {"ready", "off"} /\ exporter'.batch = {}
  BY <1>4, <1>7, <1>9 DEF CursorInv
<1> QED BY <1>8, <1>9

\* What an append leaves on the disk.
LEMMA Spooled ==
  ASSUME TypeOK, Tracked, NEW lines \in Seq(Records), Injective(lines),
         NEW tail \in Line \cup {None}, tail \notin Elements(lines),
         Elements(lines) \cup ({tail} \cap Records) \subseteq Elements(writing),
         NEW W, W = Written(Found, lines, tail)
  PROVE  /\ Disk(W) /\ Single(W) /\ DOMAIN W # {} /\ Kept(disk, W)
         /\ \E N : /\ Grown(disk, W, N) /\ N \cap TailOf(W) = {}
                   /\ N \subseteq Elements(writing) \cup TailOf(disk)
         /\ TailOf(W) \subseteq Elements(writing) \cup TailOf(disk)
         /\ tail = None /\ ~ opened => TailOf(W) = {}
         /\ (opened => DOMAIN disk = {} \/ disk[Last(disk)].tail = None) =>
              /\ W[Last(W)].tail = tail
              /\ \A r \in Elements(lines) : \E p \in Positions(W) : LineAt(W, p) = r
<1>1. Disk(disk) /\ None \notin Line /\ None \notin Records /\ Torn \notin Records
  BY DiskIs, RecordsAssumption
<1>2. /\ Single(disk) /\ Elements(writing) \cap RecordsOn(disk) = {}
      /\ TailOf(disk) \cap RecordsOn(disk) = {} /\ Elements(writing) \cap TailOf(disk) = {}
  BY DEF Tracked, Held
<1>3. Elements(lines) \subseteq Elements(writing) /\ {tail} \cap Records \subseteq Elements(writing)
  OBVIOUS
<1>4. CASE opened
  <2>1. W = Written(disk, lines, tail)
    BY <1>4 DEF Found
  <2>2. Elements(lines) \cap RecordsOn(disk) = {}
    BY <1>2, <1>3
  <2>3. /\ Disk(W) /\ Grown(disk, W, Elements(lines)) /\ Kept(disk, W)
        /\ DOMAIN W # {} /\ TailOf(W) \subseteq TailOf(disk) \cup {tail} /\ Single(W)
        /\ (DOMAIN disk = {} \/ disk[Last(disk)].tail = None) =>
              /\ W[Last(W)].tail = tail
              /\ \A r \in Elements(lines) : \E p \in Positions(W) : LineAt(W, p) = r
    BY <1>1, <1>2, <2>1, <2>2, WrittenGrows
  <2>4. TailOf(W) \subseteq Records
    BY <2>3 DEF TailOf
  <2>5. TailOf(W) \subseteq Elements(writing) \cup TailOf(disk)
    BY <1>3, <2>3, <2>4
  <2>6. Elements(lines) \cap TailOf(W) = {}
    BY <1>2, <1>3, <2>3
  <2> QED BY <1>3, <1>4, <2>3, <2>5, <2>6
<1>5. CASE ~ opened
  <2> DEFINE D == Opened(disk)
  <2>1. W = Written(D, lines, tail)
    BY <1>5 DEF Found
  <2>2. /\ Disk(D) /\ Grown(disk, D, TailOf(disk)) /\ Kept(disk, D)
        /\ TailOf(D) = {} /\ Single(D)
        /\ DOMAIN D = {} \/ D[Last(D)].tail = None
    BY <1>1, <1>2, OpenedGrows
  <2>3. RecordsOn(D) \subseteq RecordsOn(disk) \cup TailOf(disk)
    BY <1>1, <2>2 DEF RecordsOn, Grown
  <2>4. Elements(lines) \cap RecordsOn(D) = {}
    BY <1>2, <1>3, <2>3
  <2> HIDE DEF D
  <2>5. /\ Disk(W) /\ Grown(D, W, Elements(lines)) /\ Kept(D, W)
        /\ DOMAIN W # {} /\ TailOf(W) \subseteq TailOf(D) \cup {tail} /\ Single(W)
        /\ W[Last(W)].tail = tail
        /\ \A r \in Elements(lines) : \E p \in Positions(W) : LineAt(W, p) = r
    BY <1>1, <2>1, <2>2, <2>4, WrittenGrows
  <2>6. Grown(disk, W, TailOf(disk) \cup Elements(lines))
    BY <1>1, <2>2, <2>5, GrownTwice
  <2>7. Kept(disk, W)
    BY <2>2, <2>5 DEF Kept
  <2>8. TailOf(W) \subseteq {tail} \cap Records
    BY <2>2, <2>5 DEF TailOf
  <2>9. (TailOf(disk) \cup Elements(lines)) \cap TailOf(W) = {}
    BY <1>2, <1>3, <2>8
  <2> QED BY <1>1, <1>3, <1>5, <2>5, <2>6, <2>7, <2>8, <2>9
<1> QED BY <1>4, <1>5

\* A disk that grew by records held before keeps every record in one place.
LEMMA TrackedGrows ==
  ASSUME TypeOK, TypeOK', Tracked, NEW N, Grown(disk, disk', N), Single(disk'),
         N \subseteq Held, N \cap TailOf(disk') = {}, TailOf(disk') \subseteq Held,
         rows' = rows, wire' = wire, seen' = seen,
         Injective(queue'), Injective(writing'),
         Elements(queue') \subseteq Elements(queue),
         Elements(writing') \subseteq Elements(writing),
         N \cap (Elements(queue') \cup Elements(writing')) = {},
         TailOf(disk') \cap (Elements(queue') \cup Elements(writing')) = {}
  PROVE  Tracked' /\ N \cap Sent = {}
<1>1. RecordsOn(disk') \subseteq RecordsOn(disk) \cup N
  BY RecordsAssumption DEF RecordsOn, Grown
<1>2. Held' = Elements(queue') \cup Elements(writing') \cup TailOf(disk')
  BY DEF Held
<1>3. Held' \subseteq Held /\ Held' \cap N = {} /\ Sent' = Sent
  BY <1>2 DEF Held, Sent
<1>4. /\ Sent \cup RecordsOn(disk) \cup Held \subseteq seen
      /\ Held \cap (Sent \cup RecordsOn(disk)) = {}
      /\ Elements(queue) \cap Elements(writing) = {}
  BY DEF Tracked
<1>5. Held' \cap (Sent' \cup RecordsOn(disk')) = {}
  BY <1>1, <1>3, <1>4
<1>6. Sent' \cup RecordsOn(disk') \cup Held' \subseteq seen'
  BY <1>1, <1>3, <1>4
<1>7. Elements(queue') \cap Elements(writing') = {}
  BY <1>4
<1>8. N \cap Sent = {}
  BY <1>4
<1> QED BY <1>5, <1>6, <1>7, <1>8 DEF Tracked

\* Steps that change neither the writer's state nor the process.
LEMMA WriterUntouched ==
  ASSUME Inv, UNCHANGED writerVars, up' = up, ends' = ends, abrupt' = abrupt,
         Sent' \subseteq Sent \cup RecordsOn(disk)
  PROVE  LifeInv' /\ Tracked' /\ Accounted'
<1>1. /\ seen' = seen /\ queue' = queue /\ writing' = writing /\ stats' = stats
      /\ disk' = disk
  BY DEF writerVars
<1>2. LifeInv'
  BY DEF Inv, LifeInv
<1>3. Accounted'
  BY <1>1 DEF Inv, Accounted
<1>4. Tracked'
  BY <1>1 DEF Inv, Tracked, Held
<1> QED BY <1>2, <1>3, <1>4

LEMMA DiskUntouched ==
  ASSUME Inv, TypeOK', disk' = disk, rows' = rows, wire' = wire, cursor' = cursor,
         \/ exporter' = exporter
         \/ exporter'.pc \in {"ready", "off"} /\ exporter'.batch = {}
  PROVE  OrderInv' /\ CursorInv'
<1>1. TypeOK /\ OrderInv /\ CursorInv
  BY DEF Inv
<1>2. Grown(disk, disk', {})
  BY <1>1, DiskIs, Unchanged
<1> QED BY <1>1, <1>2, LogGrows

-----------------------------------------------------------------------------
(* The writer's steps.                                                     *)

LEMMA ObserveInv ==
  ASSUME Inv, NEW r \in Records, Observe(r)
  PROVE  Inv'
<1>1. /\ seen' = seen \cup {r} /\ r \notin seen
      /\ UNCHANGED <<writing, disk, opened>> /\ UNCHANGED exportVars /\ UNCHANGED lifeVars
      /\ \/ stats' = [stats EXCEPT !.dropped = @ \cup {r}] /\ queue' = queue
         \/ ~ (Len(queue) >= MaxQueue) /\ queue' = Append(queue, r) /\ stats' = stats
  BY DEF Observe
<1>2. TypeOK /\ LifeInv /\ Tracked /\ Accounted
  BY DEF Inv
<1>3. queue \in Seq(Records) /\ Len(queue) \in Nat /\ MaxQueue \in Nat /\ Len(queue) <= MaxQueue
  BY <1>2, BoundsAssumption DEF TypeOK
<1>4. /\ queue' \in Seq(Records) /\ Len(queue') <= MaxQueue
      /\ Elements(queue) \subseteq Elements(queue')
      /\ Elements(queue') \subseteq Elements(queue) \cup {r}
      /\ r \in Elements(queue') \/ r \in stats'.dropped
      /\ Injective(queue')
  <2>1. r \notin Elements(queue) /\ Injective(queue)
    BY <1>1, <1>2 DEF Tracked, Held
  <2>2. CASE stats' = [stats EXCEPT !.dropped = @ \cup {r}] /\ queue' = queue
    BY <1>2, <1>3, <2>1, <2>2 DEF TypeOK, Stats
  <2>3. CASE ~ (Len(queue) >= MaxQueue) /\ queue' = Append(queue, r)
    <3>1. Added(queue, r, queue')
      BY <1>3, <2>3 DEF Added
    <3>2. /\ queue' \in Seq(Records) /\ Len(queue') = Len(queue) + 1
          /\ Elements(queue') = Elements(queue) \cup {r} /\ Injective(queue')
      BY <2>1, <3>1, Adding
    <3> QED BY <1>3, <2>3, <3>2
  <2> QED BY <1>1, <2>2, <2>3
<1>5. /\ stats' \in Stats
      /\ stats.recorded \cup stats.dropped \cup stats.unrecordable \cup stats.unwritten
           \subseteq stats'.recorded \cup stats'.dropped \cup stats'.unrecordable
                     \cup stats'.unwritten
  BY <1>1, <1>2 DEF TypeOK, Stats
<1>6. TypeOK'
  BY <1>1, <1>2, <1>4, <1>5 DEF TypeOK, exportVars, lifeVars
<1>7. OrderInv' /\ CursorInv'
  BY <1>1, <1>6, DiskUntouched DEF exportVars
<1>8. LifeInv'
  BY <1>1, <1>2 DEF LifeInv, lifeVars
<1>9. Tracked'
  <2>1. disk' = disk /\ writing' = writing /\ Sent' = Sent
    BY <1>1 DEF Sent, exportVars
  <2>2. r \notin Sent \cup RecordsOn(disk) \cup Held
    BY <1>1, <1>2 DEF Tracked
  <2> QED BY <1>1, <1>2, <1>4, <2>1, <2>2 DEF Tracked, Held
<1>10. Accounted'
  BY <1>1, <1>2, <1>4, <1>5 DEF Accounted, lifeVars
<1> QED BY <1>6, <1>7, <1>8, <1>9, <1>10 DEF Inv

LEMMA TakeInv ==
  ASSUME Inv, Take
  PROVE  Inv'
<1> DEFINE n == IF Len(queue) < WriteBatch THEN Len(queue) ELSE WriteBatch
<1>1. /\ writing = <<>> /\ writing' = SubSeq(queue, 1, n)
      /\ queue' = SubSeq(queue, n + 1, Len(queue))
      /\ UNCHANGED <<seen, stats, disk, opened>>
      /\ UNCHANGED exportVars /\ UNCHANGED lifeVars
  BY DEF Take
<1>2. TypeOK /\ LifeInv /\ Tracked /\ Accounted
  BY DEF Inv
<1>3. queue \in Seq(Records) /\ Len(queue) \in Nat /\ MaxQueue \in Nat /\ Len(queue) <= MaxQueue
  BY <1>2, BoundsAssumption DEF TypeOK
<1>4. n \in 0..Len(queue)
  BY <1>3, BoundsAssumption
<1> HIDE DEF n
<1>5. /\ writing' \in Seq(Records) /\ queue' \in Seq(Records)
      /\ Len(queue') = Len(queue) - n
      /\ Elements(queue) = Elements(writing') \cup Elements(queue')
      /\ Injective(writing') /\ Injective(queue') /\ Elements(writing') \cap Elements(queue') = {}
  <2>1. Injective(queue)
    BY <1>2 DEF Tracked
  <2>2. Cut(queue, n, writing', queue')
    BY <1>1, <1>3, <1>4 DEF Cut
  <2> QED BY <2>1, <2>2, Splitting
<1>6. Len(queue') <= MaxQueue
  BY <1>3, <1>4, <1>5
<1>7. TypeOK'
  BY <1>1, <1>2, <1>5, <1>6 DEF TypeOK, exportVars, lifeVars
<1>8. OrderInv' /\ CursorInv'
  BY <1>1, <1>7, DiskUntouched DEF exportVars
<1>9. LifeInv'
  BY <1>1, <1>2 DEF LifeInv, lifeVars
<1>10. Elements(writing) = {}
  BY <1>1 DEF Elements
<1>11. Tracked'
  <2>1. disk' = disk /\ Sent' = Sent /\ seen' = seen
    BY <1>1 DEF Sent, exportVars
  <2>2. Held' = Held
    BY <1>5, <1>10, <2>1 DEF Held
  <2> QED BY <1>2, <1>5, <2>1, <2>2 DEF Tracked
<1>12. Accounted'
  BY <1>1, <1>2, <1>5, <1>10 DEF Accounted, lifeVars
<1> QED BY <1>7, <1>8, <1>9, <1>11, <1>12 DEF Inv

LEMMA LeaveOutInv ==
  ASSUME Inv, NEW i \in 1..Len(writing), LeaveOut(i)
  PROVE  Inv'
<1>1. /\ writing' = [j \in 1..(Len(writing) - 1) |-> writing[IF j < i THEN j ELSE j + 1]]
      /\ stats' = [stats EXCEPT !.unrecordable = @ \cup {writing[i]}]
      /\ UNCHANGED <<seen, queue, disk, opened>>
      /\ UNCHANGED exportVars /\ UNCHANGED lifeVars
  BY DEF LeaveOut
<1>2. TypeOK /\ LifeInv /\ Tracked /\ Accounted
  BY DEF Inv
<1>3. /\ writing' \in Seq(Records)
      /\ Elements(writing) = Elements(writing') \cup {writing[i]}
      /\ Injective(writing')
  <2>1. writing \in Seq(Records) /\ Injective(writing)
    BY <1>2 DEF TypeOK, Tracked
  <2>2. Without(writing, i, writing')
    BY <1>1, <2>1 DEF Without
  <2> QED BY <2>1, <2>2, LeavingOut
<1>4. /\ stats' \in Stats
      /\ stats.recorded \cup stats.dropped \cup stats.unrecordable \cup stats.unwritten
           \cup {writing[i]}
           \subseteq stats'.recorded \cup stats'.dropped \cup stats'.unrecordable
                     \cup stats'.unwritten
  <2>1. writing[i] \in Records
    BY <1>2, ElementOfSeq DEF TypeOK
  <2> QED BY <1>1, <1>2, <2>1 DEF TypeOK, Stats
<1>5. TypeOK'
  BY <1>1, <1>2, <1>3, <1>4 DEF TypeOK, exportVars, lifeVars
<1>6. OrderInv' /\ CursorInv'
  BY <1>1, <1>5, DiskUntouched DEF exportVars
<1>7. LifeInv'
  BY <1>1, <1>2 DEF LifeInv, lifeVars
<1>8. Tracked'
  <2>1. disk' = disk /\ Sent' = Sent /\ seen' = seen /\ queue' = queue
    BY <1>1 DEF Sent, exportVars
  <2>2. Held' \subseteq Held
    BY <1>3, <2>1 DEF Held
  <2> QED BY <1>2, <1>3, <2>1, <2>2 DEF Tracked
<1>9. Accounted'
  BY <1>1, <1>2, <1>3, <1>4 DEF Accounted, lifeVars
<1> QED BY <1>5, <1>6, <1>7, <1>8, <1>9 DEF Inv

\* What the records of the batch being written can make of the disk.
MayBecome(E) ==
  /\ Disk(E) /\ Single(E)
  /\ TailOf(E) \subseteq Elements(writing) \cup TailOf(disk)
  /\ \E N : /\ Grown(disk, E, N) /\ N \cap TailOf(E) = {}
            /\ N \subseteq Elements(writing) \cup TailOf(disk)

LEMMA StaysAsItIs ==
  ASSUME TypeOK, Tracked
  PROVE  MayBecome(disk)
<1>1. Disk(disk) /\ Grown(disk, disk, {})
  BY DiskIs, Unchanged
<1> QED BY <1>1 DEF MayBecome, Tracked

LEMMA WriteSpools ==
  ASSUME TypeOK, Tracked, NEW n, NEW tail \in Line \cup {None}, Appending, n \in 0..Len(writing),
         tail # None => n < Len(writing) /\ tail \in {Torn, writing[n + 1]},
         NEW W, W = Written(Found, SubSeq(writing, 1, n), tail)
  PROVE  MayBecome(W) /\ Kept(disk, W)
<1> DEFINE y == SubSeq(writing, 1, n)
           z == SubSeq(writing, n + 1, Len(writing))
<1>1. Cut(writing, n, y, z) /\ Injective(writing)
  BY DEF Cut, TypeOK, Tracked
<1>2. /\ y \in Seq(Records) /\ Injective(y) /\ Elements(y) \subseteq Elements(writing)
      /\ n < Len(writing) =>
           writing[n + 1] \notin Elements(y) /\ writing[n + 1] \in Elements(writing)
  <2> HIDE DEF y, z
  <2> QED BY <1>1, Splitting
<1>3. Torn \notin Records /\ None \notin Records
  BY RecordsAssumption
<1>4. Elements(y) \subseteq Records
  <2> HIDE DEF y
  <2> QED BY <1>2, ElementsOf
<1> HIDE DEF y
<1>5. tail \notin Elements(y) /\ {tail} \cap Records \subseteq Elements(writing)
  BY <1>2, <1>3, <1>4
<1>6. W = Written(Found, y, tail)
  BY DEF y
<1> QED BY <1>2, <1>5, <1>6, Spooled DEF MayBecome

LEMMA BatchGone ==
  ASSUME Inv, TypeOK', MayBecome(disk'), writing' = <<>>, queue' \in {queue, <<>>},
         seen' = seen, rows' = rows, wire' = wire, cursor' = cursor,
         \/ exporter' = exporter
         \/ exporter'.pc \in {"ready", "off"} /\ exporter'.batch = {}
  PROVE  Tracked' /\ OrderInv' /\ CursorInv'
<1>1. PICK N : /\ Grown(disk, disk', N) /\ N \cap TailOf(disk') = {}
               /\ N \subseteq Elements(writing) \cup TailOf(disk)
  BY DEF MayBecome
<1>2. TypeOK /\ Tracked /\ OrderInv /\ CursorInv
  BY DEF Inv
<1>3. Elements(<<>>) = {} /\ Injective(<<>>)
  BY DEF Elements, Injective
<1>4. /\ Injective(queue') /\ Elements(queue') \subseteq Elements(queue)
      /\ Injective(writing') /\ Elements(writing') = {}
  BY <1>2, <1>3 DEF Tracked
<1>5. Elements(queue) \cap (Elements(writing) \cup TailOf(disk)) = {}
  BY <1>2 DEF Tracked
<1>6. N \subseteq Held /\ TailOf(disk') \subseteq Held /\ Single(disk')
  BY <1>1 DEF Held, MayBecome
<1>7. /\ N \cap (Elements(queue') \cup Elements(writing')) = {}
      /\ TailOf(disk') \cap (Elements(queue') \cup Elements(writing')) = {}
  BY <1>1, <1>4, <1>5 DEF MayBecome
<1>8. Tracked' /\ N \cap Sent = {}
  <2>1. Elements(writing') \subseteq Elements(writing)
    BY <1>4
  <2> QED BY <1>1, <1>2, <1>4, <1>6, <1>7, <2>1, TrackedGrows
<1>9. OrderInv' /\ CursorInv'
  BY <1>1, <1>2, <1>8, LogGrows
<1> QED BY <1>8, <1>9

LEMMA AppendLinesInv ==
  ASSUME Inv, AppendLines
  PROVE  Inv'
<1> DEFINE D == Written(Found, writing, None)
           E == [s \in DOMAIN D \ Excess(D) |-> D[s]]
           lost == {s \in Excess(D) : Unexported(s)}
<1>1. /\ Appending /\ disk' = E /\ writing' = <<>> /\ opened' = TRUE
      /\ stats' = [stats EXCEPT
                    !.recorded = @ \cup Elements(writing),
                    !.pruned = @ \cup UNION {RecordsIn(D[s]) : s \in lost}]
      /\ UNCHANGED <<seen, queue>> /\ UNCHANGED exportVars /\ UNCHANGED lifeVars
  BY DEF AppendLines
<1>2. TypeOK /\ LifeInv /\ Tracked /\ Accounted
  BY DEF Inv
<1>3. MayBecome(D) /\ DOMAIN D # {}
  <2>1. writing \in Seq(Records) /\ Injective(writing) /\ Elements(writing) \subseteq Records
    BY <1>2, ElementsOf DEF TypeOK, Tracked
  <2>2. None \notin Records
    BY RecordsAssumption
  <2> HIDE DEF D
  <2>3. /\ Disk(D) /\ Single(D) /\ DOMAIN D # {}
        /\ \E N : /\ Grown(disk, D, N) /\ N \cap TailOf(D) = {}
                  /\ N \subseteq Elements(writing) \cup TailOf(disk)
        /\ TailOf(D) \subseteq Elements(writing) \cup TailOf(disk)
    BY <1>2, <2>1, <2>2, Spooled DEF D
  <2> QED BY <2>3 DEF MayBecome
<1> HIDE DEF D, lost
<1>4. /\ Disk(E) /\ Grown(D, E, {}) /\ DOMAIN E # {}
      /\ Last(E) = Last(D) /\ E[Last(E)] = D[Last(D)] /\ Single(E)
  BY <1>3, PrunedGrows DEF MayBecome
<1> HIDE DEF E
<1>5. MayBecome(E)
  <2>1. PICK N : /\ Grown(disk, D, N) /\ N \cap TailOf(D) = {}
                 /\ N \subseteq Elements(writing) \cup TailOf(disk)
    BY <1>3 DEF MayBecome
  <2>2. TailOf(E) = TailOf(D)
    BY <1>3, <1>4 DEF TailOf
  <2>3. Disk(disk) /\ Disk(D)
    BY <1>2, <1>3, DiskIs DEF MayBecome
  <2>4. Grown(disk, E, N \cup {})
    BY <1>4, <2>1, <2>3, GrownTwice
  <2>5. N \cup {} = N
    OBVIOUS
  <2> QED BY <1>3, <1>4, <2>1, <2>2, <2>4, <2>5 DEF MayBecome
<1>6. /\ stats' \in Stats
      /\ stats.recorded \cup stats.dropped \cup stats.unrecordable \cup stats.unwritten
           \cup Elements(writing)
           \subseteq stats'.recorded \cup stats'.dropped \cup stats'.unrecordable
                     \cup stats'.unwritten
  <2>1. Elements(writing) \subseteq Records
    BY <1>2, ElementsOf DEF TypeOK
  <2>2. UNION {RecordsIn(D[s]) : s \in lost} \subseteq Records
    BY DEF RecordsIn
  <2> DEFINE U == UNION {RecordsIn(D[s]) : s \in lost}
  <2>3. U \subseteq Records
    BY <2>2
  <2>4. stats' = [stats EXCEPT !.recorded = @ \cup Elements(writing), !.pruned = @ \cup U]
    BY <1>1
  <2> HIDE DEF U
  <2> QED BY <1>2, <2>1, <2>3, <2>4 DEF TypeOK, Stats
<1>7. TypeOK'
  <2>1. writing' \in Seq(Records)
    BY <1>1
  <2> QED BY <1>1, <1>2, <1>4, <1>6, <2>1 DEF TypeOK, Disk, exportVars, lifeVars
<1>8. Tracked' /\ OrderInv' /\ CursorInv'
  BY <1>1, <1>5, <1>7, BatchGone DEF exportVars
<1>9. LifeInv'
  BY <1>1, <1>2 DEF LifeInv, lifeVars
<1>10. Accounted'
  BY <1>1, <1>2, <1>6 DEF Accounted, lifeVars
<1> QED BY <1>7, <1>8, <1>9, <1>10 DEF Inv

LEMMA WriteFailsInv ==
  ASSUME Inv, NEW n \in 0..Len(writing), NEW tail \in Line \cup {None}, WriteFails(n, tail)
  PROVE  Inv'
<1>1. /\ writing' = <<>> /\ UNCHANGED <<seen, queue>>
      /\ UNCHANGED exportVars /\ UNCHANGED lifeVars
      /\ opened' = TRUE \/ opened' = opened
      /\ stats' = IF up = "ending" THEN stats
                  ELSE [stats EXCEPT !.unwritten = @ \cup Elements(writing)]
  BY DEF WriteFails
<1>2. TypeOK /\ LifeInv /\ Tracked /\ Accounted
  BY DEF Inv
<1>3. MayBecome(disk')
  <2>1. CASE disk' = disk
    BY <1>2, <2>1, StaysAsItIs
  <2>2. CASE WrittenUpTo(n, tail)
    BY <1>2, <2>2, WriteSpools DEF WrittenUpTo
  <2> QED BY <2>1, <2>2 DEF WriteFails
<1>4. Elements(writing) \subseteq Records
  BY <1>2, ElementsOf DEF TypeOK
<1>5. /\ stats' \in Stats
      /\ stats.recorded \cup stats.dropped \cup stats.unrecordable \cup stats.unwritten
           \subseteq stats'.recorded \cup stats'.dropped \cup stats'.unrecordable
                     \cup stats'.unwritten
      /\ up # "ending" => Elements(writing) \subseteq stats'.unwritten
  BY <1>1, <1>2, <1>4 DEF TypeOK, Stats
<1>6. TypeOK'
  <2>1. Disk(disk')
    BY <1>3 DEF MayBecome
  <2>2. writing' \in Seq(Records)
    BY <1>1
  <2>3. opened' \in BOOLEAN
    BY <1>1, <1>2, Zenon DEF TypeOK
  <2> QED BY <1>1, <1>2, <1>5, <2>1, <2>2, <2>3 DEF TypeOK, Disk, exportVars, lifeVars
<1>7. Tracked' /\ OrderInv' /\ CursorInv'
  BY <1>1, <1>3, <1>6, BatchGone DEF exportVars
<1>8. LifeInv'
  BY <1>1, <1>2 DEF LifeInv, lifeVars
<1>9. Accounted'
  BY <1>1, <1>2, <1>5 DEF Accounted, LifeInv, lifeVars
<1> QED BY <1>6, <1>7, <1>8, <1>9 DEF Inv

-----------------------------------------------------------------------------
(* The exporter's steps.                                                   *)

LEMMA ExportInv ==
  ASSUME Inv, Export
  PROVE  Inv'
<1> DEFINE batch == {At(p) : p \in Consumed(Read) \cap Readable}
<1>1. /\ exporter.pc = "ready" /\ Read # {}
      /\ exporter' = [exporter EXCEPT
                       !.pc = IF batch = {} THEN "commit" ELSE "sending",
                       !.upto = Through(Read), !.batch = batch]
      /\ wire' = IF batch = {} THEN wire ELSE wire \cup {batch}
      /\ UNCHANGED <<cursor, rows>> /\ UNCHANGED writerVars /\ UNCHANGED lifeVars
  BY DEF Export
<1>2. TypeOK /\ LifeInv /\ Tracked /\ OrderInv /\ CursorInv /\ Accounted
  BY DEF Inv
<1>3. /\ Through(Read) \in Pending
      /\ \A q \in Pending : Upto(q, Through(Read)) => q \in Consumed(Read)
      /\ \A q \in Consumed(Read) : q \in Pending /\ Upto(q, Through(Read))
  BY <1>1, <1>2, ThroughIs
<1>4. /\ Disk(disk) /\ Pending \subseteq Positions(disk) /\ Pending \subseteq Position
      /\ \A p \in Readable : p \in Position /\ At(p) \in RecordsOn(disk)
      /\ Readable \subseteq Positions(disk)
      /\ \A p : At(p) = LineAt(disk, p)
      /\ \A p \in Readable : At(p) \in Records
  <2>1. Disk(disk) /\ Pending \subseteq Positions(disk)
    BY <1>2, DiskIs DEF Pending
  <2> QED BY <1>2, <2>1, DiskIs, PositionsOf
<1>5. batch \subseteq RecordsOn(disk) /\ batch \subseteq Records
  BY <1>4
<1>6. cursor \in Position
  BY <1>2 DEF TypeOK
<1>7. /\ exporter' = [pc |-> IF batch = {} THEN "commit" ELSE "sending",
                      upto |-> Through(Read), batch |-> batch, limit |-> exporter.limit]
      /\ exporter.limit \in 1..MaxBatch
  BY <1>1, <1>2 DEF TypeOK
\* What lies before a consumed record is stored or consumed.
<1>8. ASSUME NEW p \in Readable, Upto(p, Through(Read))
      PROVE  At(p) \in rows \cup batch
  <2>1. CASE Upto(p, cursor)
    BY <1>2, <2>1 DEF CursorInv, Covered
  <2>2. CASE Before(cursor, p)
    <3>1. p \in Pending
      BY <1>4, <2>2 DEF Pending
    <3> QED BY <1>3, <1>8, <3>1
  <2> QED BY <1>4, <1>6, <2>1, <2>2, OrderOfPositions
<1>9. Gapless(rows \cup batch)
  <2> SUFFICES ASSUME NEW p \in Readable, NEW q \in Readable, Before(p, q),
                      At(q) \in rows \cup batch
               PROVE  At(p) \in rows \cup batch
    BY DEF Gapless
  <2>1. CASE At(q) \in rows
    BY <1>2, <2>1 DEF OrderInv, Gapless
  <2>2. CASE At(q) \in batch
    <3>1. PICK x \in Consumed(Read) \cap Readable : At(x) = At(q)
      BY <2>2
    <3>2. x = q
      BY <1>2, <1>4, <3>1 DEF Tracked, Single
    <3>3. Upto(q, Through(Read))
      BY <1>3, <3>1, <3>2
    <3>4. p \in Position /\ q \in Position /\ Through(Read) \in Position
      BY <1>3, <1>4
    <3>5. Upto(p, Through(Read))
      BY <3>3, <3>4, BeforeTransitive DEF Upto
    <3> QED BY <1>8, <3>5
  <2> QED BY <2>1, <2>2
<1>10. /\ Readable' = Readable /\ \A p : At(p)' = At(p)
       /\ \A p : Inside(disk, p) <=> Inside(disk, p)'
  BY <1>1 DEF Readable, At, writerVars
<1> HIDE DEF batch
<1>11. TypeOK'
  <2>1. Through(Read) \in Position
    BY <1>3, <1>4
  <2>2. exporter' \in [pc : {"ready", "sending", "commit", "off"}, batch : SUBSET Records,
                       upto : Position, limit : 1..MaxBatch]
    BY <1>5, <1>7, <2>1
  <2>3. wire' \subseteq SUBSET Records
    BY <1>1, <1>2, <1>5 DEF TypeOK
  <2> QED BY <1>1, <1>2, <2>2, <2>3 DEF TypeOK, writerVars, lifeVars
<1>12. OrderInv'
  <2>1. \A b \in wire' : b \in wire \/ b = batch
    BY <1>1
  <2>2. Gapless(rows) /\ \A b \in wire' : Gapless(rows \cup b)
    BY <1>2, <1>9, <2>1 DEF OrderInv
  <2> QED BY <1>1, <1>10, <2>2 DEF OrderInv, Gapless
<1>13. CursorInv'
  <2>1. Covered(cursor, rows)'
    BY <1>1, <1>2, <1>10 DEF CursorInv, Covered
  <2>2. Inside(disk, Through(Read))
    BY <1>3, <1>4, InsideAll
  <2>3. Covered(exporter.upto, rows \cup exporter.batch)'
    <3>1. disk' = disk /\ rows' = rows /\ exporter'.upto = Through(Read) /\ exporter'.batch = batch
      BY <1>1, <1>7 DEF writerVars
    <3>2. Inside(disk', exporter'.upto)
      BY <2>2, <3>1
    <3>3. \A p \in Readable' : Upto(p, exporter'.upto) => At(p)' \in rows' \cup exporter'.batch
      BY <1>8, <1>10, <3>1
    <3> QED BY <3>2, <3>3 DEF Covered
  <2>4. exporter'.pc # "sending" => exporter'.batch = {}
    BY <1>7
  <2> QED BY <2>1, <2>3, <2>4 DEF CursorInv
<1>14. LifeInv' /\ Tracked' /\ Accounted'
  <2>1. Sent' \subseteq Sent \cup RecordsOn(disk)
    BY <1>1, <1>5 DEF Sent
  <2> QED BY <1>1, <2>1, WriterUntouched DEF lifeVars
<1> QED BY <1>11, <1>12, <1>13, <1>14 DEF Inv

LEMMA DeliverInv ==
  ASSUME Inv, NEW b \in wire, NEW acknowledged \in BOOLEAN, Deliver(b, acknowledged)
  PROVE  Inv'
<1>1. /\ wire' = wire \ {b} /\ rows' = rows \cup b
      /\ acknowledged => exporter.pc = "sending" /\ exporter.batch = b
      /\ exporter' = IF acknowledged
                       THEN [exporter EXCEPT !.pc = "commit", !.batch = {}]
                       ELSE exporter
      /\ UNCHANGED cursor /\ UNCHANGED writerVars /\ UNCHANGED lifeVars
  BY DEF Deliver
<1>2. TypeOK /\ LifeInv /\ Tracked /\ OrderInv /\ CursorInv /\ Accounted
  BY DEF Inv
<1>3. /\ Readable' = Readable /\ \A p : At(p)' = At(p)
      /\ disk' = disk
  BY <1>1 DEF Readable, At, writerVars
<1>4. b \subseteq Records
  BY <1>2 DEF TypeOK
<1>5. TypeOK'
  <2>1. exporter' \in [pc : {"ready", "sending", "commit", "off"}, batch : SUBSET Records,
                       upto : Position, limit : 1..MaxBatch]
    BY <1>1, <1>2 DEF TypeOK
  <2>2. rows' \subseteq Records /\ wire' \subseteq SUBSET Records
    BY <1>1, <1>2, <1>4 DEF TypeOK
  <2> QED BY <1>1, <1>2, <2>1, <2>2 DEF TypeOK, writerVars, lifeVars
<1>6. OrderInv'
  <2>1. Gapless(rows \cup b) /\ \A c \in wire' : Gapless(rows \cup c)
    BY <1>1, <1>2 DEF OrderInv
  <2>2. ASSUME NEW c \in wire'
        PROVE  Gapless((rows \cup b) \cup c)
    BY <2>1 DEF Gapless
  <2> QED BY <1>1, <1>3, <2>1, <2>2 DEF OrderInv, Gapless
<1>7. CursorInv'
  <2>1. Covered(cursor, rows)'
    BY <1>1, <1>2, <1>3 DEF CursorInv, Covered
  <2>2. CASE acknowledged
    <3>1. exporter'.upto = exporter.upto /\ exporter'.batch = {} /\ exporter'.pc = "commit"
      BY <1>1, <1>2, <2>2 DEF TypeOK
    <3>2. Covered(exporter.upto, rows \cup b)
      BY <1>1, <1>2, <2>2 DEF CursorInv
    <3>3. Covered(exporter.upto, rows \cup exporter.batch)'
      BY <1>1, <1>3, <3>1, <3>2 DEF Covered
    <3> QED BY <2>1, <3>1, <3>3 DEF CursorInv
  <2>3. CASE ~ acknowledged
    <3>1. exporter' = exporter
      BY <1>1, <2>3
    <3>2. exporter.pc \in {"sending", "commit"} =>
            Covered(exporter.upto, rows \cup exporter.batch)'
      BY <1>1, <1>2, <1>3, <3>1 DEF CursorInv, Covered
    <3> QED BY <1>2, <2>1, <3>1, <3>2 DEF CursorInv
  <2> QED BY <2>2, <2>3
<1>8. LifeInv' /\ Tracked' /\ Accounted'
  <2>1. Sent' \subseteq Sent
    BY <1>1 DEF Sent
  <2> QED BY <1>1, <2>1, WriterUntouched DEF lifeVars
<1> QED BY <1>5, <1>6, <1>7, <1>8 DEF Inv

\* The exporter gives a request up, or a batch is lost.
LEMMA BatchBack ==
  ASSUME Inv, UNCHANGED <<cursor, rows>>, UNCHANGED writerVars, UNCHANGED lifeVars,
         wire' \subseteq wire,
         \/ exporter' = exporter
         \/ \E limit \in 1..MaxBatch : exporter' = Ready(limit)
  PROVE  Inv'
<1>1. TypeOK /\ LifeInv /\ Tracked /\ OrderInv /\ CursorInv /\ Accounted
  BY DEF Inv
<1>2. /\ Readable' = Readable /\ (\A p : At(p)' = At(p))
      /\ disk' = disk
  BY DEF Readable, At, writerVars
<1>3. Origin \in Position
  BY DEF Origin, Position
<1>4. TypeOK'
  BY <1>1, <1>3 DEF TypeOK, Ready, writerVars, lifeVars
<1>5. OrderInv'
  BY <1>1, <1>2 DEF OrderInv, Gapless
<1>6. CursorInv'
  <2>1. Covered(cursor, rows)'
    BY <1>1, <1>2 DEF CursorInv, Covered
  <2>2. CASE exporter' = exporter
    <3>1. exporter.pc \in {"sending", "commit"} =>
            Covered(exporter.upto, rows \cup exporter.batch)'
      BY <1>1, <1>2, <2>2 DEF CursorInv, Covered
    <3> QED BY <1>1, <2>1, <2>2, <3>1 DEF CursorInv
  <2>3. CASE \E limit \in 1..MaxBatch : exporter' = Ready(limit)
    BY <2>1, <2>3 DEF CursorInv, Ready
  <2> QED BY <2>2, <2>3
<1>7. LifeInv' /\ Tracked' /\ Accounted'
  <2>1. Sent' \subseteq Sent
    BY DEF Sent
  <2> QED BY <2>1, WriterUntouched DEF lifeVars
<1> QED BY <1>4, <1>5, <1>6, <1>7 DEF Inv

LEMMA CursorMoves ==
  ASSUME Inv, Commit \/ CommitFails \/ CursorLost
  PROVE  Inv'
<1>1. TypeOK /\ LifeInv /\ Tracked /\ OrderInv /\ CursorInv /\ Accounted
  BY DEF Inv
<1>2. UNCHANGED <<wire, rows>> /\ UNCHANGED writerVars /\ UNCHANGED lifeVars
  BY DEF Commit, CommitFails, CursorLost
<1>3. /\ Readable' = Readable /\ (\A p : At(p)' = At(p))
      /\ disk' = disk
  BY <1>2 DEF Readable, At, writerVars
<1>4. Origin \in Position
  BY DEF Origin, Position
<1>5. /\ TypeOK'
      /\ Covered(cursor, rows)'
      /\ \/ exporter' = exporter
         \/ exporter'.pc \in {"ready", "off"} /\ exporter'.batch = {}
  <2>1. CASE Commit
    <3>1. /\ exporter.pc = "commit" /\ cursor' = exporter.upto
          /\ exporter' = [pc |-> IF up = "up" THEN "ready" ELSE "off", batch |-> {},
                          upto |-> Origin, limit |-> exporter.limit]
      BY <2>1 DEF Commit, Committed, Ready
    <3>2. Covered(exporter.upto, rows)
      <4>1. exporter.batch = {} /\ Covered(exporter.upto, rows \cup exporter.batch)
        BY <1>1, <3>1 DEF CursorInv
      <4> QED BY <4>1 DEF Covered
    <3>3. Covered(cursor, rows)'
      BY <1>2, <1>3, <3>1, <3>2 DEF Covered
    <3>4. TypeOK'
      BY <1>1, <1>2, <1>4, <3>1 DEF TypeOK, writerVars, lifeVars
    <3> QED BY <3>1, <3>3, <3>4
  <2>2. CASE CursorLost
    <3>1. cursor' = Origin /\ exporter' = exporter
      BY <2>2 DEF CursorLost
    <3>2. ASSUME NEW p \in Readable
          PROVE  ~ Upto(p, Origin)
      <4>1. p \in Positions(disk) /\ Disk(disk)
        BY <1>1, DiskIs
      <4>2. p[1] >= 1 /\ p[2] >= 1 /\ p \in Position
        BY <4>1, PositionsOf
      <4> QED BY <4>2 DEF Upto, Before, Origin, Position
    <3>3. Covered(cursor, rows)'
      BY <1>3, <3>1, <3>2 DEF Covered, Inside
    <3>4. TypeOK'
      BY <1>1, <1>2, <1>4, <3>1 DEF TypeOK, writerVars, lifeVars
    <3> QED BY <3>1, <3>3, <3>4
  <2>3. CASE CommitFails
    <3>1. /\ cursor' = cursor
          /\ exporter' = [pc |-> IF up = "up" THEN "ready" ELSE "off", batch |-> {},
                          upto |-> Origin, limit |-> exporter.limit]
      BY <2>3 DEF CommitFails, Committed, Ready
    <3>2. Covered(cursor, rows)'
      BY <1>1, <1>2, <1>3, <3>1 DEF CursorInv, Covered
    <3>3. TypeOK'
      BY <1>1, <1>2, <1>4, <3>1 DEF TypeOK, writerVars, lifeVars
    <3> QED BY <3>1, <3>2, <3>3
  <2> QED BY <2>1, <2>2, <2>3
<1>6. OrderInv'
  BY <1>1, <1>2, <1>3 DEF OrderInv, Gapless
<1>7. CursorInv'
  <2>1. CASE exporter' = exporter
    <3>1. exporter.pc \in {"sending", "commit"} =>
            Covered(exporter.upto, rows \cup exporter.batch)'
      BY <1>1, <1>2, <1>3, <2>1 DEF CursorInv, Covered
    <3> QED BY <1>1, <1>5, <2>1, <3>1 DEF CursorInv
  <2>2. CASE exporter'.pc \in {"ready", "off"} /\ exporter'.batch = {}
    BY <1>5, <2>2 DEF CursorInv
  <2> QED BY <1>5, <2>1, <2>2
<1>8. LifeInv' /\ Tracked' /\ Accounted'
  <2>1. Sent' \subseteq Sent
    BY <1>2 DEF Sent
  <2> QED BY <1>2, <2>1, WriterUntouched DEF lifeVars
<1> QED BY <1>5, <1>6, <1>7, <1>8 DEF Inv

-----------------------------------------------------------------------------
(* The process's steps.                                                    *)

LEMMA StopsInv ==
  ASSUME Inv, Leave \/ Stop \/ Stopped \/ Start
  PROVE  Inv'
<1>1. TypeOK /\ LifeInv /\ Tracked /\ OrderInv /\ CursorInv /\ Accounted
  BY DEF Inv
<1>2. /\ UNCHANGED <<seen, queue, writing, stats, disk, cursor, wire, rows, abrupt>>
      /\ \/ exporter' = exporter
         \/ exporter' = Off
         \/ exporter' = Ready(MaxBatch)
      /\ opened' = FALSE \/ opened' = opened
      /\ gateway' \in Gateways
      /\ ends' \in 0..MaxEnds
      /\ up' \in {"up", "leaving", "stopping", "ending", "down"}
      /\ LifeInv'
  <2>1. CASE Leave
    BY <1>1, <2>1 DEF Leave, writerVars, TypeOK, LifeInv
  <2>2. CASE Stop
    BY <1>1, <2>2 DEF Stop, writerVars, exportVars, TypeOK, LifeInv
  <2>3. CASE Stopped
    <3>1. ends < MaxEnds /\ ends' = ends + 1 /\ up' = "down"
      BY <1>1, <2>3 DEF Stopped, LifeInv
    <3>2. ends' \in 0..MaxEnds
      BY <1>1, <3>1, BoundsAssumption DEF TypeOK
    <3> QED BY <1>1, <2>3, <3>1, <3>2 DEF Stopped, writerVars, exportVars, TypeOK, LifeInv
  <2>4. CASE Start
    BY <1>1, <2>4 DEF Start, writerVars, TypeOK, LifeInv
  <2> QED BY <2>1, <2>2, <2>3, <2>4
<1>3. Origin \in Position /\ MaxBatch \in 1..MaxBatch
  BY BoundsAssumption DEF Origin, Position
<1>4. /\ Off = [pc |-> "off", batch |-> {}, upto |-> Origin, limit |-> MaxBatch]
      /\ Ready(MaxBatch) = [pc |-> "ready", batch |-> {}, upto |-> Origin, limit |-> MaxBatch]
  BY DEF Off, Ready
<1>5. TypeOK'
  <2>1. opened' \in BOOLEAN
    BY <1>1, <1>2, Zenon DEF TypeOK
  <2>2. exporter' \in [pc : {"ready", "sending", "commit", "off"}, batch : SUBSET Records,
                       upto : Position, limit : 1..MaxBatch]
    <3>1. CASE exporter' = exporter
      BY <1>1, <3>1 DEF TypeOK
    <3>2. CASE exporter' = Off \/ exporter' = Ready(MaxBatch)
      BY <1>3, <1>4, <3>2
    <3> QED BY <1>2, <3>1, <3>2
  <2> QED BY <1>1, <1>2, <2>1, <2>2 DEF TypeOK
<1>6. OrderInv' /\ CursorInv'
  BY <1>2, <1>4, <1>5, DiskUntouched
<1>7. Tracked'
  <2>1. Held' = Held /\ Sent' = Sent
    BY <1>2 DEF Held, Sent
  <2> QED BY <1>1, <1>2, <2>1 DEF Tracked
<1>8. Accounted'
  BY <1>1, <1>2 DEF Accounted
<1> QED BY <1>2, <1>5, <1>6, <1>7, <1>8 DEF Inv

LEMMA StopTimesOutInv ==
  ASSUME Inv, StopTimesOut
  PROVE  Inv'
<1>1. TypeOK /\ LifeInv /\ Tracked /\ OrderInv /\ CursorInv /\ Accounted
  BY DEF Inv
<1>2. /\ up = "stopping" /\ up' = "ending" /\ abrupt' = TRUE /\ queue' = <<>>
      /\ writing' = writing \/ writing' = <<>>
      /\ UNCHANGED <<gateway, ends, seen, stats, disk, opened>>
      /\ UNCHANGED exportVars
  BY DEF StopTimesOut
<1>3. TypeOK'
  <2>1. queue' \in Seq(Records) /\ writing' \in Seq(Records) /\ Len(queue') <= MaxQueue
    <3>1. <<>> \in Seq(Records) /\ Len(<<>>) <= MaxQueue
      BY BoundsAssumption
    <3>2. writing \in Seq(Records)
      BY <1>1 DEF TypeOK
    <3> QED BY <1>2, <3>1, <3>2
  <2> QED BY <1>1, <1>2, <2>1 DEF TypeOK, exportVars
<1>4. OrderInv' /\ CursorInv'
  BY <1>2, <1>3, DiskUntouched DEF exportVars
<1>5. Elements(<<>>) = {} /\ Injective(<<>>)
  BY DEF Elements, Injective
<1>6. Tracked'
  <2>1. /\ Elements(queue') = {} /\ Injective(queue') /\ Sent' = Sent /\ disk' = disk
        /\ Elements(writing') \subseteq Elements(writing) /\ Injective(writing')
        /\ seen' = seen
    BY <1>1, <1>2, <1>5 DEF Tracked, Sent, exportVars
  <2>2. Held' \subseteq Held
    BY <2>1 DEF Held
  <2> QED BY <1>1, <2>1, <2>2 DEF Tracked
<1>7. LifeInv' /\ Accounted'
  BY <1>1, <1>2 DEF LifeInv, Accounted
<1> QED BY <1>3, <1>4, <1>6, <1>7 DEF Inv

LEMMA CrashInv ==
  ASSUME Inv, Crash
  PROVE  Inv'
<1>1. TypeOK /\ LifeInv /\ Tracked /\ OrderInv /\ CursorInv /\ Accounted
  BY DEF Inv
<1>2. /\ up' = "down" /\ ends < MaxEnds /\ ends' = ends + 1 /\ abrupt' = TRUE
      /\ queue' = <<>> /\ writing' = <<>> /\ exporter' = Off
      /\ UNCHANGED <<gateway, seen, stats, opened, cursor, wire, rows>>
  BY DEF Crash
<1>3. MayBecome(disk')
  <2>1. CASE disk' = disk
    BY <1>1, <2>1, StaysAsItIs
  <2>2. ASSUME NEW n \in 0..Len(writing), NEW tail \in Line \cup {None}, WrittenUpTo(n, tail)
        PROVE  MayBecome(disk')
    BY <1>1, <2>2, WriteSpools DEF WrittenUpTo
  <2> QED BY <2>1, <2>2 DEF Crash
<1>4. Off = [pc |-> "off", batch |-> {}, upto |-> Origin, limit |-> MaxBatch]
  BY DEF Off, Ready
<1>5. TypeOK'
  <2>1. Disk(disk')
    BY <1>3 DEF MayBecome
  <2>2. queue' \in Seq(Records) /\ writing' \in Seq(Records) /\ Len(queue') <= MaxQueue
    BY <1>1, <1>2, BoundsAssumption DEF TypeOK
  <2>3. Origin \in Position /\ MaxBatch \in 1..MaxBatch
    BY BoundsAssumption DEF Origin, Position
  <2>4. ends' \in 0..MaxEnds
    BY <1>1, <1>2, BoundsAssumption DEF TypeOK
  <2> QED BY <1>1, <1>2, <1>4, <2>1, <2>2, <2>3, <2>4 DEF TypeOK, Disk
<1>6. Tracked' /\ OrderInv' /\ CursorInv'
  BY <1>2, <1>3, <1>4, <1>5, BatchGone
<1>7. LifeInv' /\ Accounted'
  BY <1>2 DEF LifeInv, Accounted
<1> QED BY <1>5, <1>6, <1>7 DEF Inv

-----------------------------------------------------------------------------
(* The theorems.                                                           *)

LEMMA InitInv == Init => Inv
<1> SUFFICES ASSUME Init
             PROVE  Inv
  OBVIOUS
<1>1. DOMAIN disk = {} /\ disk = <<>> /\ Positions(disk) = {}
  BY DEF Init, Positions
<1>2. /\ Elements(queue) = {} /\ Elements(writing) = {} /\ TailOf(disk) = {}
      /\ Injective(queue) /\ Injective(writing)
  BY <1>1 DEF Init, Elements, Injective, TailOf
<1>3. Readable = {} /\ RecordsOn(disk) = {} /\ Single(disk)
  BY <1>1 DEF Readable, RecordsOn, Single
<1>4. TypeOK
  <2>1. queue \in Seq(Records) /\ writing \in Seq(Records) /\ Len(queue) <= MaxQueue
    BY BoundsAssumption DEF Init
  <2>2. /\ Origin \in Position /\ MaxBatch \in 1..MaxBatch
        /\ ends \in 0..MaxEnds
    BY BoundsAssumption DEF Origin, Position, Init
  <2>3. stats \in Stats
    BY DEF Init, Stats
  <2> QED BY <1>1, <2>1, <2>2, <2>3 DEF Init, TypeOK, Ready
<1>5. LifeInv /\ Tracked /\ OrderInv
  BY <1>2, <1>3 DEF Init, LifeInv, Tracked, Held, Sent, OrderInv, Gapless
<1>6. CursorInv
  BY <1>3 DEF Init, CursorInv, Covered, Inside, Ready
<1>7. Accounted
  BY DEF Init, Accounted
<1> QED BY <1>4, <1>5, <1>6, <1>7 DEF Inv

LEMMA NextInv == Inv /\ [Next]_vars => Inv'
<1> SUFFICES ASSUME Inv, [Next]_vars
             PROVE  Inv'
  OBVIOUS
<1>1. CASE UNCHANGED vars
  BY <1>1 DEF Inv, vars, TypeOK, LifeInv, Tracked, Held, Sent, OrderInv, Gapless, CursorInv,
     Covered, Readable, At, Accounted
<1>2. ASSUME NEW r \in Records, Observe(r)
      PROVE  Inv'
  BY <1>2, ObserveInv
<1>3. CASE Writer
  BY <1>3, TakeInv, AppendLinesInv, LeaveOutInv DEF Writer
<1>4. ASSUME NEW n \in 0..Len(writing), NEW tail \in Line \cup {None}, WriteFails(n, tail)
      PROVE  Inv'
  BY <1>4, WriteFailsInv
<1>5. CASE Export
  BY <1>5, ExportInv
<1>6. CASE TooLarge \/ SendFails
  <2>1. /\ UNCHANGED <<cursor, rows>> /\ UNCHANGED writerVars /\ UNCHANGED lifeVars
        /\ wire' \subseteq wire
    BY <1>6 DEF TooLarge, SendFails
  <2>2. \E limit \in 1..MaxBatch : exporter' = Ready(limit)
    <3>1. exporter.limit \in 1..MaxBatch /\ MaxBatch \in Nat
      BY BoundsAssumption DEF Inv, TypeOK
    <3>2. exporter.limit > 1 => exporter.limit \div 2 \in 1..MaxBatch
      BY <3>1
    <3> QED BY <1>6, <3>1, <3>2 DEF TooLarge, SendFails
  <2> QED BY <2>1, <2>2, BatchBack
<1>7. CASE Commit \/ CommitFails \/ CursorLost
  BY <1>7, CursorMoves
<1>8. ASSUME NEW b \in wire, Lose(b)
      PROVE  Inv'
  BY <1>8, BatchBack DEF Lose
<1>9. ASSUME NEW b \in wire, NEW acknowledged \in BOOLEAN, Deliver(b, acknowledged)
      PROVE  Inv'
  BY <1>9, DeliverInv
<1>10. CASE Leave \/ Stop \/ Stopped \/ Start
  BY <1>10, StopsInv
<1>11. CASE StopTimesOut
  BY <1>11, StopTimesOutInv
<1>12. CASE Crash
  BY <1>12, CrashInv
<1> QED BY <1>1, <1>2, <1>3, <1>4, <1>5, <1>6, <1>7, <1>8, <1>9, <1>10, <1>11, <1>12 DEF Next

\* What the log promises, together.
THEOREM Invariant == Spec => []Inv
<1>1. Init => Inv
  BY InitInv
<1>2. Inv /\ [Next]_vars => Inv'
  BY NextInv
<1> QED BY <1>1, <1>2, PTL DEF Spec

\* Types: segments are numbered without a gap, the queue never exceeds its limit
\* and the process never ends more often than is bounded (RequestLog, Spool).
THEOREM TypeCorrect == Spec => []TypeOK
<1>1. Inv => TypeOK
  BY DEF Inv
<1> QED BY <1>1, Invariant, PTL

\* The cursor file is never ahead of the control plane's rows, whatever the disk,
\* the network and the process do (Spool.commit, Exporter.export_once).
THEOREM Behind == Spec => []CursorBehindRows
<1>1. Inv => CursorBehindRows
  BY DEF Inv, CursorInv, Covered, CursorBehindRows
<1> QED BY <1>1, Invariant, PTL

\* What the control plane has is a prefix of the log, although batches are sent
\* again, split, lost and delivered late (Exporter.export_once, post_events).
THEOREM Ordered == Spec => []StoredInOrder
<1>1. Inv => StoredInOrder
  BY DEF Inv, OrderInv, Gapless, StoredInOrder
<1> QED BY <1>1, Invariant, PTL

\* No observation is lost without a count (LogStats, RequestLog._run).
THEOREM Counted == Spec => []Accounted
<1>1. Inv => Accounted
  BY DEF Inv
<1> QED BY <1>1, Invariant, PTL

-----------------------------------------------------------------------------
(* Where writes do not fail, what is counted as recorded is there.         *)

RecordedInv ==
  /\ up = "down" => writing = <<>>
  /\ opened /\ up # "down" => DOMAIN disk = {} \/ disk[Last(disk)].tail = None
  /\ stats.recorded \subseteq rows \cup RecordsOn(disk) \cup stats.pruned

\* A step that keeps the lines of the disk keeps what was recorded.
LEMMA RecordedKept ==
  ASSUME TypeOK, RecordedInv, Kept(disk, disk'), stats'.recorded = stats.recorded,
         stats'.pruned = stats.pruned, rows \subseteq rows'
  PROVE  stats'.recorded \subseteq rows' \cup RecordsOn(disk') \cup stats'.pruned
<1>1. RecordsOn(disk) \subseteq RecordsOn(disk')
  BY DEF Kept, RecordsOn
<1> QED BY <1>1 DEF RecordedInv

LEMMA RecordedAppend ==
  ASSUME Inv, RecordedInv, AppendLines
  PROVE  RecordedInv'
<1> DEFINE D == Written(Found, writing, None)
           E == [s \in DOMAIN D \ Excess(D) |-> D[s]]
           lost == {s \in Excess(D) : Unexported(s)}
           U == UNION {RecordsIn(D[s]) : s \in lost}
<1>1. /\ Appending /\ disk' = E /\ writing' = <<>>
      /\ stats' = [stats EXCEPT !.recorded = @ \cup Elements(writing), !.pruned = @ \cup U]
      /\ rows' = rows
  BY DEF AppendLines, exportVars
<1>2. TypeOK /\ Tracked /\ CursorInv
  BY DEF Inv
<1>3. opened => DOMAIN disk = {} \/ disk[Last(disk)].tail = None
  BY <1>1 DEF Appending, RecordedInv
<1>4. /\ Disk(D) /\ DOMAIN D # {} /\ Kept(disk, D) /\ D[Last(D)].tail = None
      /\ \A r \in Elements(writing) : \E p \in Positions(D) : LineAt(D, p) = r
      /\ \E N : Grown(disk, D, N)
  <2>1. writing \in Seq(Records) /\ Injective(writing) /\ Elements(writing) \subseteq Records
    BY <1>2, ElementsOf DEF TypeOK, Tracked
  <2>2. None \notin Records
    BY RecordsAssumption
  <2> HIDE DEF D
  <2> QED BY <1>2, <1>3, <2>1, <2>2, Spooled DEF D
<1> HIDE DEF D
<1>5. /\ Disk(E) /\ DOMAIN E # {} /\ Last(E) = Last(D) /\ E[Last(E)] = D[Last(D)]
      /\ \A p \in Positions(D) :
           p[1] \notin Excess(D) => p \in Positions(E) /\ LineAt(E, p) = LineAt(D, p)
  BY <1>4, PrunedGrows
<1> HIDE DEF E
\* A record in a segment that is removed is stored, or counted as pruned.
<1>6. ASSUME NEW p \in Positions(D), LineAt(D, p) \in Records
      PROVE  LineAt(D, p) \in rows \cup RecordsOn(E) \cup U
  <2>1. /\ p \in Position /\ p[1] \in DOMAIN D /\ p[2] \in 1..Len(D[p[1]].lines)
        /\ p[1] \in Nat /\ p[2] \in Nat
    BY <1>4, PositionsOf DEF Position
  <2>2. CASE p[1] \notin Excess(D)
    BY <1>5, <1>6, <2>2 DEF RecordsOn
  <2>3. CASE p[1] \in Excess(D) /\ Unexported(p[1])
    <3>1. LineAt(D, p) \in RecordsIn(D[p[1]])
      BY <1>6, <2>1 DEF RecordsIn, Elements, LineAt
    <3> QED BY <2>3, <3>1
  <2>4. CASE ~ Unexported(p[1])
    <3>1. cursor \in Position /\ cursor[1] \in Nat /\ cursor[2] \in Nat
      BY <1>2 DEF TypeOK, Position
    <3>2. Upto(p, cursor)
      BY <2>1, <2>4, <3>1 DEF Unexported, Upto, Before
    <3>3. PICK N : Grown(disk, D, N)
      BY <1>4
    <3>4. Disk(disk) /\ Inside(disk, cursor)
      BY <1>2, DiskIs DEF CursorInv, Covered
    <3>5. ~ Past(disk, p)
      BY <1>4, <3>1, <3>2, <3>4, PastAll
    <3>6. p \in Positions(disk) /\ LineAt(D, p) = LineAt(disk, p)
      BY <3>3, <3>5 DEF Grown
    <3>7. p \in Readable /\ At(p) = LineAt(D, p)
      BY <1>2, <1>6, <3>6, DiskIs
    <3> QED BY <1>2, <3>2, <3>7 DEF CursorInv, Covered
  <2> QED BY <2>2, <2>3, <2>4
<1>7. RecordsOn(disk) \cup Elements(writing) \subseteq rows \cup RecordsOn(E) \cup U
  <2>1. \A r \in RecordsOn(disk) : \E p \in Positions(D) : LineAt(D, p) = r /\ r \in Records
    BY <1>4 DEF RecordsOn, Kept
  <2>2. Elements(writing) \subseteq Records
    BY <1>2, ElementsOf DEF TypeOK
  <2> QED BY <1>4, <1>6, <2>1, <2>2
<1> HIDE DEF U
<1>8. /\ stats'.recorded = stats.recorded \cup Elements(writing)
      /\ stats'.pruned = stats.pruned \cup U
  BY <1>1, <1>2 DEF TypeOK, Stats
<1>9. stats'.recorded \subseteq rows' \cup RecordsOn(disk') \cup stats'.pruned
  BY <1>1, <1>7, <1>8 DEF RecordedInv
<1> QED BY <1>1, <1>4, <1>5, <1>9 DEF RecordedInv

\* What a step other than an append does, as long as no write fails.
Calm ==
  /\ Kept(disk, disk')
  /\ stats'.recorded = stats.recorded /\ stats'.pruned = stats.pruned /\ rows \subseteq rows'
  /\ up' = "down" => writing' = <<>>
  /\ \/ up' = "down"
     \/ disk' = disk /\ opened' = opened /\ up # "down"
     \/ opened' = FALSE

LEMMA CalmKeeps ==
  ASSUME TypeOK, RecordedInv, Calm
  PROVE  RecordedInv'
<1>1. stats'.recorded \subseteq rows' \cup RecordsOn(disk') \cup stats'.pruned
  BY RecordedKept DEF Calm
<1>2. opened' /\ up' # "down" => DOMAIN disk' = {} \/ disk'[Last(disk')].tail = None
  <2>1. CASE opened' = FALSE \/ up' = "down"
    BY <2>1
  <2>2. CASE disk' = disk /\ opened' = opened /\ up # "down"
    BY <2>2 DEF RecordedInv
  <2> QED BY <2>1, <2>2 DEF Calm
<1> QED BY <1>1, <1>2 DEF RecordedInv, Calm

LEMMA OthersAreCalm ==
  ASSUME Inv, RecordedInv, "write" \notin Mishaps, Next, ~ AppendLines
  PROVE  Calm
<1>1. TypeOK /\ Tracked
  BY DEF Inv
<1>2. Kept(disk, disk)
  BY <1>1, DiskIs, Unchanged
<1>3. ASSUME NEW r \in Records, Observe(r)
      PROVE  Calm
  <2>1. stats'.recorded = stats.recorded /\ stats'.pruned = stats.pruned
    BY <1>1, <1>3 DEF Observe, TypeOK, Stats
  <2> QED BY <1>2, <1>3, <2>1 DEF Observe, exportVars, lifeVars, Calm
<1>4. CASE Take
  BY <1>2, <1>4 DEF Take, exportVars, lifeVars, Calm
<1>5. ASSUME NEW i \in 1..Len(writing), LeaveOut(i)
      PROVE  Calm
  <2>1. writing # <<>>
    BY <1>5 DEF LeaveOut
  <2>2. up # "down" /\ up' = up
    BY <1>5, <2>1 DEF RecordedInv, LeaveOut, lifeVars
  <2>3. stats'.recorded = stats.recorded /\ stats'.pruned = stats.pruned
    BY <1>1, <1>5 DEF LeaveOut, TypeOK, Stats
  <2> QED BY <1>2, <1>5, <2>2, <2>3 DEF LeaveOut, exportVars, Calm
<1>6. ASSUME NEW n \in 0..Len(writing), NEW tail \in Line \cup {None}, WriteFails(n, tail)
      PROVE  Calm
  BY <1>6 DEF WriteFails
<1>7. CASE Crash
  <2>1. Kept(disk, disk')
    <3>1. ASSUME NEW n \in 0..Len(writing), NEW tail \in Line \cup {None}, WrittenUpTo(n, tail)
          PROVE  Kept(disk, disk')
      BY <1>1, <3>1, WriteSpools DEF WrittenUpTo
    <3> QED BY <1>2, <1>7, <3>1 DEF Crash
  <2> QED BY <1>7, <2>1 DEF Crash, Calm
<1>8. ASSUME UNCHANGED writerVars, UNCHANGED lifeVars, rows \subseteq rows'
      PROVE  Calm
  BY <1>2, <1>8 DEF Calm, writerVars, lifeVars, RecordedInv
<1>9. CASE \/ Export \/ TooLarge \/ SendFails
           \/ Commit \/ CommitFails \/ CursorLost
  BY <1>8, <1>9 DEF Export, TooLarge, SendFails, Commit, CommitFails, CursorLost
<1>10. ASSUME NEW b \in wire, Lose(b)
       PROVE  Calm
  BY <1>8, <1>10 DEF Lose
<1>11. ASSUME NEW b \in wire, NEW acknowledged \in BOOLEAN, Deliver(b, acknowledged)
       PROVE  Calm
  BY <1>8, <1>11 DEF Deliver
<1>12. CASE Leave \/ Stop
  BY <1>2, <1>12 DEF Leave, Stop, Calm, writerVars, exportVars
<1>13. CASE StopTimesOut
  BY <1>2, <1>13 DEF StopTimesOut, Calm, exportVars
<1>14. CASE Stopped
  BY <1>2, <1>14 DEF Stopped, Calm, writerVars, exportVars
<1>15. CASE Start
  BY <1>2, <1>15 DEF Start, Calm
<1> QED BY <1>3, <1>4, <1>5, <1>6, <1>7, <1>9, <1>10, <1>11, <1>12, <1>13, <1>14, <1>15
        DEF Next, Writer

\* Where no write fails, a record counted as recorded is stored, or waits past the
\* cursor, or is counted as pruned: crashes, torn lines and restarts cost only what
\* was in memory (Spool.append, Spool._open, Spool._prune, LogStats.recorded).
THEOREM NothingRecordedLost ==
  ASSUME "write" \notin Mishaps
  PROVE  Spec => []RecordedNotLost
<1>1. Init => RecordedInv
  BY DEF Init, RecordedInv
<1>2. Inv /\ RecordedInv /\ [Next]_vars => RecordedInv'
  <2> SUFFICES ASSUME Inv, RecordedInv, [Next]_vars
               PROVE  RecordedInv'
    OBVIOUS
  <2>1. CASE AppendLines
    BY <2>1, RecordedAppend
  <2>2. CASE Next /\ ~ AppendLines
    BY <2>2, OthersAreCalm, CalmKeeps DEF Inv
  <2>3. CASE UNCHANGED vars
    BY <2>3 DEF vars, RecordedInv
  <2> QED BY <2>1, <2>2, <2>3
<1>3. Inv /\ RecordedInv => RecordedNotLost
  <2> SUFFICES ASSUME Inv, RecordedInv, NEW r \in stats.recorded, r \notin rows,
                      r \notin stats.pruned
               PROVE  \E p \in Pending : At(p) = r
    BY DEF RecordedNotLost
  <2>1. TypeOK /\ CursorInv
    BY DEF Inv
  <2>2. r \in RecordsOn(disk)
    BY DEF RecordedInv
  <2>3. PICK p \in Positions(disk) : LineAt(disk, p) = r /\ r \in Records
    BY <2>2 DEF RecordsOn
  <2>4. p \in Readable /\ At(p) = r /\ p \in Position
    BY <2>1, <2>3, DiskIs
  <2>5. ~ Upto(p, cursor)
    BY <2>1, <2>4 DEF CursorInv, Covered
  <2>6. cursor \in Position
    BY <2>1 DEF TypeOK
  <2>7. Before(cursor, p)
    BY <2>4, <2>5, <2>6, OrderOfPositions
  <2> QED BY <2>3, <2>4, <2>7 DEF Pending
<1> QED BY <1>1, <1>2, <1>3, Invariant, PTL DEF Spec

=============================================================================
