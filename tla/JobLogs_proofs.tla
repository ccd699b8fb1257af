--------------------------- MODULE JobLogs_proofs ---------------------------
(***************************************************************************)
(* Proofs about JobLogs: whatever a container prints, however its lines    *)
(* share timestamps, and wherever connections drop, inside a timestamp     *)
(* too, what is printed is the log, every line once, but for one line that *)
(* may be printed again after the first one was printed and not remembered.*)
(***************************************************************************)
EXTENDS JobLogs, SequenceTheorems, TLAPS

-----------------------------------------------------------------------------
(* The inductive invariant. *)

Piece   == (1..MaxLines) \X {"time", "head", "tail"}
Printed == Len(out)

\* The line that was printed last.
Shown == IF out = <<>> THEN 0 ELSE out[Printed][1][1]

\* The first q pieces of line l.
Pieces(l, q) ==
    IF q = 0 THEN <<>> ELSE IF q = 1 THEN <<Time(l)>> ELSE
    IF q = 2 THEN <<Time(l), Front(l)>> ELSE Text(l)

\* Made of line 1, but some of it maybe more than once.
OfLineOne(line) == \A i \in 1..Len(line) : line[i][1] = 1

\* The first line was printed without a timestamp, and none again since.
CutFirst  == out # <<>> /\ ~Stamped(out[1])
Uncounted == CutFirst /\ Printed = Shown /\ Stamp[Shown] = Stamp[1]

\* The lines the writer knows of: as long as all have the timestamp of a first line
\* that was not counted, one less than it has printed.
Known == IF Uncounted THEN Shown - 1 ELSE Shown

\* The writer remembers the timestamp of line n, and how many lines up to it have
\* that timestamp.
Knows(n) ==
    IF n = 0 THEN last = 0 /\ lastCount = 0
    ELSE /\ last = Stamp[n] /\ lastCount \in 1..n
         /\ \A j \in (n - lastCount + 1)..n : Stamp[j] = last
         /\ \A j \in 1..(n - lastCount) : Stamp[j] < last

Remembers ==
    /\ Shown \in 0..produced /\ (Printed = Shown \/ Printed = Shown + 1)
    /\ Knows(Known)

\* It skips what a resumed stream repeats.
Skips ==
    /\ resuming => Known # 0
    /\ ~resuming => skipAtTs = 0
    /\ skipAtTs \in 0..lastCount

\* Before the first line is printed, what has arrived of it stays.
Opening == out = <<>> => OfLineOne(partial) /\ (partial # <<>> => produced > 0)

\* Line l is what was printed k-th, in order, and line r twice.
Whole(k, l) == out[k] = Text(l) \/ (k = 1 /\ l = 1 /\ OfLineOne(out[k]))
Place(k, r) == IF k <= r THEN k ELSE k - 1
AllWhole(r) == \A k \in 1..Printed : Whole(k, Place(k, r))

Ordered ==
    IF Printed = Shown THEN AllWhole(Printed)
    ELSE CutFirst /\ \E r \in 1..Shown : Stamp[r] = Stamp[1] /\ AllWhole(r)

\* What the writer holds until the stream is over.
WriterOK == Remembers /\ Skips /\ Opening /\ Ordered

\* A stream has sent m lines and q pieces. One that does not resume is behind the
\* line printed last, or has begun again because the writer knows of none.
Sent(m, q) ==
    /\ sent = 4 * m + q
    /\ IF resuming
       THEN /\ m <= Known /\ partial = Pieces(m + 1, q)
            /\ skipAtTs = (IF m <= Known - lastCount THEN lastCount ELSE Known - m)
       ELSE /\ m = Shown \/ (m = 0 /\ Known = 0)
            /\ (out = <<>> /\ Len(partial) >= q) \/ partial = Pieces(m + 1, q)

Exited == job \in {"exited", "inactive", "terminal"}

StreamOK ==
    /\ pc \in {"follow", "final"} \/ (pc = "check" /\ ~err) =>
           \E m \in 0..MaxLines, q \in 0..3 : Sent(m, q)
    /\ pc = "attach" => \/ out = <<>>
                        \/ (resuming <=> Known # 0) /\ skipAtTs = lastCount /\ partial = <<>>
    /\ pc = "check" /\ ~err => sent = LogSize /\ Exited
    /\ pc = "final" => job = "terminal"

LogOK ==
    /\ open => Exited /\ produced > 0
    /\ pc = "done" => Exited
    /\ missed => pc = "done"
    /\ pc # "gaveUp" => failures < MaxReconnects

IInv ==
    /\ TypeOK /\ (pc # "done" => WriterOK) /\ StreamOK /\ LogOK
    /\ EachLineOnce /\ CompleteAtEnd

-----------------------------------------------------------------------------
(* Pieces and lines. *)

LEMMA LinesNat == MaxLines \in Nat /\ MaxReconnects \in Nat \ {0} /\ MaxFaults \in Nat
                  /\ Stamp \in [1..MaxLines -> Nat \ {0}]
BY LogAssumption

LEMMA StampsGrow ==
  ASSUME NEW i \in 1..MaxLines, NEW j \in 1..MaxLines, i <= j
  PROVE  Stamp[i] <= Stamp[j] /\ Stamp[i] \in Nat /\ Stamp[j] \in Nat /\ Stamp[j] > 0
BY LogAssumption

LEMMA DivOf ==
  ASSUME NEW m \in Nat, NEW q \in 0..3
  PROVE  (4 * m + q) \div 4 = m /\ (4 * m + q) % 4 = q
OBVIOUS

\* The pieces of a line come in order.
LEMMA PieceIs ==
  ASSUME NEW m \in Nat
  PROVE  /\ PieceAt(4 * m + 1) = Time(m + 1)
         /\ PieceAt(4 * m + 2) = Front(m + 1)
         /\ PieceAt(4 * m + 3) = Back(m + 1)
         /\ PieceAt(4 * m + 4) = Newline(m + 1)
<1>1. /\ ((4 * m + 1) - 1) \div 4 = m /\ (4 * m + 1) % 4 = 1
  BY DivOf
<1>2. /\ ((4 * m + 2) - 1) \div 4 = m /\ (4 * m + 2) % 4 = 2
  BY DivOf
<1>3. /\ ((4 * m + 3) - 1) \div 4 = m /\ (4 * m + 3) % 4 = 3
  BY DivOf
<1>4. /\ ((4 * m + 4) - 1) \div 4 = m /\ (4 * m + 4) % 4 = 0
  <2>1. (4 * m + 4) - 1 = 4 * m + 3 /\ 4 * m + 4 = 4 * (m + 1) + 0
    OBVIOUS
  <2> QED BY <2>1, DivOf
<1>5. PieceAt(4 * m + 1) = Time(m + 1)
  BY <1>1 DEF PieceAt
<1>6. PieceAt(4 * m + 2) = Front(m + 1)
  BY <1>2 DEF PieceAt
<1>7. PieceAt(4 * m + 3) = Back(m + 1)
  BY <1>3 DEF PieceAt
<1>8. PieceAt(4 * m + 4) = Newline(m + 1)
  BY <1>4 DEF PieceAt
<1> QED BY <1>5, <1>6, <1>7, <1>8

LEMMA LogSizeNat ==
  ASSUME TypeOK, LogOK
  PROVE  LogSize \in Nat /\ LogSize <= 4 * produced /\ LogSize >= 4 * produced - 1
         /\ (~open => LogSize = 4 * produced) /\ (open => LogSize = 4 * produced - 1)
BY LinesNat DEF TypeOK, LogOK, LogSize

\* A line that has arrived beyond its timestamp has one.
LEMMA PiecesStamped ==
  ASSUME NEW l \in Nat, NEW q \in 0..3
  PROVE  /\ Stamped(Pieces(l, q)) <=> q \in {2, 3}
         /\ Pieces(l, q) = <<>> <=> q = 0
         /\ q # 0 => Pieces(l, q)[1][1] = l
         /\ Len(Pieces(l, q)) = q
BY DEF Pieces, Stamped, Text, Time, Front, Back

LEMMA SeqOfPieces ==
  ASSUME TypeOK
  PROVE  out \in Seq(Seq(Piece)) /\ partial \in Seq(Piece) /\ Printed \in Nat
         /\ ((out = <<>>) <=> (Printed = 0))
<1>1. out \in Seq(Seq(Piece)) /\ partial \in Seq(Piece)
  BY DEF TypeOK, Piece
<1> QED BY <1>1, EmptySeq DEF Printed

-----------------------------------------------------------------------------
(* What the writer is. *)

\* What a printed line was made of.
LEMMA WholeIs ==
  ASSUME TypeOK, NEW k \in 1..Printed, NEW l, Whole(k, l), out[k] # <<>>
  PROVE  out[k][1][1] = l
<1>1. CASE out[k] = Text(l)
  BY <1>1 DEF Text, Time
<1>2. CASE k = 1 /\ l = 1 /\ OfLineOne(out[k])
  <2>1. out[k] \in Seq(Piece)
    BY SeqOfPieces DEF Printed
  <2>2. 1 \in 1..Len(out[k])
    BY <1>2, <2>1, EmptySeq
  <2> QED BY <1>2, <2>2 DEF OfLineOne
<1> QED BY <1>1, <1>2 DEF Whole

LEMMA WriterNumbers ==
  ASSUME TypeOK, WriterOK
  PROVE  /\ Printed \in Nat /\ produced \in Nat /\ Shown <= produced /\ produced <= MaxLines
         /\ Shown \in Nat /\ Known \in Nat /\ Known <= Shown /\ Shown <= Known + 1
         /\ last \in Nat /\ lastCount \in Nat /\ skipAtTs \in Nat /\ lastCount <= Known
         /\ (out = <<>>) <=> (Printed = 0)
         /\ (out = <<>>) <=> (Shown = 0)
         /\ (last = 0) <=> (Known = 0)
         /\ Known = 0 => lastCount = 0
         /\ resuming => Known > 0 /\ lastCount > 0 /\ last > 0
<1>1. /\ Printed \in Nat /\ produced \in Nat /\ produced <= MaxLines /\ last \in Nat
      /\ lastCount \in Nat /\ skipAtTs \in Nat /\ ((out = <<>>) <=> (Printed = 0))
  BY LinesNat, SeqOfPieces DEF TypeOK
<1>2. Shown \in Nat /\ Shown <= produced /\ (Printed = Shown \/ Printed = Shown + 1)
  BY <1>1 DEF WriterOK, Remembers
<1>3. (out = <<>>) <=> (Shown = 0)
  <2>1. CASE Printed = Shown
    BY <1>1, <2>1
  <2>2. CASE Printed # Shown
    <3>1. PICK r \in 1..Shown : TRUE
      BY <2>2 DEF WriterOK, Ordered
    <3> QED BY <1>1, <1>2, <3>1, <2>2
  <2> QED BY <2>1, <2>2
<1>4. Known \in Nat /\ Known <= Shown /\ Shown <= Known + 1
  <2>1. CASE Uncounted
    <3>1. Shown # 0 /\ Known = Shown - 1
      BY <1>1, <2>1 DEF Known, Uncounted, CutFirst
    <3> QED BY <1>2, <3>1
  <2>2. CASE ~Uncounted
    BY <1>2, <2>2 DEF Known
  <2> QED BY <2>1, <2>2
<1>5. Knows(Known)
  BY DEF WriterOK, Remembers
<1>6. CASE Known = 0
  BY <1>1, <1>2, <1>3, <1>4, <1>5, <1>6 DEF WriterOK, Skips, Knows
<1>7. CASE Known # 0
  <2>1. Known \in 1..MaxLines
    BY <1>1, <1>2, <1>4, <1>7, LinesNat
  <2>2. last = Stamp[Known] /\ lastCount \in 1..Known
    BY <1>5, <1>7 DEF Knows
  <2>3. last > 0
    BY <2>1, <2>2, LinesNat
  <2> QED BY <1>1, <1>2, <1>3, <1>4, <1>7, <2>1, <2>2, <2>3
<1> QED BY <1>6, <1>7

\* Nothing is printed.
LEMMA PrintsNothing ==
  ASSUME UNCHANGED out
  PROVE  /\ Printed' = Printed /\ Shown' = Shown /\ Known' = Known /\ CutFirst' = CutFirst
         /\ Ordered' = Ordered
<1>1. Printed' = Printed /\ Shown' = Shown /\ CutFirst' = CutFirst
  BY DEF Printed, Shown, CutFirst
<1>2. Known' = Known
  BY <1>1 DEF Known, Uncounted
<1>3. \A r : AllWhole(r)' = AllWhole(r)
  BY <1>1 DEF AllWhole, Whole, Place, OfLineOne
<1>4. Ordered' = Ordered
  BY <1>1, <1>3 DEF Ordered
<1> QED BY <1>1, <1>2, <1>4

LEMMA KnowsStays ==
  ASSUME UNCHANGED <<last, lastCount>>, NEW n
  PROVE  Knows(n)' = Knows(n)
BY DEF Knows

\* The line that is arriving is the next one.
LEMMA FirstPiece ==
  ASSUME TypeOK, WriterOK, NEW m \in Nat, NEW q \in 0..3, Sent(m, q), partial # <<>>
  PROVE  partial[1][1] = m + 1
<1>1. Len(partial) \in Nat /\ Len(partial) > 0
  BY SeqOfPieces, EmptySeq
<1>2. CASE partial = Pieces(m + 1, q)
  BY <1>2, PiecesStamped
<1>3. CASE out = <<>> /\ ~resuming
  <2>1. m = 0
    BY <1>3, WriterNumbers DEF Sent
  <2>2. OfLineOne(partial)
    BY <1>3 DEF WriterOK, Opening
  <2>3. partial[1][1] = 1
    BY <1>1, <2>2 DEF OfLineOne
  <2> QED BY <2>1, <2>3
<1> QED BY <1>2, <1>3 DEF Sent

-----------------------------------------------------------------------------
(* A line is emitted. *)

\* A repeated line is skipped, and of those with the timestamp of the line
\* remembered last one fewer is left to skip.
LEMMA EmitReplay ==
  ASSUME TypeOK, WriterOK,
         NEW m \in Nat, NEW q \in {2, 3}, Sent(m, q), partial # <<>>, resuming, m < Known,
         Emit(partial)
  PROVE  /\ UNCHANGED <<out, last, lastCount, resuming>>
         /\ skipAtTs' = (IF m + 1 <= Known - lastCount THEN lastCount ELSE Known - (m + 1))
<1> DEFINE ts == Stamp[m + 1]
<1>1. partial[1][1] = m + 1
  BY FirstPiece
<1>2. /\ Known \in Nat /\ Known <= MaxLines /\ MaxLines \in Nat
      /\ last \in Nat /\ lastCount \in Nat /\ skipAtTs \in Nat /\ lastCount <= Known
      /\ lastCount > 0 /\ Known # 0
  BY WriterNumbers, LinesNat
<1>3. m + 1 \in 1..Known /\ m + 1 \in 1..MaxLines
  BY <1>2
<1>4. ts \in Nat
  BY <1>3, LinesNat
<1>5. skipAtTs = (IF m <= Known - lastCount THEN lastCount ELSE Known - m)
  BY DEF Sent
<1>6. Stamped(partial)
  BY PiecesStamped DEF Sent
<1>7. Knows(Known)
  BY DEF WriterOK, Remembers
<1>8. CASE m + 1 <= Known - lastCount
  <2>1. ts < last
    BY <1>2, <1>3, <1>7, <1>8 DEF Knows
  <2>2. skipAtTs = lastCount
    BY <1>2, <1>5, <1>8
  <2> HIDE DEF ts
  <2>3. UNCHANGED <<out, last, lastCount, resuming>> /\ skipAtTs' = skipAtTs
    BY <1>1, <1>2, <1>4, <1>6, <2>1 DEF Emit, EmitRaw, EmitStamped, Replayed, ts
  <2> QED BY <2>2, <2>3, <1>8
<1>9. CASE ~(m + 1 <= Known - lastCount)
  <2>1. m + 1 \in (Known - lastCount + 1)..Known
    BY <1>2, <1>3, <1>9
  <2>2. ts = last
    BY <1>2, <1>7, <2>1 DEF Knows
  <2>3. skipAtTs = Known - m /\ skipAtTs > 0
    BY <1>2, <1>5, <1>9
  <2> HIDE DEF ts
  <2>4. UNCHANGED <<out, last, lastCount, resuming>> /\ skipAtTs' = skipAtTs - 1
    BY <1>1, <1>2, <1>4, <1>6, <2>2, <2>3 DEF Emit, EmitRaw, EmitStamped, Replayed, ts
  <2> QED BY <1>2, <2>3, <2>4, <1>9
<1> QED BY <1>8, <1>9

\* A line that is not repeated is printed: what is still to skip is none.
LEMMA EmitPrints ==
  ASSUME TypeOK, WriterOK,
         NEW m \in Nat, NEW q \in 0..3, Sent(m, q), partial # <<>>, m < produced,
         Stamped(partial), ~(resuming /\ m < Known), Emit(partial)
  PROVE  /\ out' = Append(out, partial) /\ resuming' = FALSE /\ skipAtTs' = 0
         /\ last' = Stamp[m + 1]
         /\ lastCount' = (IF Stamp[m + 1] = last THEN lastCount + 1 ELSE 1)
         /\ m = Shown \/ m = Known
<1> DEFINE ts == Stamp[m + 1]
<1>1. partial[1][1] = m + 1
  BY FirstPiece
<1>2. /\ Known \in Nat /\ Known <= MaxLines /\ produced <= MaxLines /\ MaxLines \in Nat
      /\ produced \in Nat /\ last \in Nat /\ lastCount \in Nat /\ skipAtTs \in Nat
      /\ lastCount <= Known /\ (resuming => lastCount > 0 /\ Known # 0)
  BY WriterNumbers, LinesNat
<1>3. m + 1 \in 1..MaxLines /\ ts \in Nat
  BY <1>2, LinesNat
<1>4. CASE resuming
  <2>1. m = Known
    BY <1>2, <1>4 DEF Sent
  <2>2. skipAtTs = 0
    BY <1>2, <1>4, <2>1 DEF Sent
  <2>3. last = Stamp[Known] /\ Known \in 1..MaxLines
    BY <1>2, <1>4 DEF WriterOK, Remembers, Knows
  <2>4. last <= ts
    BY <1>3, <2>1, <2>3, StampsGrow
  <2>5. ~Replayed(ts)
    BY <1>2, <1>3, <2>2, <2>4 DEF Replayed
  <2> HIDE DEF ts
  <2> QED BY <1>1, <2>1, <2>2, <2>5 DEF Emit, EmitRaw, EmitStamped, ts
<1>5. CASE ~resuming
  <2>1. skipAtTs = 0
    BY <1>5 DEF WriterOK, Skips
  <2>2. m = Shown \/ m = Known
    BY <1>5 DEF Sent
  <2> HIDE DEF ts
  <2> QED BY <1>1, <1>5, <2>1, <2>2 DEF Emit, EmitRaw, EmitStamped, ts
<1> QED BY <1>4, <1>5

\* Who knows n lines and remembers the next one knows that one too.
LEMMA MemoryGrows ==
  ASSUME NEW n \in Nat, n + 1 <= MaxLines, Knows(n), last \in Nat, lastCount \in Nat,
         last' = Stamp[n + 1], lastCount' = (IF Stamp[n + 1] = last THEN lastCount + 1 ELSE 1)
  PROVE  Knows(n + 1)' /\ lastCount' \in 1..(n + 1)
<1> DEFINE ts == Stamp[n + 1]
<1>1. MaxLines \in Nat /\ n + 1 \in 1..MaxLines
  BY LinesNat
<1>2. ts \in Nat /\ ts > 0
  BY <1>1, LinesNat
<1>3. lastCount <= n
  BY DEF Knows
<1>4. lastCount' \in 1..(n + 1)
  BY <1>3
<1>5. n # 0 => last = Stamp[n] /\ n \in 1..MaxLines /\ last <= ts
  <2>1. n # 0 => last = Stamp[n] /\ n \in 1..MaxLines
    BY <1>1 DEF Knows
  <2> QED BY <1>1, <2>1, StampsGrow
<1>6. ASSUME NEW j \in Int, n + 1 - lastCount' + 1 <= j, j <= n + 1 PROVE Stamp[j] = ts
  <2>1. CASE j = n + 1
    BY <2>1
  <2>2. CASE j # n + 1
    <3>1. ts = last /\ lastCount' = lastCount + 1
      BY <1>3, <1>6, <2>2
    <3>2. n # 0
      BY <1>2, <3>1 DEF Knows
    <3>3. j \in (n - lastCount + 1)..n
      BY <1>6, <2>2, <3>1
    <3> QED BY <3>1, <3>2, <3>3 DEF Knows
  <2> QED BY <2>1, <2>2
<1>7. ASSUME NEW j \in Int, 1 <= j, j <= n + 1 - lastCount' PROVE Stamp[j] < ts
  <2>1. n # 0
    BY <1>3, <1>4, <1>7
  <2>2. CASE ts = last
    <3>1. j \in 1..(n - lastCount)
      BY <1>7, <2>2
    <3> QED BY <2>1, <2>2, <3>1 DEF Knows
  <2>3. CASE ts # last
    <3>1. j \in 1..MaxLines /\ j <= n
      BY <1>1, <1>7, <2>3
    <3>2. Stamp[j] <= Stamp[n] /\ Stamp[j] \in Nat
      BY <1>5, <2>1, <3>1, StampsGrow
    <3> QED BY <1>2, <1>5, <2>1, <2>3, <3>2
  <2> QED BY <2>2, <2>3
<1> HIDE DEF ts
<1>8. last' = ts
  BY DEF ts
<1>9. /\ \A j \in (n + 1 - lastCount' + 1)..(n + 1) : Stamp[j] = last'
      /\ \A j \in 1..(n + 1 - lastCount') : Stamp[j] < last'
  BY <1>4, <1>6, <1>7, <1>8
<1>10. n + 1 # 0 /\ last' = Stamp[n + 1]
  OBVIOUS
<1> QED BY <1>4, <1>9, <1>10 DEF Knows

\* What a printed line leaves of the others, and what is shown then.
LEMMA Appended ==
  ASSUME TypeOK, out' = Append(out, partial), partial # <<>>
  PROVE  /\ out' \in Seq(Seq(Piece)) /\ Printed' = Printed + 1 /\ out' # <<>>
         /\ \A k \in 1..Printed : out'[k] = out[k]
         /\ out'[Printed + 1] = partial
         /\ Shown' = partial[1][1]
         /\ CutFirst' = (IF out = <<>> THEN ~Stamped(partial) ELSE CutFirst)
<1>1. out \in Seq(Seq(Piece)) /\ partial \in Seq(Piece) /\ Printed \in Nat
      /\ ((out = <<>>) <=> (Printed = 0))
  BY SeqOfPieces
<1>2. /\ out' \in Seq(Seq(Piece)) /\ Len(out') = Printed + 1 /\ out' # <<>>
      /\ \A k \in 1..Printed : out'[k] = out[k]
      /\ out'[Printed + 1] = partial
  BY <1>1, AppendProperties DEF Printed
<1>3. Printed' = Printed + 1
  BY <1>2 DEF Printed
<1>4. Shown' = partial[1][1]
  BY <1>2, <1>3 DEF Shown
<1>5. out'[1] = (IF out = <<>> THEN partial ELSE out[1])
  BY <1>1, <1>2
<1>6. CutFirst' = (IF out = <<>> THEN ~Stamped(partial) ELSE CutFirst)
  BY <1>2, <1>5 DEF CutFirst
<1> QED BY <1>2, <1>3, <1>4, <1>6

\* Lines that were whole are, and of the last one all has arrived.
LEMMA OrderGrows ==
  ASSUME TypeOK, out' = Append(out, partial), partial # <<>>, NEW r \in Nat, AllWhole(r),
         partial = Text(Place(Printed + 1, r)) \/ (out = <<>> /\ r # 0 /\ OfLineOne(partial))
  PROVE  AllWhole(r)'
<1>1. /\ Printed' = Printed + 1 /\ Printed \in Nat /\ ((out = <<>>) <=> (Printed = 0))
      /\ \A k \in 1..Printed : out'[k] = out[k]
      /\ out'[Printed + 1] = partial
  BY Appended, SeqOfPieces
<1>2. ASSUME NEW k \in 1..(Printed + 1) PROVE Whole(k, Place(k, r))'
  <2>1. CASE k # Printed + 1
    <3>1. k \in 1..Printed
      BY <1>1, <2>1
    <3>2. Whole(k, Place(k, r)) /\ out'[k] = out[k]
      BY <1>1, <3>1 DEF AllWhole
    <3> QED BY <3>2 DEF Whole, OfLineOne, Place
  <2>2. CASE k = Printed + 1 /\ partial = Text(Place(Printed + 1, r))
    BY <1>1, <2>2 DEF Whole, Place
  <2>3. CASE k = Printed + 1 /\ out = <<>> /\ r # 0 /\ OfLineOne(partial)
    BY <1>1, <2>3 DEF Whole, Place, OfLineOne
  <2> QED BY <2>1, <2>2, <2>3
<1> QED BY <1>1, <1>2 DEF AllWhole

\* The line after the ones shown, or known, comes in order.
LEMMA PrintedOrder ==
  ASSUME TypeOK, WriterOK, NEW m \in Nat, m = Shown \/ m = Known,
         out' = Append(out, partial), partial # <<>>, partial[1][1] = m + 1,
         partial = Text(m + 1) \/ (out = <<>> /\ OfLineOne(partial))
  PROVE  /\ Ordered' /\ Shown' = m + 1 /\ (Printed' = Shown' \/ Printed' = Shown' + 1)
         /\ m = Known \/ Printed' = Shown'
<1>1. /\ Printed' = Printed + 1 /\ Shown' = m + 1
      /\ CutFirst' = (IF out = <<>> THEN ~Stamped(partial) ELSE CutFirst)
  BY Appended
<1>2. /\ Printed \in Nat /\ Shown \in Nat /\ Known \in Nat /\ Known <= Shown /\ Shown <= Known + 1
      /\ ((out = <<>>) <=> (Printed = 0)) /\ ((out = <<>>) <=> (Shown = 0))
      /\ (Printed = Shown \/ Printed = Shown + 1)
  BY WriterNumbers DEF WriterOK, Remembers
<1>3. Printed # Shown => Known = Shown
  BY DEF Known, Uncounted
<1>4. Known # Shown => Uncounted /\ out # <<>>
  BY DEF Known, Uncounted, CutFirst
<1>5. CASE Printed = Shown /\ m = Shown
  <2>1. AllWhole(Printed)
    BY <1>5 DEF WriterOK, Ordered
  <2>2. AllWhole(m + 1)
    BY <1>2, <1>5, <2>1 DEF AllWhole, Place
  <2>3. AllWhole(m + 1)'
    <3>1. Place(Printed + 1, m + 1) = m + 1 /\ m + 1 \in Nat /\ m + 1 # 0
      BY <1>2, <1>5 DEF Place
    <3> QED BY <2>2, <3>1, OrderGrows
  <2>4. Printed' = m + 1 /\ Printed' = Shown'
    BY <1>1, <1>5
  <2>5. AllWhole(Printed)'
    BY <2>3, <2>4 DEF AllWhole
  <2>6. Ordered'
    BY <2>4, <2>5 DEF Ordered
  <2> QED BY <1>1, <1>5, <2>6
<1>6. CASE Printed = Shown /\ m # Shown
  <2>1. m = Known /\ m + 1 = Printed /\ CutFirst /\ Stamp[Shown] = Stamp[1] /\ out # <<>>
    BY <1>2, <1>4, <1>6 DEF Uncounted
  <2>2. AllWhole(m + 1)
    BY <1>6, <2>1 DEF WriterOK, Ordered
  <2>3. AllWhole(m + 1)'
    <3>1. Place(Printed + 1, m + 1) = m + 1 /\ m + 1 \in Nat
      BY <1>2, <2>1 DEF Place
    <3> QED BY <2>1, <2>2, <3>1, OrderGrows
  <2>4. Printed' = Shown' + 1 /\ m + 1 \in 1..Shown' /\ Stamp[m + 1] = Stamp[1]
    BY <1>1, <1>2, <1>6, <2>1
  <2>5. CutFirst'
    BY <1>1, <2>1
  <2>6. \E r \in 1..Shown' : Stamp[r] = Stamp[1] /\ AllWhole(r)'
    BY <2>3, <2>4
  <2>7. Printed' # Shown'
    BY <1>1, <1>2, <2>4
  <2>8. Ordered'
    BY <2>5, <2>6, <2>7 DEF Ordered
  <2> QED BY <1>1, <2>1, <2>4, <2>8
<1>7. CASE Printed = Shown + 1
  <2>1. m = Shown /\ m = Known /\ out # <<>>
    BY <1>2, <1>3, <1>7
  <2>2. CutFirst
    BY <1>2, <1>7 DEF WriterOK, Ordered
  <2>3. PICK r \in 1..Shown : Stamp[r] = Stamp[1] /\ AllWhole(r)
    BY <1>2, <1>7 DEF WriterOK, Ordered
  <2>4. AllWhole(r)'
    <3>1. Place(Printed + 1, r) = m + 1
      BY <1>2, <1>7, <2>1 DEF Place
    <3> QED BY <1>2, <2>1, <2>3, <3>1, OrderGrows
  <2>5. Printed' = Shown' + 1 /\ r \in 1..Shown' /\ CutFirst'
    BY <1>1, <1>2, <1>7, <2>1, <2>2
  <2>6. \E s \in 1..Shown' : Stamp[s] = Stamp[1] /\ AllWhole(s)'
    BY <2>3, <2>4, <2>5
  <2>7. Printed' # Shown'
    BY <1>1, <1>2, <2>5
  <2>8. Ordered'
    BY <2>5, <2>6, <2>7 DEF Ordered
  <2> QED BY <1>1, <2>1, <2>5, <2>8
<1> QED BY <1>2, <1>5, <1>6, <1>7

\* And the writer remembers it.
LEMMA PrintedMemory ==
  ASSUME TypeOK, WriterOK, NEW m \in Nat, m = Shown \/ m = Known, m < produced,
         out' = Append(out, partial), partial # <<>>, Stamped(partial), UNCHANGED jobVars,
         last' = Stamp[m + 1], lastCount' = (IF Stamp[m + 1] = last THEN lastCount + 1 ELSE 1),
         Shown' = m + 1, Printed' = Shown' \/ Printed' = Shown' + 1,
         m = Known \/ Printed' = Shown'
  PROVE  /\ Remembers' /\ Known' # 0
         /\ last' \in Nat /\ lastCount' \in 0..MaxLines
<1>1. /\ Printed \in Nat /\ Shown \in Nat /\ Known \in Nat /\ Known <= Shown /\ Shown <= Known + 1
      /\ ((out = <<>>) <=> (Printed = 0)) /\ ((out = <<>>) <=> (Shown = 0))
      /\ produced \in Nat /\ produced <= MaxLines /\ MaxLines \in Nat
      /\ last \in Nat /\ lastCount \in Nat /\ lastCount <= Known
  BY WriterNumbers, LinesNat
<1>2. Printed' = Printed + 1 /\ CutFirst' = (IF out = <<>> THEN FALSE ELSE CutFirst)
  BY Appended
<1>3. m + 1 \in 1..MaxLines /\ Stamp[m + 1] \in Nat /\ Stamp[m + 1] > 0
  BY <1>1, LinesNat
<1>4. Knows(Known)
  BY DEF WriterOK, Remembers
<1>5. Shown' \in 0..produced'
  BY <1>1 DEF jobVars
<1>6. CASE m = Known
  <2>1. Knows(m + 1)' /\ lastCount' \in 1..(m + 1)
    <3>1. Knows(m)
      BY <1>4, <1>6
    <3> QED BY <1>1, <1>3, <3>1, MemoryGrows
  <2>2. CASE ~Uncounted'
    <3>1. Known' = m + 1
      BY <2>2 DEF Known
    <3> QED BY <1>1, <1>3, <1>5, <2>1, <3>1 DEF Remembers
  <2>3. CASE Uncounted'
    <3>1. CutFirst /\ out # <<>> /\ Printed + 1 = m + 1 /\ Stamp[m + 1] = Stamp[1]
      BY <1>2, <2>3 DEF Uncounted
    <3>2. Printed = Known /\ Printed # 0
      BY <1>1, <1>6, <3>1
    <3>3. Printed = Shown /\ Known = Shown
      BY <1>1, <3>2 DEF WriterOK, Remembers
    <3>4. Stamp[Shown] # Stamp[1]
      BY <1>1, <3>1, <3>2, <3>3 DEF Known, Uncounted
    <3>5. Stamp[1] <= Stamp[Shown] /\ Stamp[Shown] <= Stamp[m + 1] /\ Stamp[Shown] \in Nat
          /\ Stamp[1] \in Nat
      <4>1. Shown \in 1..MaxLines /\ 1 \in 1..MaxLines /\ 1 <= Shown /\ Shown <= m + 1
        BY <1>1, <1>3, <1>6, <3>2, <3>3
      <4> QED BY <1>3, <4>1, StampsGrow
    <3> QED BY <3>1, <3>4, <3>5
  <2> QED BY <2>2, <2>3
<1>7. CASE m # Known
  <2>1. m = Shown /\ Shown = Known + 1 /\ Printed' = Shown'
    BY <1>1, <1>7
  <2>2. Uncounted /\ CutFirst /\ out # <<>> /\ Stamp[Shown] = Stamp[1]
    BY <1>1, <2>1 DEF Known, Uncounted, CutFirst
  <2>3. CutFirst'
    BY <1>2, <2>2
  <2>4. Known # 0 => last = Stamp[1]
    <3>1. SUFFICES ASSUME Known # 0 PROVE last = Stamp[1]
      OBVIOUS
    <3>2. last = Stamp[Known]
      BY <1>4, <3>1 DEF Knows
    <3>3. 1 \in 1..MaxLines /\ Known \in 1..MaxLines /\ Shown \in 1..MaxLines
          /\ 1 <= Known /\ Known <= Shown
      BY <1>1, <1>3, <2>1, <3>1
    <3>4. Stamp[1] <= Stamp[Known] /\ Stamp[Known] <= Stamp[Shown] /\ Stamp[1] \in Nat
          /\ Stamp[Known] \in Nat
      BY <3>3, StampsGrow
    <3> QED BY <2>2, <3>2, <3>4
  <2>5. CASE Stamp[m + 1] = Stamp[1]
    <3>1. Uncounted' /\ Known' = m
      <4>1. Uncounted'
        BY <2>1, <2>3, <2>5 DEF Uncounted
      <4> QED BY <1>1, <2>1, <4>1 DEF Known
    <3>2. PICK n \in Nat : n = Known
      BY <1>1
    <3>3. Stamp[n + 1] = Stamp[m + 1] /\ n + 1 <= MaxLines /\ n + 1 = m
      BY <1>1, <1>3, <2>1, <2>2, <2>5, <3>2
    <3>4. Knows(n + 1)' /\ lastCount' \in 1..(n + 1)
      <4>1. Knows(n)
        BY <1>4, <3>2
      <4> QED BY <1>1, <3>3, <4>1, MemoryGrows
    <3> QED BY <1>1, <1>3, <1>5, <2>1, <3>1, <3>3, <3>4 DEF Remembers
  <2>6. CASE Stamp[m + 1] # Stamp[1]
    <3>1. Known' = m + 1
      <4>1. ~Uncounted'
        BY <2>6 DEF Uncounted
      <4> QED BY <4>1 DEF Known
    <3>2. lastCount' = 1
      <4>1. Known = 0 => last = 0
        BY <1>4 DEF Knows
      <4> QED BY <1>3, <2>4, <2>6, <4>1
    <3>3. ASSUME NEW j \in 1..m PROVE Stamp[j] < Stamp[m + 1]
      <4>1. j \in 1..MaxLines /\ m \in 1..MaxLines /\ 1 \in 1..MaxLines /\ j <= m /\ 1 <= m + 1
        BY <1>1, <1>3
      <4>2. Stamp[j] <= Stamp[m] /\ Stamp[1] <= Stamp[m + 1] /\ Stamp[j] \in Nat /\ Stamp[m] \in Nat
        BY <1>3, <4>1, StampsGrow
      <4> QED BY <1>3, <2>1, <2>2, <2>6, <4>2
    <3>4. Knows(m + 1)'
      <4>1. \A j \in (m + 1 - lastCount' + 1)..(m + 1) : Stamp[j] = last'
        BY <3>2
      <4>2. \A j \in 1..(m + 1 - lastCount') : Stamp[j] < last'
        BY <3>2, <3>3
      <4>3. m + 1 # 0 /\ lastCount' \in 1..(m + 1)
        BY <3>2
      <4> QED BY <4>1, <4>2, <4>3 DEF Knows
    <3> QED BY <1>1, <1>3, <1>5, <2>1, <3>1, <3>2, <3>4 DEF Remembers
  <2> QED BY <2>5, <2>6
<1> QED BY <1>6, <1>7

\* The first line may be printed before there is anything to know.
LEMMA RawFirst ==
  ASSUME TypeOK, WriterOK, out = <<>>, partial # <<>>, ~Stamped(partial), produced > 0,
         Emit(partial), UNCHANGED jobVars
  PROVE  /\ out' = Append(out, partial) /\ UNCHANGED <<last, lastCount, skipAtTs, resuming>>
         /\ Remembers' /\ Ordered' /\ Shown' = 1 /\ Known' = 0
<1>1. /\ out' = Append(out, partial) /\ UNCHANGED <<last, lastCount, skipAtTs, resuming>>
  BY DEF Emit, EmitRaw, EmitStamped
<1>2. OfLineOne(partial) /\ partial[1][1] = 1
  <2>1. OfLineOne(partial)
    BY DEF WriterOK, Opening
  <2>2. 1 \in 1..Len(partial)
    BY SeqOfPieces, EmptySeq
  <2> QED BY <2>1, <2>2 DEF OfLineOne
<1>3. Shown = 0 /\ Known = 0 /\ Printed = 0 /\ produced \in Nat /\ last = 0 /\ lastCount = 0
  BY WriterNumbers
<1>4. Printed' = 1 /\ Shown' = 1 /\ CutFirst'
  <2>1. /\ Printed' = Printed + 1 /\ Shown' = partial[1][1]
        /\ CutFirst' = (IF out = <<>> THEN ~Stamped(partial) ELSE CutFirst)
    BY <1>1, Appended
  <2>2. CutFirst'
    BY <2>1, Zenon
  <2> QED BY <1>2, <1>3, <2>1, <2>2
<1>5. Ordered'
  BY <1>1, <1>2, <1>3, PrintedOrder
<1>6. Uncounted' /\ Known' = 0
  <2>1. Uncounted'
    BY <1>4 DEF Uncounted
  <2> QED BY <1>4, <2>1 DEF Known
<1>7. Remembers'
  BY <1>1, <1>3, <1>4, <1>6 DEF Remembers, Knows, jobVars
<1> QED BY <1>1, <1>4, <1>5, <1>6, <1>7

\* The types of what the writer holds.
WriterTypes ==
    /\ out \in Seq(Seq(Piece)) /\ partial \in Seq(Piece)
    /\ last \in Nat /\ lastCount \in 0..MaxLines /\ skipAtTs \in 0..lastCount
    /\ resuming \in BOOLEAN

\* The whole line that has arrived, m + 1, is emitted: repeated, or printed.
LEMMA Emitted ==
  ASSUME TypeOK, WriterOK, NEW m \in Nat, NEW q \in 0..3, Sent(m, q), partial # <<>>, m < produced,
         q = 3 \/ out = <<>>,
         Emit(partial), partial' = <<>>, UNCHANGED jobVars
  PROVE  /\ WriterTypes' /\ WriterOK' /\ Printed <= Printed' /\ m + 1 <= Shown'
         /\ IF resuming'
            THEN /\ m + 1 <= Known'
                 /\ skipAtTs' = (IF m + 1 <= Known' - lastCount' THEN lastCount'
                                 ELSE Known' - (m + 1))
            ELSE m + 1 = Shown'
<1>1. /\ Printed \in Nat /\ produced \in Nat /\ produced <= MaxLines /\ MaxLines \in Nat
      /\ Shown \in Nat /\ Known \in Nat /\ Known <= Shown
      /\ last \in Nat /\ lastCount \in Nat /\ skipAtTs \in Nat /\ lastCount <= Known
      /\ (out = <<>>) <=> (Printed = 0)
      /\ (out = <<>>) <=> (Shown = 0)
      /\ resuming => lastCount > 0 /\ Known > 0
  BY WriterNumbers, LinesNat
<1>2. /\ out \in Seq(Seq(Piece)) /\ partial \in Seq(Piece) /\ lastCount \in 0..MaxLines
      /\ skipAtTs \in 0..lastCount /\ resuming \in BOOLEAN /\ partial' \in Seq(Piece)
  BY EmptySeq DEF TypeOK, Piece
<1>3. partial[1][1] = m + 1
  BY FirstPiece
<1>4. CASE resuming /\ m < Known
  <2>1. q = 3
    BY <1>1, <1>4
  <2>2. /\ UNCHANGED <<out, last, lastCount, resuming>>
        /\ skipAtTs' = (IF m + 1 <= Known - lastCount THEN lastCount ELSE Known - (m + 1))
    BY <1>4, <2>1, EmitReplay
  <2>3. Printed' = Printed /\ Shown' = Shown /\ Known' = Known /\ Ordered' /\ out # <<>>
    BY <1>1, <1>4, <2>2, PrintsNothing DEF WriterOK
  <2>4. skipAtTs' \in 0..lastCount
    BY <1>1, <1>4, <2>2
  <2>5. Remembers'
    BY <2>2, <2>3 DEF WriterOK, Remembers, Knows, jobVars
  <2>6. Skips' /\ Opening'
    BY <1>1, <1>4, <2>2, <2>3, <2>4 DEF Skips, Opening
  <2>7. WriterTypes'
    <3>1. out' \in Seq(Seq(Piece)) /\ resuming' \in BOOLEAN /\ partial' \in Seq(Piece)
      BY <1>2, <2>2, Zenon
    <3>2. last' \in Nat /\ lastCount' \in 0..MaxLines /\ skipAtTs' \in 0..lastCount'
      BY <1>1, <1>2, <2>2, <2>4, SMT
    <3> QED BY <3>1, <3>2, Zenon DEF WriterTypes
  <2> QED BY <1>1, <1>4, <2>2, <2>3, <2>5, <2>6, <2>7 DEF WriterOK
<1>5. CASE ~(resuming /\ m < Known) /\ Stamped(partial)
  <2>1. /\ out' = Append(out, partial) /\ resuming' = FALSE /\ skipAtTs' = 0
        /\ last' = Stamp[m + 1]
        /\ lastCount' = (IF Stamp[m + 1] = last THEN lastCount + 1 ELSE 1)
        /\ m = Shown \/ m = Known
    BY <1>5, EmitPrints
  <2>2. partial = Text(m + 1) \/ (out = <<>> /\ OfLineOne(partial))
    <3>1. CASE out = <<>>
      BY <3>1 DEF WriterOK, Opening
    <3>2. CASE out # <<>>
      <4>1. partial = Pieces(m + 1, 3)
        BY <3>2 DEF Sent
      <4> QED BY <4>1 DEF Pieces
    <3> QED BY <3>1, <3>2
  <2>3. /\ Ordered' /\ Shown' = m + 1 /\ (Printed' = Shown' \/ Printed' = Shown' + 1)
        /\ m = Known \/ Printed' = Shown'
    BY <1>3, <2>1, <2>2, PrintedOrder
  <2>4. Remembers' /\ last' \in Nat /\ lastCount' \in 0..MaxLines
    BY <1>5, <2>1, <2>3, PrintedMemory
  <2>5. out' # <<>> /\ out' \in Seq(Seq(Piece)) /\ Printed' = Printed + 1
    BY <2>1, Appended
  <2>6. Skips' /\ Opening'
    BY <2>1, <2>4, <2>5 DEF Skips, Opening
  <2>7. WriterTypes'
    <3>1. resuming' \in BOOLEAN /\ partial' \in Seq(Piece)
      BY <1>2, <2>1, Zenon
    <3>2. skipAtTs' \in 0..lastCount'
      BY <2>1, <2>4, <1>1, SMT
    <3> QED BY <2>4, <2>5, <3>1, <3>2, Zenon DEF WriterTypes
  <2> QED BY <1>1, <2>1, <2>3, <2>4, <2>5, <2>6, <2>7 DEF WriterOK
<1>6. CASE ~(resuming /\ m < Known) /\ ~Stamped(partial)
  <2>1. out = <<>>
    BY <1>6, PiecesStamped DEF Sent
  <2>2. m = 0 /\ ~resuming
    BY <1>1, <2>1 DEF Sent
  <2>3. /\ out' = Append(out, partial) /\ UNCHANGED <<last, lastCount, skipAtTs, resuming>>
        /\ Remembers' /\ Ordered' /\ Shown' = 1 /\ Known' = 0
    BY <1>1, <1>6, <2>1, <2>2, RawFirst
  <2>4. out' # <<>> /\ out' \in Seq(Seq(Piece)) /\ Printed' = Printed + 1
    BY <2>3, Appended
  <2>5. Skips' /\ Opening'
    BY <2>2, <2>3, <2>4 DEF WriterOK, Skips, Opening
  <2>6. WriterTypes'
    <3>1. resuming' \in BOOLEAN /\ partial' \in Seq(Piece)
      BY <1>2, <2>3, Zenon
    <3>2. last' \in Nat /\ lastCount' \in 0..MaxLines /\ skipAtTs' \in 0..lastCount'
      BY <1>1, <1>2, <2>3, SMT
    <3> QED BY <2>4, <3>1, <3>2, Zenon DEF WriterTypes
  <2> QED BY <1>1, <2>2, <2>3, <2>4, <2>5, <2>6 DEF WriterOK
<1> QED BY <1>4, <1>5, <1>6

\* A writer that has printed something is set back to the line it remembers.
LEMMA Resumed ==
  ASSUME TypeOK, WriterOK, Resume, UNCHANGED jobVars
  PROVE  /\ WriterTypes' /\ WriterOK' /\ UNCHANGED <<out, last, lastCount>> /\ partial' = <<>>
         /\ Printed' = Printed /\ Shown' = Shown /\ Known' = Known
         /\ (resuming' <=> Known # 0) /\ skipAtTs' = lastCount
<1>1. UNCHANGED <<out, last, lastCount>> /\ partial' = <<>>
  BY DEF Resume
<1>2. Printed' = Printed /\ Shown' = Shown /\ Known' = Known /\ Ordered'
  BY <1>1, PrintsNothing DEF WriterOK
<1>3. Remembers'
  BY <1>1, <1>2 DEF WriterOK, Remembers, Knows, jobVars
<1>4. /\ lastCount \in Nat /\ lastCount \in 0..MaxLines /\ last \in Nat
      /\ (last = 0) <=> (Known = 0)
      /\ Known = 0 => lastCount = 0
      /\ out \in Seq(Seq(Piece)) /\ partial' \in Seq(Piece)
  BY <1>1, WriterNumbers, SeqOfPieces, EmptySeq DEF TypeOK
<1>5. resuming' \in BOOLEAN /\ (resuming' <=> Known # 0)
  BY <1>4 DEF Resume
<1>6. skipAtTs' = lastCount
  <2>1. CASE last # 0
    BY <2>1 DEF Resume
  <2>2. CASE last = 0
    <3>1. Known = 0 /\ ~resuming /\ skipAtTs = 0 /\ lastCount = 0
      BY <1>4, <2>2 DEF WriterOK, Skips
    <3> QED BY <2>2, <3>1 DEF Resume
  <2> QED BY <2>1, <2>2
<1>7. Skips' /\ Opening'
  BY <1>1, <1>2, <1>4, <1>5, <1>6 DEF Skips, Opening, OfLineOne
<1>8. WriterTypes'
  BY <1>1, <1>4, <1>5, <1>6 DEF WriterTypes
<1> QED BY <1>1, <1>2, <1>3, <1>5, <1>6, <1>7, <1>8 DEF WriterOK

\* The stream that starts then starts at a line the writer knows of, or the next.
LEMMA StartsAt ==
  ASSUME TypeOK, LogOK, WriterOK, NEW n \in Starts
  PROVE  \E m \in 0..MaxLines :
            /\ n = 4 * m /\ n \in 0..LogSize
            /\ IF Known = 0 THEN m = 0 ELSE m <= Known - lastCount
<1>1. /\ produced \in Nat /\ produced <= MaxLines /\ MaxLines \in Nat
      /\ Known \in Nat /\ Known <= produced /\ last \in Nat
      /\ (last = 0) <=> (Known = 0)
  BY WriterNumbers, LinesNat
<1>2. LogSize \in Nat /\ LogSize >= 4 * produced - 1
  BY LogSizeNat
<1>3. CASE Known = 0
  <2>1. n = 0 /\ 0 = 4 * 0
    BY <1>1, <1>3 DEF Starts
  <2>2. 0 \in 0..MaxLines /\ n \in 0..LogSize
    BY <1>1, <1>2, <2>1
  <2> QED BY <1>3, <2>1, <2>2
<1>4. CASE Known # 0
  <2>1. /\ lastCount \in 1..Known
        /\ \A j \in (Known - lastCount + 1)..Known : Stamp[j] = last
    BY <1>4 DEF WriterOK, Remembers, Knows
  <2>2. PICK l \in 1..produced : n = 4 * (l - 1) /\ \A j \in 1..(l - 1) : Stamp[j] < last
    BY <1>1, <1>4 DEF Starts
  <2>3. l - 1 <= Known - lastCount
    <3>1. SUFFICES ASSUME l - 1 > Known - lastCount PROVE FALSE
      BY <1>1, <2>1, <2>2
    <3>2. PICK j \in Int : j = Known - lastCount + 1
      BY <1>1, <2>1
    <3>3. j \in 1..(l - 1) /\ j \in (Known - lastCount + 1)..Known
      BY <1>1, <2>1, <2>2, <3>1, <3>2
    <3>4. Stamp[j] < last /\ Stamp[j] = last
      BY <2>1, <2>2, <3>3
    <3> QED BY <1>1, <3>4
  <2>4. l - 1 \in 0..MaxLines /\ n \in 0..LogSize
    BY <1>1, <1>2, <2>2
  <2> QED BY <1>4, <2>2, <2>3, <2>4
<1> QED BY <1>3, <1>4

\* Lines in order are printed once.
LEMMA OrderedOnce ==
  ASSUME out' \in Seq(Seq(Piece)), Remembers', Ordered'
  PROVE  EachLineOnce'
<1>1. Printed' \in Nat /\ Printed' = Len(out') /\ (Printed' = Shown' \/ Printed' = Shown' + 1)
      /\ Shown' \in Nat
  <2>1. Printed' \in Nat /\ Printed' = Len(out')
    BY LenProperties DEF Printed
  <2>2. Printed' = Shown' \/ Printed' = Shown' + 1
    BY Zenon DEF Remembers
  <2>3. Shown' \in 0..produced'
    BY Zenon DEF Remembers
  <2>4. Shown' \in Nat
    BY <2>3
  <2> QED BY <2>1, <2>2, <2>4
<1>2. ASSUME NEW r \in Nat, AllWhole(r)' PROVE InOrder(r)'
  BY <1>1, <1>2 DEF AllWhole, InOrder, Whole, Shows, Place, OfLineOne
<1>3. CASE Printed' = Shown'
  <2>1. AllWhole(Printed)'
    BY <1>3 DEF Ordered
  <2>2. PICK r \in Nat : r = Printed'
    BY <1>1
  <2>3. AllWhole(r)'
    BY <2>1, <2>2 DEF AllWhole
  <2>4. InOrder(r)'
    BY <1>2, <2>3
  <2>5. InOrder(Len(out))'
    BY <1>1, <2>2, <2>4 DEF InOrder
  <2> QED BY <2>5 DEF EachLineOnce
<1>4. CASE Printed' # Shown'
  <2>1. PICK n \in Nat : n = Shown' /\ Len(out') = n + 1
    BY <1>1, <1>4
  <2>2. CutFirst' /\ \E r \in 1..n : Stamp[r] = Stamp[1] /\ AllWhole(r)'
    BY <1>4, <2>1 DEF Ordered
  <2>3. PICK r \in 1..n : Stamp[r] = Stamp[1] /\ AllWhole(r)'
    BY <2>2
  <2>4. ~Stamped(out[1])'
    BY <2>2, Zenon DEF CutFirst
  <2>5. r \in Nat /\ r \in 1..Len(out')
    <3>1. r \in Nat /\ r \in 1..(n + 1)
      OBVIOUS
    <3> QED BY <2>1, <3>1, Zenon
  <2>6. InOrder(r)'
    BY <1>2, <2>3, <2>5
  <2> QED BY <2>3, <2>4, <2>5, <2>6 DEF EachLineOnce
<1> QED BY <1>3, <1>4


\* What arrived of the last line when the stream broke off comes after whole lines.
LEMMA PartEnds ==
  ASSUME TypeOK, out' = Append(out, partial), partial # <<>>, missed', NEW r \in Nat, AllWhole(r),
         NEW l, l = Place(Printed + 1, r),
         partial = <<Time(l), Front(l)>> \/ \E j \in 1..l : partial = <<Time(j)>>
  PROVE  InOrder(r)'
<1>1. /\ Printed \in Nat /\ Printed' = Printed + 1 /\ Len(out') = Printed + 1
      /\ \A k \in 1..Printed : out'[k] = out[k]
      /\ out'[Printed + 1] = partial
  BY Appended, SeqOfPieces DEF Printed
<1>2. ASSUME NEW k \in 1..(Printed + 1) PROVE Shows(k, Place(k, r))'
  <2>1. CASE k # Printed + 1
    <3>1. k \in 1..Printed
      BY <1>1, <2>1
    <3>2. Whole(k, Place(k, r)) /\ out'[k] = out[k]
      BY <1>1, <3>1 DEF AllWhole
    <3> QED BY <3>2 DEF Whole, OfLineOne, Place, Shows
  <2>2. CASE k = Printed + 1
    <3>1. out'[k] = partial /\ k = Len(out') /\ Place(k, r) = l
      BY <1>1, <2>2
    <3>2. out'[k] = <<Time(l), Front(l)>> \/ \E j \in 1..l : out'[k] = <<Time(j)>>
      BY <3>1
    <3>3. Shows(k, l)'
      BY <3>1, <3>2 DEF Shows
    <3> QED BY <3>1, <3>3 DEF Place
  <2> QED BY <2>1, <2>2
<1> QED BY <1>1, <1>2 DEF InOrder, Place

LEMMA PartOnce ==
  ASSUME TypeOK, WriterOK, out # <<>>, out' = Append(out, partial), partial # <<>>, missed',
         NEW m \in Nat,
         \/ partial = <<Time(m + 1)>> /\ m <= Shown
         \/ partial = <<Time(m + 1), Front(m + 1)>> /\ (m = Shown \/ m = Known)
  PROVE  EachLineOnce'
<1>1. /\ Printed \in Nat /\ Shown \in Nat /\ Known \in Nat /\ Known <= Shown /\ Shown <= Known + 1
      /\ Printed # 0 /\ Shown # 0
      /\ (Printed = Shown \/ Printed = Shown + 1)
  BY WriterNumbers DEF WriterOK, Remembers
<1>2. /\ Len(out') = Printed + 1 /\ CutFirst' = CutFirst
  BY Appended, SeqOfPieces DEF Printed
<1>3. Printed # Shown => Known = Shown
  BY DEF Known, Uncounted
<1>4. CutFirst => ~Stamped(out[1])'
  BY <1>2, Zenon DEF CutFirst
<1>5. CASE Printed = Shown /\ (partial = <<Time(m + 1)>> \/ m = Shown)
  <2>1. AllWhole(Printed)
    BY <1>5 DEF WriterOK, Ordered
  <2>2. PICK r \in Nat : r = Printed + 1
    BY <1>1
  <2>3. AllWhole(r)
    BY <1>1, <2>1, <2>2 DEF AllWhole, Place
  <2>4. Place(Printed + 1, r) = r
    BY <2>2 DEF Place
  <2>5. partial = <<Time(r), Front(r)>> \/ \E j \in 1..r : partial = <<Time(j)>>
    <3>1. CASE partial = <<Time(m + 1)>>
      <4>1. m + 1 \in 1..r
        BY <1>1, <1>5, <2>2, <3>1
      <4> QED BY <3>1, <4>1
    <3>2. CASE partial # <<Time(m + 1)>>
      BY <1>1, <1>5, <2>2, <3>2
    <3> QED BY <3>1, <3>2
  <2>6. InOrder(r)'
    BY <2>3, <2>4, <2>5, PartEnds
  <2>7. InOrder(Len(out))'
    BY <1>2, <2>2, <2>6 DEF InOrder
  <2> QED BY <2>7 DEF EachLineOnce
<1>6. CASE Printed = Shown /\ partial # <<Time(m + 1)>> /\ m # Shown
  <2>1. partial = <<Time(m + 1), Front(m + 1)>> /\ m = Known /\ Known # Shown
    BY <1>6
  <2>2. CutFirst /\ Stamp[Shown] = Stamp[1] /\ Known = Shown - 1
    BY <2>1 DEF Known, Uncounted
  <2>3. AllWhole(Printed)
    BY <1>6 DEF WriterOK, Ordered
  <2>4. PICK r \in Nat : r = Printed
    BY <1>1
  <2>5. AllWhole(r) /\ Place(Printed + 1, r) = r /\ r = m + 1
    BY <1>1, <1>6, <2>1, <2>2, <2>3, <2>4 DEF Place
  <2>6. InOrder(r)'
    BY <2>1, <2>5, PartEnds
  <2>7. r \in 1..Len(out') /\ Stamp[r] = Stamp[1] /\ ~Stamped(out[1])'
    <3>1. r \in 1..(r + 1) /\ Len(out') = r + 1
      BY <1>1, <1>2, <2>4
    <3> QED BY <1>4, <1>6, <2>2, <2>4, <3>1
  <2> QED BY <2>6, <2>7 DEF EachLineOnce
<1>7. CASE Printed = Shown + 1
  <2>1. Known = Shown
    BY <1>1, <1>3, <1>7
  <2>2. PICK n \in Nat : n = Shown /\ Printed = n + 1
    BY <1>1, <1>7
  <2>3. CutFirst /\ \E r \in 1..n : Stamp[r] = Stamp[1] /\ AllWhole(r)
    BY <2>2 DEF WriterOK, Ordered
  <2>4. PICK r \in 1..n : Stamp[r] = Stamp[1] /\ AllWhole(r)
    BY <2>3
  <2>5. Place(Printed + 1, r) = n + 1
    BY <2>2 DEF Place
  <2>6. partial = <<Time(n + 1), Front(n + 1)>> \/ \E j \in 1..(n + 1) : partial = <<Time(j)>>
    <3>1. CASE partial = <<Time(m + 1)>>
      <4>1. m + 1 \in 1..(n + 1)
        <5>1. m <= Shown
          BY <1>1, <2>1, <3>1
        <5> QED BY <2>2, <5>1
      <4> QED BY <3>1, <4>1
    <3>2. CASE partial # <<Time(m + 1)>>
      BY <2>1, <2>2, <3>2
    <3> QED BY <3>1, <3>2
  <2>7. InOrder(r)'
    BY <2>4, <2>5, <2>6, PartEnds
  <2>8. r \in 1..Len(out')
    <3>1. r \in 1..(n + 2) /\ Len(out') = n + 2
      BY <1>2, <2>2
    <3> QED BY <3>1, Zenon
  <2> QED BY <1>4, <2>3, <2>4, <2>7, <2>8 DEF EachLineOnce
<1> QED BY <1>1, <1>5, <1>6, <1>7

-----------------------------------------------------------------------------
(* The steps of the stream. *)

TypeParts ==
    /\ produced \in 0..MaxLines /\ open \in BOOLEAN /\ job \in JobStates
    /\ sent \in 0..LogSize /\ faults \in 0..MaxFaults
    /\ pc \in {"attach", "follow", "check", "final"} \cup Ended
    /\ err \in BOOLEAN /\ before \in 0..Printed /\ failures \in 0..MaxReconnects
    /\ missed \in BOOLEAN

LEMMA TypeOf == TypeOK <=> TypeParts /\ WriterTypes
BY DEF TypeOK, TypeParts, WriterTypes, Piece, Printed

\* The parts of the invariant, for the steps that follow.
LEMMA FromParts ==
  ASSUME TypeParts', WriterTypes', WriterOK', StreamOK', LogOK', pc' # "done"
  PROVE  IInv'
<1>1. TypeOK'
  BY DEF TypeOK, TypeParts, WriterTypes, Piece, Printed
<1>2. EachLineOnce'
  <2>1. out' \in Seq(Seq(Piece)) /\ Remembers' /\ Ordered'
    BY DEF WriterTypes, WriterOK
  <2> QED BY <2>1, OrderedOnce
<1>3. CompleteAtEnd'
  BY DEF CompleteAtEnd
<1> QED BY <1>1, <1>2, <1>3 DEF IInv

\* And once the stream is over.
LEMMA FromEnd ==
  ASSUME TypeParts', WriterTypes', pc' = "done", Exited', open' => produced' > 0,
         failures' < MaxReconnects, EachLineOnce', CompleteAtEnd'
  PROVE  IInv'
<1>1. TypeOK'
  BY DEF TypeOK, TypeParts, WriterTypes, Piece, Printed
<1>2. StreamOK' /\ LogOK'
  BY DEF StreamOK, LogOK, Exited
<1> QED BY <1>1, <1>2 DEF IInv

\* Nothing but the loop moves.
LEMMA WriterStays ==
  ASSUME TypeOK, WriterOK, UNCHANGED <<jobVars, writerVars>>
  PROVE  /\ WriterTypes' /\ WriterOK' /\ LogSize' = LogSize
         /\ Printed' = Printed /\ Shown' = Shown /\ Known' = Known
<1>1. /\ UNCHANGED <<out, partial, last, lastCount, skipAtTs, resuming>>
      /\ UNCHANGED <<produced, open, job>>
  BY DEF jobVars, writerVars
<1>2. /\ Printed' = Printed /\ Shown' = Shown /\ Known' = Known /\ Ordered'
  BY <1>1, PrintsNothing DEF WriterOK
<1>3. Remembers' /\ Skips' /\ Opening'
  BY <1>1, <1>2 DEF WriterOK, Remembers, Knows, Skips, Opening, OfLineOne
<1>4. WriterTypes'
  BY <1>1, TypeOf, Zenon DEF WriterTypes
<1> QED BY <1>1, <1>2, <1>3, <1>4 DEF WriterOK, LogSize

\* A stream stands where it stood.
LEMMA SentStays ==
  ASSUME UNCHANGED <<sent, writerVars>>, NEW m, NEW q, Sent(m, q)
  PROVE  Sent(m, q)'
<1>1. Shown' = Shown /\ Known' = Known
  BY PrintsNothing DEF writerVars
<1> QED BY <1>1 DEF Sent, writerVars, Pieces

LEMMA FaultsType ==
  ASSUME TypeOK, UNCHANGED faults \/ Fault
  PROVE  faults' \in 0..MaxFaults
BY LinesNat DEF TypeOK, Fault

\* What the loop's numbers are.
LEMMA LoopNumbers ==
  ASSUME TypeOK, LogOK
  PROVE  /\ Printed \in Nat /\ LogSize \in Nat /\ sent \in 0..LogSize /\ before \in 0..Printed
         /\ produced \in Nat /\ produced <= MaxLines /\ MaxLines \in Nat
         /\ failures \in Nat /\ (pc # "gaveUp" => failures < MaxReconnects)
         /\ MaxReconnects \in Nat \ {0}
BY LinesNat, LogSizeNat, SeqOfPieces DEF TypeOK, LogOK, Printed

LEMMA AttachStep ==
  ASSUME IInv, Attach
  PROVE  IInv'
<1>1. TypeOK /\ WriterOK /\ StreamOK /\ LogOK /\ pc = "attach"
  BY DEF IInv, Attach
<1>2. /\ WriterTypes' /\ WriterOK' /\ LogSize' = LogSize
      /\ Printed' = Printed /\ Shown' = Shown /\ Known' = Known
  BY <1>1, WriterStays DEF Attach
<1>3. PICK m \in 0..MaxLines :
            /\ sent' = 4 * m /\ sent' \in 0..LogSize
            /\ IF Known = 0 THEN m = 0 ELSE m <= Known - lastCount
  BY <1>1, StartsAt DEF Attach
<1>4. TypeParts'
  <2>1. before' \in 0..Printed'
    BY <1>1, <1>2, LoopNumbers DEF Attach, Printed
  <2> QED BY <1>1, <1>2, <1>3, <2>1 DEF TypeOK, TypeParts, Attach, jobVars
<1>5. /\ Known \in Nat /\ Shown \in Nat /\ lastCount \in Nat /\ partial \in Seq(Piece)
      /\ (out = <<>>) <=> (Shown = 0)
      /\ Known <= Shown
  BY <1>1, WriterNumbers, SeqOfPieces
<1>6. Sent(m, 0)'
  <2>1. sent' = 4 * m + 0
    BY <1>3
  <2>2. CASE out = <<>>
    <3>1. Known = 0 /\ ~resuming /\ Len(partial) >= 0 /\ m = 0
      BY <1>1, <1>3, <1>5, <2>2, LenProperties DEF WriterOK, Skips
    <3>2. Known' = 0 /\ ~resuming' /\ Len(partial') >= 0 /\ out' = <<>>
      BY <1>2, <2>2, <3>1 DEF Attach, writerVars
    <3> QED BY <2>1, <3>1, <3>2 DEF Sent
  <2>3. CASE out # <<>>
    <3>1. (resuming <=> Known # 0) /\ skipAtTs = lastCount /\ partial = <<>>
      BY <1>1, <2>3 DEF StreamOK
    <3>2. (resuming' <=> Known' # 0) /\ skipAtTs' = lastCount' /\ partial' = Pieces(m + 1, 0)
      BY <1>2, <3>1 DEF Attach, writerVars, Pieces
    <3>3. Known' # 0 => m <= Known' /\ m <= Known' - lastCount'
      BY <1>2, <1>3, <1>5 DEF Attach, writerVars
    <3>4. Known' = 0 => m = 0
      BY <1>2, <1>3
    <3> QED BY <2>1, <3>2, <3>3, <3>4 DEF Sent, Pieces
  <2> QED BY <2>2, <2>3
<1>7. StreamOK'
  BY <1>3, <1>6 DEF StreamOK, Attach
<1>8. LogOK'
  BY <1>1 DEF LogOK, Attach, jobVars, Exited
<1> QED BY <1>2, <1>4, <1>7, <1>8, FromParts DEF Attach

LEMMA AttachFailsStep ==
  ASSUME IInv, AttachFails
  PROVE  IInv'
<1>1. TypeOK /\ WriterOK /\ LogOK /\ pc = "attach"
  BY DEF IInv, AttachFails
<1>2. WriterTypes' /\ WriterOK' /\ LogSize' = LogSize /\ Printed' = Printed
  BY <1>1, WriterStays DEF AttachFails
<1>3. faults' \in 0..MaxFaults /\ before' \in 0..Printed'
  BY <1>1, <1>2, FaultsType, LoopNumbers DEF AttachFails, Printed
<1>4. TypeParts'
  BY <1>1, <1>2, <1>3 DEF TypeOK, TypeParts, AttachFails, jobVars
<1>5. StreamOK'
  BY DEF StreamOK, AttachFails
<1>6. LogOK'
  BY <1>1 DEF LogOK, AttachFails, jobVars, Exited
<1> QED BY <1>2, <1>4, <1>5, <1>6, FromParts DEF AttachFails

\* Where a stream stands that has sent something, and what is left of it.
LEMMA SentBounds ==
  ASSUME TypeOK, WriterOK, LogOK, NEW m \in 0..MaxLines, NEW q \in 0..3, Sent(m, q)
  PROVE  /\ sent < LogSize => m < produced
         /\ q # 0 => m < produced
         /\ partial # <<>> => m < produced
<1>1. /\ sent \in Nat /\ sent <= LogSize /\ produced \in Nat /\ LogSize \in Nat
      /\ LogSize <= 4 * produced /\ sent = 4 * m + q
  BY LogSizeNat, LinesNat DEF TypeOK, Sent
<1>2. (sent < LogSize => m < produced) /\ (q # 0 => m < produced)
  BY <1>1
<1>3. ASSUME partial # <<>>, q = 0 PROVE m < produced
  <2>1. partial # Pieces(m + 1, q)
    BY <1>3 DEF Pieces
  <2>2. out = <<>> /\ (m = Shown \/ m = 0)
    BY <2>1 DEF Sent
  <2>3. m = 0 /\ produced > 0
    BY <1>3, <2>2, WriterNumbers DEF WriterOK, Opening
  <2> QED BY <2>3
<1> QED BY <1>2, <1>3

\* A piece of a line is added to those that have arrived.
LEMMA PieceArrives ==
  ASSUME TypeOK, WriterOK, NEW m \in Nat, NEW q \in 0..2, Sent(m, q), m < produced,
         NEW piece \in Piece, piece = (IF q = 0 THEN Time(m + 1) ELSE
                                       IF q = 1 THEN Front(m + 1) ELSE Back(m + 1)),
         partial' = Append(partial, piece), UNCHANGED <<out, last, lastCount, skipAtTs, resuming>>,
         UNCHANGED jobVars, sent' = sent + 1
  PROVE  WriterTypes' /\ WriterOK' /\ Sent(m, q + 1)' /\ Printed' = Printed
<1>1. /\ Known \in Nat /\ Shown \in Nat /\ lastCount \in Nat
      /\ (out = <<>>) <=> (Shown = 0)
      /\ Known <= Shown /\ produced \in Nat
  BY WriterNumbers
<1>2. /\ partial' \in Seq(Piece) /\ Len(partial') = Len(partial) + 1 /\ Len(partial) \in Nat
      /\ \A i \in 1..Len(partial) : partial'[i] = partial[i]
      /\ partial'[Len(partial) + 1] = piece
  BY SeqOfPieces, AppendProperties
<1>3. Printed' = Printed /\ Shown' = Shown /\ Known' = Known /\ Ordered'
  BY PrintsNothing DEF WriterOK
<1>4. piece[1] = m + 1
  BY DEF Time, Front, Back
<1>5. ASSUME out = <<>> PROVE OfLineOne(partial') /\ produced > 0 /\ m = 0 /\ ~resuming
  <2>1. m = 0 /\ ~resuming
    BY <1>1, <1>5 DEF Sent, WriterOK, Skips
  <2>2. OfLineOne(partial)
    BY <1>5 DEF WriterOK, Opening
  <2>3. ASSUME NEW i \in 1..Len(partial') PROVE partial'[i][1] = 1
    <3>1. CASE i \in 1..Len(partial)
      BY <1>2, <2>2, <3>1 DEF OfLineOne
    <3>2. CASE i = Len(partial) + 1
      BY <1>2, <1>4, <2>1, <3>2
    <3> QED BY <1>2, <3>1, <3>2
  <2> QED BY <1>1, <2>1, <2>3 DEF OfLineOne
<1>6. Opening'
  BY <1>5 DEF Opening, jobVars
<1>7. Remembers' /\ Skips'
  BY <1>3 DEF WriterOK, Remembers, Knows, Skips, jobVars
<1>8. WriterTypes'
  BY <1>2, TypeOf, Zenon DEF WriterTypes
<1>9. partial = Pieces(m + 1, q) => partial' = Pieces(m + 1, q + 1)
  BY DEF Pieces, Text
<1>10. sent' = 4 * m + (q + 1)
  <2>1. sent = 4 * m + q
    BY DEF Sent
  <2> QED BY <2>1
<1>11. Sent(m, q + 1)'
  <2>1. CASE resuming
    <3>1. /\ m <= Known /\ partial' = Pieces(m + 1, q + 1)
          /\ skipAtTs = (IF m <= Known - lastCount THEN lastCount ELSE Known - m)
      BY <1>9, <2>1 DEF Sent
    <3> QED BY <1>3, <1>10, <2>1, <3>1 DEF Sent, Pieces, Text
  <2>2. CASE ~resuming
    <3>1. /\ m = Shown \/ (m = 0 /\ Known = 0)
          /\ (out = <<>> /\ Len(partial') >= q + 1) \/ partial' = Pieces(m + 1, q + 1)
      BY <1>2, <1>9, <2>2 DEF Sent
    <3> QED BY <1>3, <1>10, <2>2, <3>1 DEF Sent, Pieces, Text
  <2> QED BY <2>1, <2>2
<1> QED BY <1>3, <1>6, <1>7, <1>8, <1>11 DEF WriterOK

LEMMA SendStep ==
  ASSUME IInv, Send
  PROVE  IInv'
<1>1. TypeOK /\ WriterOK /\ StreamOK /\ LogOK /\ pc \in {"follow", "final"} /\ pc' = pc
  BY DEF IInv, Send
<1>2. PICK m \in 0..MaxLines, q \in 0..3 : Sent(m, q)
  BY <1>1 DEF StreamOK
<1>3. m \in Nat /\ m < produced /\ produced \in Nat /\ produced <= MaxLines /\ m + 1 \in 1..MaxLines
  BY <1>1, <1>2, SentBounds, LoopNumbers DEF Send
<1>4. sent = 4 * m + q /\ sent' = sent + 1 /\ sent + 1 = 4 * m + q + 1
  BY <1>2 DEF Sent, Send
<1>5. LogSize' = LogSize /\ sent' \in 0..LogSize
  BY <1>1, LoopNumbers DEF Send, LogSize, jobVars
<1>6. LogOK'
  BY <1>1 DEF LogOK, Send, jobVars, loopVars, Exited
<1>7. ASSUME Printed' \in Nat, Printed <= Printed' PROVE TypeParts'
  <2>1. before' \in 0..Printed'
    BY <1>1, <1>7, LoopNumbers DEF Send, loopVars
  <2> QED BY <1>1, <1>5, <2>1 DEF TypeParts, TypeOK, Send, jobVars, loopVars
<1>8. CASE q < 3
  <2> DEFINE piece == PieceAt(sent + 1)
  <2>1. piece = (IF q = 0 THEN Time(m + 1) ELSE IF q = 1 THEN Front(m + 1) ELSE Back(m + 1))
    <3>1. CASE q = 0
      BY <1>3, <1>4, <3>1, PieceIs
    <3>2. CASE q = 1
      BY <1>3, <1>4, <3>2, PieceIs
    <3>3. CASE q = 2
      BY <1>3, <1>4, <3>3, PieceIs
    <3> QED BY <1>8, <3>1, <3>2, <3>3
  <2>2. piece[2] # "newline" /\ piece \in Piece
    BY <1>3, <2>1 DEF Time, Front, Back, Piece
  <2> HIDE DEF piece
  <2>3. partial' = Append(partial, piece) /\ UNCHANGED <<out, last, lastCount, skipAtTs, resuming>>
    BY <2>2 DEF Send, Write, piece
  <2>4. q \in 0..2 /\ q + 1 \in 0..3
    BY <1>8
  <2>5. WriterTypes' /\ WriterOK' /\ Sent(m, q + 1)' /\ Printed' = Printed
    BY <1>1, <1>2, <1>3, <1>4, <2>1, <2>2, <2>3, <2>4, PieceArrives DEF Send
  <2>6. StreamOK'
    BY <1>1, <2>4, <2>5 DEF StreamOK, Send, jobVars
  <2>7. TypeParts'
    BY <1>1, <1>7, <2>5, LoopNumbers
  <2> QED BY <1>1, <1>6, <2>5, <2>6, <2>7, FromParts
<1>9. CASE q = 3
  <2>1. PieceAt(sent + 1) = Newline(m + 1)
    BY <1>3, <1>4, <1>9, PieceIs
  <2>2. Emit(partial) /\ partial' = <<>>
    BY <2>1 DEF Send, Write, Newline
  <2>3. partial # <<>>
    <3>1. CASE partial = Pieces(m + 1, q)
      BY <1>9, <3>1 DEF Pieces, Text
    <3>2. CASE Len(partial) >= q
      BY <1>9, <3>2
    <3> QED BY <1>2, <3>1, <3>2 DEF Sent
  <2>4. UNCHANGED jobVars
    BY DEF Send
  <2>5. /\ WriterTypes' /\ WriterOK' /\ Printed <= Printed' /\ m + 1 <= Shown'
        /\ IF resuming'
            THEN /\ m + 1 <= Known'
                 /\ skipAtTs' = (IF m + 1 <= Known' - lastCount' THEN lastCount'
                                 ELSE Known' - (m + 1))
            ELSE m + 1 = Shown'
    BY <1>1, <1>2, <1>3, <1>9, <2>2, <2>3, <2>4, Emitted
  <2>6. sent' = 4 * (m + 1) + 0
    BY <1>3, <1>4, <1>9
  <2>7. partial' = Pieces(m + 1 + 1, 0)
    BY <2>2 DEF Pieces
  <2>8. Sent(m + 1, 0)'
    BY <2>5, <2>6, <2>7 DEF Sent, Pieces
  <2>9. StreamOK'
    BY <1>1, <1>3, <2>8 DEF StreamOK, Send, jobVars
  <2>10. Printed' \in Nat
    BY <2>5, LenProperties DEF WriterTypes, Printed
  <2>11. TypeParts'
    BY <1>7, <2>5, <2>10
  <2> QED BY <1>1, <1>6, <2>5, <2>9, <2>11, FromParts
<1> QED BY <1>8, <1>9

LEMMA FollowEndsStep ==
  ASSUME IInv, FollowEnds
  PROVE  IInv'
<1>1. TypeOK /\ WriterOK /\ StreamOK /\ LogOK /\ pc = "follow"
  BY DEF IInv, FollowEnds
<1>2. WriterTypes' /\ WriterOK' /\ LogSize' = LogSize /\ Printed' = Printed
  BY <1>1, WriterStays DEF FollowEnds
<1>3. TypeParts'
  BY <1>1, <1>2, LoopNumbers DEF TypeOK, TypeParts, FollowEnds, jobVars
<1>4. PICK m \in 0..MaxLines, q \in 0..3 : Sent(m, q)
  BY <1>1 DEF StreamOK
<1>5. Sent(m, q)'
  BY <1>4, SentStays DEF FollowEnds
<1>6. StreamOK'
  BY <1>2, <1>5 DEF StreamOK, FollowEnds, jobVars, Exited
<1>7. LogOK'
  BY <1>1 DEF LogOK, FollowEnds, jobVars, Exited
<1> QED BY <1>2, <1>3, <1>6, <1>7, FromParts DEF FollowEnds

LEMMA FollowDropsStep ==
  ASSUME IInv, FollowDrops
  PROVE  IInv'
<1>1. TypeOK /\ WriterOK /\ LogOK /\ pc = "follow"
  BY DEF IInv, FollowDrops
<1>2. WriterTypes' /\ WriterOK' /\ LogSize' = LogSize /\ Printed' = Printed
  BY <1>1, WriterStays DEF FollowDrops
<1>3. faults' \in 0..MaxFaults /\ before' \in 0..Printed'
  BY <1>1, <1>2, FaultsType, LoopNumbers DEF FollowDrops
<1>4. TypeParts'
  BY <1>1, <1>2, <1>3 DEF TypeOK, TypeParts, FollowDrops, jobVars
<1>5. StreamOK'
  BY DEF StreamOK, FollowDrops
<1>6. LogOK'
  BY <1>1 DEF LogOK, FollowDrops, jobVars, Exited
<1> QED BY <1>2, <1>4, <1>5, <1>6, FromParts DEF FollowDrops

LEMMA CatchUpStep ==
  ASSUME IInv, CatchUp
  PROVE  IInv'
<1>1. TypeOK /\ WriterOK /\ LogOK /\ pc = "check" /\ job = "terminal"
  BY DEF IInv, CatchUp
<1>2. /\ WriterTypes' /\ WriterOK' /\ UNCHANGED <<out, last, lastCount>> /\ partial' = <<>>
      /\ Printed' = Printed /\ Shown' = Shown /\ Known' = Known
      /\ (resuming' <=> Known # 0) /\ skipAtTs' = lastCount
  BY <1>1, Resumed DEF CatchUp
<1>3. LogSize' = LogSize
  BY DEF LogSize, CatchUp, jobVars
<1>4. PICK m \in 0..MaxLines :
            /\ sent' = 4 * m /\ sent' \in 0..LogSize
            /\ IF Known = 0 THEN m = 0 ELSE m <= Known - lastCount
  BY <1>1, StartsAt DEF CatchUp
<1>5. TypeParts'
  BY <1>1, <1>2, <1>3, <1>4, LoopNumbers DEF TypeOK, TypeParts, CatchUp, jobVars, loopVars
<1>6. Known \in Nat /\ lastCount \in Nat
  BY <1>1, WriterNumbers
<1>7. Sent(m, 0)'
  <2>1. sent' = 4 * m + 0 /\ partial' = Pieces(m + 1, 0)
    BY <1>2, <1>4 DEF Pieces
  <2>2. Known' # 0 => m <= Known' /\ m <= Known' - lastCount'
    BY <1>2, <1>4, <1>6
  <2>3. Known' = 0 => m = 0
    BY <1>2, <1>4
  <2> QED BY <1>2, <2>1, <2>2, <2>3 DEF Sent, Pieces
<1>8. StreamOK'
  BY <1>1, <1>4, <1>7 DEF StreamOK, CatchUp, jobVars
<1>9. LogOK'
  BY <1>1 DEF LogOK, CatchUp, jobVars, loopVars, Exited
<1> QED BY <1>2, <1>5, <1>8, <1>9, FromParts DEF CatchUp

\* A fetch that broke off leaves a part of a line, maybe of one printed before.
LEMMA EndPart ==
  ASSUME TypeOK, WriterOK, LogOK, NEW m \in Nat, NEW q \in {1, 2}, Sent(m, q), m < produced,
         out # <<>>, partial # <<>>, Emit(partial), partial' = <<>>, UNCHANGED jobVars, missed'
  PROVE  WriterTypes' /\ EachLineOnce' /\ Printed' \in Nat /\ Printed <= Printed'
<1>1. /\ Printed \in Nat /\ Shown \in Nat /\ Known \in Nat /\ Known <= Shown
      /\ last \in Nat /\ lastCount \in Nat /\ skipAtTs \in Nat /\ lastCount <= Known
      /\ produced \in Nat /\ produced <= MaxLines /\ MaxLines \in Nat
  BY WriterNumbers, LinesNat
<1>2. /\ out \in Seq(Seq(Piece)) /\ partial \in Seq(Piece) /\ lastCount \in 0..MaxLines
      /\ skipAtTs \in 0..lastCount /\ resuming \in BOOLEAN /\ partial' \in Seq(Piece)
  BY EmptySeq DEF TypeOK, Piece
<1>3. partial = Pieces(m + 1, q)
  BY DEF Sent
<1>4. m <= Shown
  <2>1. CASE resuming
    BY <1>1, <2>1 DEF Sent
  <2>2. CASE ~resuming
    BY <1>1, <2>2 DEF Sent
  <2> QED BY <2>1, <2>2
<1>5. q \in 0..3 /\ (Stamped(partial) <=> q \in {2, 3})
  <2>1. q \in 0..3 /\ m + 1 \in Nat
    OBVIOUS
  <2>2. Stamped(Pieces(m + 1, q)) <=> q \in {2, 3}
    BY <2>1, PiecesStamped
  <2> QED BY <1>3, <2>1, <2>2
<1>6. CASE q = 1
  <2>1. partial = <<Time(m + 1)>> /\ ~Stamped(partial)
    BY <1>3, <1>5, <1>6 DEF Pieces
  <2>2. out' = Append(out, partial) /\ UNCHANGED <<last, lastCount, skipAtTs, resuming>>
    BY <2>1 DEF Emit, EmitRaw, EmitStamped
  <2>3. out' \in Seq(Seq(Piece)) /\ Printed' = Printed + 1
    BY <2>2, Appended
  <2>4. EachLineOnce'
    BY <1>4, <2>1, <2>2, PartOnce
  <2>5. WriterTypes'
    <3>1. resuming' \in BOOLEAN
      BY <1>2, <2>2, Zenon
    <3>2. last' \in Nat /\ lastCount' \in 0..MaxLines /\ skipAtTs' \in 0..lastCount'
      BY <1>1, <1>2, <2>2, SMT
    <3> QED BY <1>2, <2>3, <3>1, <3>2, Zenon DEF WriterTypes
  <2> QED BY <1>1, <2>3, <2>4, <2>5
<1>7. CASE q = 2 /\ resuming /\ m < Known
  <2>1. /\ UNCHANGED <<out, last, lastCount, resuming>>
        /\ skipAtTs' = (IF m + 1 <= Known - lastCount THEN lastCount ELSE Known - (m + 1))
    BY <1>7, EmitReplay
  <2>2. Printed' = Printed /\ Shown' = Shown /\ Known' = Known /\ Ordered'
    BY <2>1, PrintsNothing DEF WriterOK
  <2>3. Remembers'
    BY <2>1, <2>2 DEF WriterOK, Remembers, Knows, jobVars
  <2>4. WriterTypes'
    <3>1. out' \in Seq(Seq(Piece)) /\ resuming' \in BOOLEAN
      BY <1>2, <2>1, Zenon
    <3>2. last' \in Nat /\ lastCount' \in 0..MaxLines /\ skipAtTs' \in 0..lastCount'
      BY <1>1, <1>2, <1>7, <2>1, SMT
    <3> QED BY <1>2, <3>1, <3>2, Zenon DEF WriterTypes
  <2>5. EachLineOnce'
    BY <2>2, <2>3, <2>4, OrderedOnce DEF WriterTypes
  <2> QED BY <1>1, <2>2, <2>4, <2>5
<1>8. CASE q = 2 /\ ~(resuming /\ m < Known)
  <2>1. partial = <<Time(m + 1), Front(m + 1)>> /\ Stamped(partial)
    BY <1>3, <1>5, <1>8 DEF Pieces
  <2>2. /\ out' = Append(out, partial) /\ resuming' = FALSE /\ skipAtTs' = 0
        /\ last' = Stamp[m + 1]
        /\ lastCount' = (IF Stamp[m + 1] = last THEN lastCount + 1 ELSE 1)
        /\ m = Shown \/ m = Known
    BY <1>5, <1>8, <2>1, EmitPrints
  <2>3. out' \in Seq(Seq(Piece)) /\ Printed' = Printed + 1
    BY <2>2, Appended
  <2>4. EachLineOnce'
    BY <2>1, <2>2, PartOnce
  <2>5. WriterTypes'
    <3>1. lastCount' \in 0..MaxLines
      BY <1>1, <2>2
    <3>2. last' \in Nat /\ skipAtTs' \in 0..lastCount'
      <4>1. m + 1 \in 1..MaxLines
        BY <1>1
      <4> QED BY <1>1, <2>2, <3>1, <4>1, LinesNat
    <3>3. resuming' \in BOOLEAN
      BY <2>2, Zenon
    <3> QED BY <1>2, <2>3, <3>1, <3>2, <3>3, Zenon DEF WriterTypes
  <2> QED BY <1>1, <2>3, <2>4, <2>5
<1> QED BY <1>6, <1>7, <1>8

\* The stream is over: what has arrived of a line is printed, and unless the
\* fetch broke off nothing of the log is left.
LEMMA EndStep ==
  ASSUME IInv, Flush, UNCHANGED jobVars, pc' = "done", Exited, faults' \in 0..MaxFaults,
         UNCHANGED <<sent, err, before, failures>>, pc \in {"check", "final"}, missed' \in BOOLEAN,
         NEW m \in 0..MaxLines, NEW q \in 0..3, Sent(m, q), missed' \/ sent = LogSize
  PROVE  IInv'
<1>1. TypeOK /\ WriterOK /\ LogOK
  BY DEF IInv
<1>2. /\ Printed \in Nat /\ produced \in Nat /\ produced <= MaxLines
      /\ Shown \in Nat /\ Known \in Nat /\ Known <= Shown /\ Shown <= produced
      /\ (out = <<>>) <=> (Shown = 0)
  BY <1>1, WriterNumbers
<1>3. m \in Nat /\ sent = 4 * m + q
  BY LinesNat DEF Sent
<1>4. Exited' /\ (open' => produced' > 0) /\ failures' < MaxReconnects
  BY <1>1, LoopNumbers DEF LogOK, jobVars, Exited
<1>5. ASSUME Printed' \in Nat, Printed <= Printed' PROVE TypeParts'
  <2>1. LogSize' = LogSize /\ UNCHANGED <<produced, open, job>>
    BY DEF LogSize, jobVars
  <2>2. before' \in 0..Printed'
    BY <1>1, <1>5, LoopNumbers
  <2> QED BY <1>1, <2>1, <2>2 DEF TypeParts, TypeOK, Ended
\* The line the log ends with has arrived up to its newline.
<1>6. ASSUME ~missed'
      PROVE  (q = 0 /\ m = produced) \/ (q = 3 /\ m + 1 = produced)
  <2>1. 4 * m + q = LogSize /\ LogSize \in Nat
    BY <1>1, <1>3, <1>6, LogSizeNat
  <2>2. open \in BOOLEAN
    BY <1>1 DEF TypeOK
  <2>3. CASE open
    BY <1>1, <1>2, <1>3, <2>1, <2>3, LogSizeNat
  <2>4. CASE ~open
    BY <1>1, <1>2, <1>3, <2>1, <2>4, LogSizeNat
  <2> QED BY <2>3, <2>4
<1>7. CASE partial = <<>>
  <2>1. UNCHANGED writerVars
    BY <1>7 DEF Flush
  <2>2. WriterTypes' /\ WriterOK' /\ Printed' = Printed
    BY <1>1, <2>1, WriterStays
  <2>3. EachLineOnce'
    BY <2>2, OrderedOnce DEF WriterOK, WriterTypes
  <2>4. ASSUME ~missed' PROVE Shown = produced
    <3>1. q = 0 /\ m = produced
      <4>1. SUFFICES ASSUME q = 3, m + 1 = produced PROVE FALSE
        BY <1>6, <2>4
      <4>2. partial # Pieces(m + 1, q)
        BY <1>7, <4>1 DEF Pieces, Text
      <4>3. Len(partial) >= q
        BY <4>2 DEF Sent
      <4> QED BY <1>7, <4>1, <4>3
    <3>2. m <= Known \/ m = Shown \/ m = 0
      BY DEF Sent
    <3> QED BY <1>2, <3>1, <3>2
  <2>5. CompleteAtEnd'
    BY <1>2, <2>1, <2>4 DEF CompleteAtEnd, Shown, Printed, jobVars, writerVars
  <2> QED BY <1>2, <1>4, <1>5, <2>2, <2>3, <2>5, FromEnd
<1>8. CASE partial # <<>>
  <2>1. Emit(partial) /\ partial' = <<>>
    BY <1>8 DEF Flush
  <2>2. m < produced
    BY <1>1, <1>8, SentBounds
  <2>3. CASE q = 3 \/ out = <<>>
    <3>1. WriterTypes' /\ WriterOK' /\ Printed <= Printed' /\ m + 1 <= Shown'
      BY <1>1, <1>3, <1>8, <2>1, <2>2, <2>3, Emitted
    <3>2. EachLineOnce'
      BY <3>1, OrderedOnce DEF WriterOK, WriterTypes
    <3>3. Printed' \in Nat
      BY <3>1, LenProperties DEF WriterTypes, Printed
    <3>4. Shown' \in 0..produced /\ produced' = produced
      BY <3>1 DEF WriterOK, Remembers, jobVars
    <3>5. ASSUME ~missed' PROVE Shown' = produced' /\ out' # <<>>
      <4>1. m + 1 = produced
        BY <1>2, <1>3, <1>6, <2>2, <3>5
      <4>2. Shown' = produced' /\ Shown' # 0
        BY <1>2, <3>1, <3>4, <4>1
      <4> QED BY <4>2 DEF Shown
    <3>6. CompleteAtEnd'
      BY <3>5 DEF CompleteAtEnd, Shown, Printed
    <3> QED BY <1>4, <1>5, <3>1, <3>2, <3>3, <3>6, FromEnd
  <2>4. CASE q # 3 /\ out # <<>>
    <3>1. missed'
      BY <1>2, <1>3, <1>6, <2>2, <2>4
    <3>2. q \in {1, 2}
      <4>1. partial = Pieces(m + 1, q)
        BY <2>4 DEF Sent
      <4>2. q # 0
        BY <1>8, <4>1 DEF Pieces
      <4> QED BY <2>4, <4>2
    <3>3. WriterTypes' /\ EachLineOnce' /\ Printed' \in Nat /\ Printed <= Printed'
      BY <1>1, <1>3, <1>8, <2>1, <2>2, <2>4, <3>1, <3>2, EndPart
    <3>4. CompleteAtEnd'
      BY <3>1 DEF CompleteAtEnd
    <3> QED BY <1>4, <1>5, <3>3, <3>4, FromEnd
  <2> QED BY <2>3, <2>4
<1> QED BY <1>7, <1>8

LEMMA FinalEndsStep ==
  ASSUME IInv, FinalEnds
  PROVE  IInv'
<1>1. PICK m \in 0..MaxLines, q \in 0..3 : Sent(m, q)
  BY DEF IInv, StreamOK, FinalEnds
<1>2. ~missed /\ Exited /\ pc \in {"check", "final"} /\ TypeOK
  BY DEF IInv, LogOK, StreamOK, FinalEnds, Exited
<1>3. faults' \in 0..MaxFaults /\ missed' \in BOOLEAN /\ (missed' \/ sent = LogSize)
  <2>1. CASE sent = LogSize /\ UNCHANGED <<faults, missed>>
    BY <1>2, <2>1, FaultsType DEF TypeOK
  <2>2. CASE Fault /\ missed' = TRUE
    BY <1>2, <2>2, FaultsType
  <2> QED BY <2>1, <2>2 DEF FinalEnds
<1>4. Flush /\ UNCHANGED jobVars /\ pc' = "done" /\ UNCHANGED <<sent, err, before, failures>>
  BY DEF FinalEnds
<1> QED BY <1>1, <1>2, <1>3, <1>4, EndStep

LEMMA StreamEndsStep ==
  ASSUME IInv, StreamEnds
  PROVE  IInv'
<1>1. PICK m \in 0..MaxLines, q \in 0..3 : Sent(m, q)
  BY DEF IInv, StreamOK, StreamEnds
<1>2. Exited /\ pc \in {"check", "final"} /\ sent = LogSize
  BY DEF IInv, StreamOK, StreamEnds, Exited
<1>3. faults' \in 0..MaxFaults /\ missed' \in BOOLEAN
  BY DEF IInv, TypeOK, StreamEnds, loopVars
<1> QED BY <1>1, <1>2, <1>3, EndStep DEF StreamEnds, loopVars

LEMMA RetryAttachStep ==
  ASSUME IInv, RetryAttach
  PROVE  IInv'
<1>1. TypeOK /\ WriterOK /\ LogOK /\ pc = "check" /\ out = <<>>
  BY DEF IInv, RetryAttach, Undecided
<1>2. WriterTypes' /\ WriterOK' /\ LogSize' = LogSize /\ Printed' = Printed
  BY <1>1, WriterStays DEF RetryAttach
<1>3. faults' \in 0..MaxFaults
  BY <1>1, FaultsType DEF RetryAttach, Undecided
<1>4. TypeParts'
  BY <1>1, <1>2, <1>3, LoopNumbers DEF TypeOK, TypeParts, RetryAttach, Ended, jobVars, loopVars
<1>5. StreamOK'
  BY <1>1 DEF StreamOK, RetryAttach, writerVars
<1>6. LogOK'
  BY <1>1 DEF LogOK, RetryAttach, jobVars, loopVars, Exited
<1> QED BY <1>2, <1>4, <1>5, <1>6, FromParts DEF RetryAttach

LEMMA ReconnectStep ==
  ASSUME IInv, Reconnect
  PROVE  IInv'
<1>1. TypeOK /\ WriterOK /\ LogOK /\ pc = "check"
  BY DEF IInv, Reconnect, Undecided
<1>2. faults' \in 0..MaxFaults
  BY <1>1, FaultsType DEF Reconnect, Undecided
<1>3. failures' \in 0..MaxReconnects /\ (failures' >= MaxReconnects \/ failures' < MaxReconnects)
  BY <1>1, LoopNumbers DEF Reconnect
<1>4. LogSize' = LogSize /\ UNCHANGED jobVars
  BY DEF LogSize, Reconnect, jobVars
<1>5. CASE failures' >= MaxReconnects
  <2>1. pc' = "gaveUp" /\ UNCHANGED writerVars
    BY <1>5 DEF Reconnect
  <2>2. WriterTypes' /\ WriterOK' /\ Printed' = Printed
    BY <1>1, <1>4, <2>1, WriterStays
  <2>3. TypeParts'
    BY <1>1, <1>2, <1>3, <1>4, <2>1, <2>2, LoopNumbers DEF TypeOK, TypeParts, Reconnect, Ended, jobVars
  <2>4. StreamOK' /\ LogOK'
    BY <1>1, <2>1 DEF StreamOK, LogOK, Reconnect, jobVars, Exited
  <2> QED BY <2>1, <2>2, <2>3, <2>4, FromParts
<1>6. CASE failures' < MaxReconnects
  <2>1. pc' = "attach" /\ Resume
    <3>1. ~(failures' >= MaxReconnects)
      BY <1>1, <1>3, <1>6, LoopNumbers
    <3> QED BY <3>1 DEF Reconnect
  <2>2. /\ WriterTypes' /\ WriterOK' /\ UNCHANGED <<out, last, lastCount>> /\ partial' = <<>>
        /\ Printed' = Printed /\ Known' = Known
        /\ (resuming' <=> Known # 0) /\ skipAtTs' = lastCount
    BY <1>1, <1>4, <2>1, Resumed
  <2>3. TypeParts'
    BY <1>1, <1>2, <1>3, <1>4, <2>1, <2>2, LoopNumbers DEF TypeOK, TypeParts, Reconnect, jobVars
  <2>4. StreamOK' /\ LogOK'
    BY <1>1, <1>6, <2>1, <2>2 DEF StreamOK, LogOK, Reconnect, jobVars, Exited
  <2> QED BY <2>1, <2>2, <2>3, <2>4, FromParts
<1> QED BY <1>3, <1>5, <1>6

LEMMA ContainerStep ==
  ASSUME IInv, Container
  PROVE  IInv'
<1>1. /\ UNCHANGED <<sent, faults, writerVars, pc, loopVars>>
      /\ UNCHANGED <<out, partial, last, lastCount, skipAtTs, resuming>>
      /\ UNCHANGED <<err, before, failures, missed>>
  BY DEF Container, PodStarts, Produce, ContainerExits, StatusCatchesUp, Outside,
         writerVars, loopVars
<1>2. TypeOK /\ LogOK /\ StreamOK
  BY DEF IInv
<1>3. /\ produced \in Nat /\ produced <= MaxLines /\ MaxLines \in Nat /\ open \in BOOLEAN
      /\ LogSize \in Nat /\ sent \in 0..LogSize
  BY <1>2, LoopNumbers DEF TypeOK
\* The log only grows, and not once the container is gone.
<1>4. /\ produced' \in 0..MaxLines /\ produced <= produced' /\ open' \in BOOLEAN
      /\ job' \in JobStates /\ LogSize <= LogSize' /\ LogSize' \in Nat
      /\ (Exited => Exited' /\ UNCHANGED <<produced, open>>) /\ (open' => Exited' /\ produced' > 0)
      /\ (job = "terminal" => job' = "terminal")
  <2>1. CASE PodStarts
    BY <1>2, <1>3, <2>1 DEF PodStarts, JobStates, Exited, LogSize, LogOK
  <2>2. CASE Produce
    BY <1>2, <1>3, <2>2 DEF Produce, JobStates, Exited, LogSize, LogOK
  <2>3. CASE ContainerExits
    <3>1. job = "running" /\ job' = "exited" /\ ~open
      BY <1>2, <2>3 DEF ContainerExits, Exited, LogOK
    <3>2. CASE UNCHANGED <<produced, open>>
      BY <1>3, <3>1, <3>2 DEF JobStates, Exited, LogSize
    <3>3. CASE produced < MaxLines /\ produced' = produced + 1 /\ open' = TRUE
      <4>1. LogSize = 4 * produced /\ LogSize' = 4 * (produced + 1) - 1
        BY <1>3, <3>1, <3>3 DEF LogSize
      <4> QED BY <1>3, <3>1, <3>3, <4>1 DEF JobStates, Exited
    <3> QED BY <2>3, <3>2, <3>3 DEF ContainerExits
  <2>4. CASE StatusCatchesUp
    BY <1>2, <1>3, <2>4 DEF StatusCatchesUp, JobStates, Exited, LogSize, LogOK
  <2> QED BY <2>1, <2>2, <2>3, <2>4 DEF Container
<1>5. Printed' = Printed /\ Shown' = Shown /\ Known' = Known /\ Ordered' = Ordered
  BY <1>1, PrintsNothing
<1>6. WriterOK => WriterOK'
  <2>1. SUFFICES ASSUME WriterOK PROVE WriterOK'
    OBVIOUS
  <2>2. Shown' \in 0..produced'
    BY <1>3, <1>4, <1>5, <2>1 DEF WriterOK, Remembers
  <2>3. Remembers'
    BY <1>1, <1>5, <2>1, <2>2 DEF WriterOK, Remembers, Knows
  <2>4. Skips' /\ Opening'
    BY <1>1, <1>3, <1>4, <1>5, <2>1 DEF WriterOK, Skips, Opening, OfLineOne
  <2> QED BY <1>5, <2>1, <2>3, <2>4 DEF WriterOK
<1>7. TypeOK'
  <2>1. sent' \in 0..LogSize'
    BY <1>1, <1>3, <1>4
  <2>2. TypeParts'
    BY <1>1, <1>2, <1>4, <1>5, <2>1, LoopNumbers DEF TypeOK, TypeParts
  <2>3. WriterTypes'
    BY <1>1, <1>2, TypeOf, Zenon DEF WriterTypes
  <2> QED BY <2>2, <2>3 DEF TypeOK, TypeParts, WriterTypes, Piece, Printed
<1>8. StreamOK'
  <2>1. ASSUME NEW m \in 0..MaxLines, NEW q \in 0..3, Sent(m, q) PROVE Sent(m, q)'
    BY <1>1, <2>1, SentStays
  <2>2. Exited /\ sent = LogSize => Exited' /\ sent' = LogSize'
    BY <1>1, <1>4 DEF LogSize
  <2> QED BY <1>1, <1>2, <1>4, <1>5, <2>1, <2>2 DEF StreamOK
<1>9. LogOK'
  BY <1>1, <1>2, <1>4 DEF LogOK
<1>10. EachLineOnce'
  BY <1>1 DEF IInv, EachLineOnce, InOrder, Shows
<1>11. CompleteAtEnd'
  BY <1>1, <1>2, <1>4 DEF IInv, CompleteAtEnd, LogOK
<1> QED BY <1>1, <1>6, <1>7, <1>8, <1>9, <1>10, <1>11 DEF IInv

-----------------------------------------------------------------------------
(* The invariant holds. *)

LEMMA InitOK == Init => IInv
<1> SUFFICES ASSUME Init PROVE IInv
  OBVIOUS
<1>1. LogSize = 0
  <2>1. produced = 0 /\ ~open
    BY Zenon DEF Init
  <2>2. produced \in Int /\ 4 * produced = 0 /\ (IF open THEN 1 ELSE 0) = 0
    BY <2>1
  <2> QED BY <2>2 DEF LogSize
<1>2. /\ out = <<>> /\ partial = <<>> /\ produced = 0 /\ last = 0 /\ lastCount = 0 /\ skipAtTs = 0
      /\ ~resuming /\ pc = "attach" /\ failures = 0 /\ ~missed /\ ~open
  BY Zenon DEF Init
<1>3. out \in Seq(Seq(Piece)) /\ partial \in Seq(Piece) /\ Printed = 0 /\ Shown = 0
  BY <1>2, EmptySeq DEF Printed, Shown
<1>4. TypeOK
  <2>1. sent \in 0..LogSize /\ before \in 0..Printed
    BY <1>1, <1>3 DEF Init
  <2>2. open \in BOOLEAN /\ err \in BOOLEAN /\ missed \in BOOLEAN /\ resuming \in BOOLEAN
    BY Zenon DEF Init
  <2>3. produced \in 0..MaxLines /\ faults \in 0..MaxFaults /\ failures \in 0..MaxReconnects
    BY LinesNat, SMT DEF Init
  <2>4. job \in JobStates /\ pc = "attach"
    BY DEF Init, JobStates
  <2>5. TypeParts
    BY <2>1, <2>2, <2>3, <2>4 DEF TypeParts
  <2>6. last \in Nat /\ lastCount \in 0..MaxLines /\ skipAtTs \in 0..lastCount
    BY <1>2, LinesNat
  <2> QED BY <1>3, <2>2, <2>5, <2>6, TypeOf DEF WriterTypes
<1>5. Known = 0 /\ ~Uncounted
  <2>1. ~Uncounted
    BY <1>2, Zenon DEF Uncounted, CutFirst
  <2> QED BY <1>3, <2>1 DEF Known
<1>6. Remembers
  BY <1>2, <1>3, <1>5 DEF Remembers, Knows
<1>7. Skips /\ Opening
  <2>1. Skips
    BY <1>2 DEF Skips
  <2>2. Opening
    BY <1>2, EmptySeq DEF Opening, OfLineOne
  <2> QED BY <2>1, <2>2
<1>8. Ordered
  BY <1>3 DEF Ordered, AllWhole
<1>9. StreamOK /\ LogOK
  <2>1. StreamOK
    BY <1>2 DEF StreamOK
  <2>2. LogOK
    BY <1>2, LinesNat DEF LogOK
  <2> QED BY <2>1, <2>2
<1>10. EachLineOnce /\ CompleteAtEnd
  <2>1. InOrder(Len(out))
    BY <1>3 DEF InOrder, Printed
  <2> QED BY <1>2, <2>1 DEF EachLineOnce, CompleteAtEnd
<1> QED BY <1>4, <1>6, <1>7, <1>8, <1>9, <1>10 DEF IInv, WriterOK

LEMMA StutterStep ==
  ASSUME IInv, UNCHANGED vars
  PROVE  IInv'
<1>1. /\ UNCHANGED <<produced, open, job, sent, faults, pc>>
      /\ UNCHANGED <<out, partial, last, lastCount, skipAtTs, resuming>>
      /\ UNCHANGED <<err, before, failures, missed>>
      /\ UNCHANGED <<jobVars, writerVars>>
  BY DEF vars, jobVars, writerVars, loopVars
<1>2. TypeOK'
  BY <1>1 DEF IInv, TypeOK, LogSize
<1>3. WriterOK => WriterOK'
  BY <1>1, WriterStays DEF IInv
<1>4. EachLineOnce'
  BY <1>1 DEF IInv, EachLineOnce, InOrder, Shows
<1>5. CompleteAtEnd' /\ LogOK'
  BY <1>1 DEF IInv, CompleteAtEnd, LogOK, Exited
<1>6. ASSUME NEW m \in 0..MaxLines, NEW q \in 0..3, Sent(m, q) PROVE Sent(m, q)'
  BY <1>1, <1>6, SentStays
<1>7. Known' = Known
  BY <1>1, PrintsNothing
<1>8. StreamOK'
  BY <1>1, <1>6, <1>7 DEF IInv, StreamOK, Exited, LogSize
<1> QED BY <1>1, <1>2, <1>3, <1>4, <1>5, <1>8 DEF IInv

LEMMA NextOK == IInv /\ [Next]_vars => IInv'
<1> SUFFICES ASSUME IInv, [Next]_vars PROVE IInv'
  OBVIOUS
<1>1. CASE Container
  BY <1>1, ContainerStep
<1>2. CASE Attach
  BY <1>2, AttachStep
<1>3. CASE AttachFails
  BY <1>3, AttachFailsStep
<1>4. CASE Send
  BY <1>4, SendStep
<1>5. CASE FollowEnds
  BY <1>5, FollowEndsStep
<1>6. CASE FollowDrops
  BY <1>6, FollowDropsStep
<1>7. CASE CatchUp
  BY <1>7, CatchUpStep
<1>8. CASE FinalEnds
  BY <1>8, FinalEndsStep
<1>9. CASE StreamEnds
  BY <1>9, StreamEndsStep
<1>10. CASE RetryAttach
  BY <1>10, RetryAttachStep
<1>11. CASE Reconnect
  BY <1>11, ReconnectStep
<1>12. CASE UNCHANGED vars
  BY <1>12, StutterStep
<1> QED
  BY <1>1, <1>2, <1>3, <1>4, <1>5, <1>6, <1>7, <1>8, <1>9, <1>10, <1>11, <1>12 DEF Next, Stream

\* Whatever the container prints, with whatever timestamps its lines share, and
\* wherever the connections to it drop, inside a timestamp too: the CLI prints every
\* line, in order, and once, but for one line that it prints again at most, and only
\* after a first line whose timestamp was cut; and a stream that ends well ends with
\* the last line of the log (the resumeWriter and streamJobLogs).
THEOREM PrintsTheLogHolds == Spec => []PrintsTheLog
<1>1. IInv => PrintsTheLog
  BY DEF IInv, PrintsTheLog
<1> QED BY <1>1, InitOK, NextOK, PTL DEF Spec
=============================================================================
