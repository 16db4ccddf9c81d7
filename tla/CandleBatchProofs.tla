--------------------------- MODULE CandleBatchProofs ---------------------------
(***************************************************************************)
(* The candle download for every range, segment length and answer.         *)
(***************************************************************************)
EXTENDS CandleBatch, SequenceTheorems, WellFoundedInduction, TLAPS

-------------------------------------------------------------------------------
(* Arithmetic.                                                             *)

LEMMA Least ==
  ASSUME NEW T, T \subseteq Nat, T # {}
  PROVE  \E m \in T : \A k \in T : m <= k
<1> DEFINE R == OpToRel(<, Nat)
<1>1. IsWellFoundedOn(R, Nat)
  BY NatLessThanWellFounded
<1>2. \A m, k \in Nat : k < m => <<k, m>> \in R
  BY DEF OpToRel
<1> HIDE DEF R
<1>3. PICK m \in T : \A k \in T : ~(<<k, m>> \in R)
  BY <1>1, WFMin
<1>4. ASSUME NEW k \in T PROVE m <= k
  <2>1. m \in Nat /\ k \in Nat
    OBVIOUS
  <2>2. ~(k < m)
    BY <1>2, <1>3, <2>1, Zenon
  <2>3. QED
    BY <2>1, <2>2
<1>5. QED
  BY <1>3, <1>4

LEMMA Multiples ==
  /\ \A t \in Nat : Aligned(t) <=> \E q \in Nat : t = q * Minute
  /\ \A a, b \in Int : a * Minute <= b * Minute <=> a <= b
  /\ \A a, b \in Int : a * Minute = b * Minute <=> a = b
<1> USE BatchAssumption DEF BatchAssumption
<1>1. ASSUME NEW t \in Nat, Aligned(t) PROVE \E q \in Nat : t = q * Minute
  <2>1. t = (t \div Minute) * Minute + (t % Minute) /\ t \div Minute \in Nat
    OBVIOUS
  <2>2. QED
    BY <1>1, <2>1 DEF Aligned
<1>2. ASSUME NEW q \in Nat PROVE Aligned(q * Minute)
  BY DEF Aligned
<1>3. ASSUME NEW a \in Int, NEW b \in Int, a < b PROVE a * Minute < b * Minute
  <2>1. b - a \in Nat \ {0}
    BY <1>3
  <2>2. (b - a) * Minute > 0
    BY <2>1
  <2>3. (b - a) * Minute = b * Minute - a * Minute
    OBVIOUS
  <2>4. a * Minute \in Int /\ b * Minute \in Int
    OBVIOUS
  <2>5. QED
    BY <2>2, <2>3, <2>4
<1>4. \A a \in Int : a * Minute \in Int
  OBVIOUS
<1>5. \A a, b \in Int : a * Minute <= b * Minute <=> a <= b
  BY <1>3, <1>4
<1>6. \A a, b \in Int : a * Minute = b * Minute <=> a = b
  BY <1>3, <1>4
<1>7. QED
  BY <1>1, <1>2, <1>5, <1>6

(* The range and the cursor, in minutes.                                   *)
LEMMA RangeInMinutes ==
  \E f, l \in Nat : First = f * Minute /\ Last = l * Minute /\ f <= l
<1>1. PICK f \in Nat : First = f * Minute
  BY BatchAssumption, Multiples DEF BatchAssumption
<1>2. PICK l \in Nat : Last = l * Minute
  BY BatchAssumption, Multiples DEF BatchAssumption
<1>3. f <= l
  BY <1>1, <1>2, BatchAssumption, Multiples DEF BatchAssumption
<1>4. QED
  BY <1>1, <1>2, <1>3

(* One segment, wherever the cursor is.                                    *)
LEMMA SegmentInRange ==
  ASSUME cursor \in First .. Last + Minute, Aligned(cursor), ~Done
  PROVE  /\ SegmentEnd \in cursor .. Last
         /\ Aligned(SegmentEnd)
         /\ SegmentEnd - cursor <= (MaxPoints - 1) * Minute
         /\ SegmentEnd + Minute \in First .. Last + Minute
         /\ Aligned(SegmentEnd + Minute)
         /\ NextSegment \in Segment
         /\ NextSegment.from = cursor /\ NextSegment.to = SegmentEnd
<1> USE BatchAssumption DEF BatchAssumption
<1>1. cursor \in Nat /\ First <= cursor /\ cursor <= Last
  BY DEF Done
<1>2. PICK c \in Nat : cursor = c * Minute
  BY <1>1, Multiples
<1>3. PICK f \in Nat, l \in Nat : First = f * Minute /\ Last = l * Minute /\ f <= l
  BY RangeInMinutes
<1> DEFINE n == MaxPoints - 1
           e == IF c + n < l THEN c + n ELSE l
<1>4. n \in Nat /\ f <= c /\ c <= l
  BY <1>1, <1>2, <1>3, Multiples
<1>5. e \in Nat /\ c <= e /\ e <= l /\ e - c <= n
  BY <1>4
<1>6. cursor + (MaxPoints - 1) * Minute = (c + n) * Minute
  BY <1>2, <1>4
<1>7. (c + n) * Minute < Last <=> c + n < l
  <2>1. ~(l * Minute <= (c + n) * Minute) <=> ~(l <= c + n)
    BY <1>4, Multiples
  <2>2. (c + n) * Minute \in Int /\ l * Minute \in Int
    BY <1>4
  <2>3. QED
    BY <1>3, <1>4, <2>1, <2>2
<1>8. SegmentEnd = e * Minute
  BY <1>3, <1>6, <1>7 DEF SegmentEnd
<1> HIDE DEF e, n
<1>9. e * Minute \in Nat /\ c * Minute \in Nat /\ n * Minute \in Nat
  BY <1>4, <1>5
<1>10. c * Minute <= e * Minute /\ e * Minute <= l * Minute
  BY <1>5, Multiples
<1>11. e * Minute - c * Minute <= n * Minute
  <2>1. (e - c) * Minute <= n * Minute
    BY <1>4, <1>5, Multiples
  <2>2. (e - c) * Minute = e * Minute - c * Minute
    BY <1>5
  <2>3. QED
    BY <2>1, <2>2
<1>12. e * Minute + Minute = (e + 1) * Minute
  BY <1>5
<1>13. Aligned(SegmentEnd) /\ Aligned(SegmentEnd + Minute)
  <2>1. e \in Nat /\ e + 1 \in Nat /\ e * Minute \in Nat /\ (e + 1) * Minute \in Nat
    BY <1>5
  <2>2. QED
    BY <1>8, <1>12, <2>1, Multiples
<1>14. SegmentEnd \in cursor .. Last /\ SegmentEnd + Minute \in First .. Last + Minute
  BY <1>1, <1>2, <1>3, <1>8, <1>9, <1>10
<1>15. SegmentEnd - cursor <= (MaxPoints - 1) * Minute
  BY <1>2, <1>8, <1>11 DEF n
<1>16. QED
  BY <1>1, <1>13, <1>14, <1>15 DEF NextSegment, Segment

-------------------------------------------------------------------------------
(* Types, and the tiles.                                                   *)

(* The last request ends a minute before the cursor.                       *)
TilesToCursor ==
  /\ Len(requests) = 0 => cursor = First
  /\ Len(requests) > 0 => requests[Len(requests)].to + Minute = cursor

Tiled ==
  \A k \in 1 .. Len(requests) :
    /\ requests[k].from = IF k = 1 THEN First ELSE requests[k - 1].to + Minute
    /\ requests[k].to - requests[k].from <= (MaxPoints - 1) * Minute

Downloading == TypeOK /\ TilesToCursor /\ Tiled

LEMMA ExactAnswerTyped ==
  ASSUME NEW s \in Segment, s.from <= s.to
  PROVE  /\ ExactAnswer(s) \in Seq(Row)
         /\ Len(ExactAnswer(s)) = (s.to - s.from) \div Minute + 1
         /\ \A k \in 1 .. Len(ExactAnswer(s)) :
              ExactAnswer(s)[k] = [time |-> s.from + (k - 1) * Minute, valid |-> TRUE]
<1> USE BatchAssumption DEF BatchAssumption
<1> DEFINE n == (s.to - s.from) \div Minute + 1
<1>1. s.from \in Nat /\ s.to \in Nat /\ s.to - s.from \in Nat
  BY DEF Segment
<1>2. n \in Nat
  BY <1>1
<1> HIDE DEF n
<1>3. ASSUME NEW k \in 1 .. n PROVE [time |-> s.from + (k - 1) * Minute, valid |-> TRUE] \in Row
  <2>1. (k - 1) * Minute \in Nat
    BY <1>2
  <2>2. s.from + (k - 1) * Minute \in Nat
    BY <1>1, <2>1
  <2>3. QED
    BY <2>2 DEF Row
<1>4. ExactAnswer(s) = [k \in 1 .. n |-> [time |-> s.from + (k - 1) * Minute, valid |-> TRUE]]
  BY DEF ExactAnswer, n
<1> DEFINE f == ExactAnswer(s)
<1>5. /\ f \in [1 .. n -> Row]
      /\ \A k \in 1 .. n : f[k] = [time |-> s.from + (k - 1) * Minute, valid |-> TRUE]
  BY <1>3, <1>4
<1> HIDE DEF f
<1>6. f \in Seq(Row) /\ Len(f) = n
  BY <1>2, <1>5
<1>7. QED
  BY <1>5, <1>6 DEF n, f

LEMMA AnswerTyped ==
  ASSUME TypeOK, ~Done, NEW answer \in Answers \cup {ExactAnswer(NextSegment)}
  PROVE  answer \in Seq(Row)
<1>1. NextSegment \in Segment /\ NextSegment.from <= NextSegment.to
  BY SegmentInRange, BatchAssumption DEF TypeOK, BatchAssumption
<1>2. ExactAnswer(NextSegment) \in Seq(Row)
  BY <1>1, ExactAnswerTyped
<1>3. QED
  BY <1>2, BatchAssumption DEF BatchAssumption

LEMMA DownloadingStep == Downloading /\ [Next]_vars => Downloading'
<1> SUFFICES ASSUME Downloading, [Next]_vars PROVE Downloading'
  OBVIOUS
<1> USE BatchAssumption DEF BatchAssumption
<1>1. CASE UNCHANGED vars
  BY <1>1 DEF vars, Downloading, TypeOK, TilesToCursor, Tiled
<1>2. ASSUME ~Done, requests' = Append(requests, NextSegment), Advance, rows' \in Seq(Row),
             failed' \subseteq Segment, exact' \in BOOLEAN
      PROVE  Downloading'
  <2>1. cursor \in First .. Last + Minute /\ Aligned(cursor) /\ requests \in Seq(Segment)
    BY DEF Downloading, TypeOK
  <2>2. /\ SegmentEnd - cursor <= (MaxPoints - 1) * Minute
        /\ SegmentEnd + Minute \in First .. Last + Minute
        /\ Aligned(SegmentEnd + Minute)
        /\ NextSegment \in Segment
        /\ NextSegment.from = cursor /\ NextSegment.to = SegmentEnd
    BY <1>2, <2>1, SegmentInRange
  <2> DEFINE s == NextSegment
             n == Len(requests)
  <2> HIDE DEF s
  <2>3. /\ requests' \in Seq(Segment) /\ Len(requests') = n + 1 /\ requests'[n + 1] = s
        /\ \A k \in 1 .. n : requests'[k] = requests[k]
    BY <1>2, <2>1, <2>2, AppendProperties DEF s
  <2>4. n \in Nat /\ cursor' = SegmentEnd + Minute /\ s.from = cursor /\ s.to = SegmentEnd
    BY <1>2, <2>1, <2>2 DEF Advance, s
  <2>5. TypeOK'
    BY <1>2, <2>2, <2>3, <2>4 DEF TypeOK, Aligned
  <2> HIDE DEF n
  <2>6. TilesToCursor'
    BY <2>3, <2>4 DEF TilesToCursor
  <2>7. n = 0 => cursor = First
    BY DEF Downloading, TilesToCursor, n
  <2>8. n > 0 => requests[n].to + Minute = cursor
    BY DEF Downloading, TilesToCursor, n
  <2>9. ASSUME NEW k \in 1 .. Len(requests')
        PROVE  /\ requests'[k].from = IF k = 1 THEN First ELSE requests'[k - 1].to + Minute
               /\ requests'[k].to - requests'[k].from <= (MaxPoints - 1) * Minute
    <3>1. CASE k \in 1 .. n
      <4>1. requests'[k] = requests[k] /\ (k # 1 => requests'[k - 1] = requests[k - 1])
        BY <2>3, <2>4, <3>1
      <4>2. QED
        BY <3>1, <4>1 DEF Downloading, Tiled, n
    <3>2. CASE k = n + 1
      <4>1. requests'[k] = s /\ (k # 1 => requests'[k - 1] = requests[n])
        BY <2>3, <2>4, <3>2
      <4>2. QED
        BY <2>2, <2>4, <2>7, <2>8, <3>2, <4>1
    <3>3. QED
      BY <2>3, <2>4, <3>1, <3>2
  <2>10. Tiled'
    BY <2>9 DEF Tiled
  <2>11. QED
    BY <2>5, <2>6, <2>10 DEF Downloading
<1>3. CASE Answered
  <2>1. PICK answer \in Answers \cup {ExactAnswer(NextSegment)} :
          rows' = rows \o answer /\ exact' \in BOOLEAN
    BY <1>3 DEF Answered
  <2>2. ~Done /\ TypeOK
    BY <1>3 DEF Answered, Downloading
  <2>3. answer \in Seq(Row)
    BY <2>1, <2>2, AnswerTyped
  <2>4. rows' \in Seq(Row)
    BY <2>1, <2>2, <2>3, ConcatProperties DEF TypeOK
  <2>5. QED
    BY <1>2, <1>3, <2>1, <2>2, <2>4 DEF Answered, TypeOK
<1>4. CASE Refused
  <2>1. ~Done /\ TypeOK
    BY <1>4 DEF Refused, Downloading
  <2>2. NextSegment \in Segment
    BY <2>1, SegmentInRange DEF TypeOK
  <2>3. QED
    BY <1>2, <1>4, <2>1, <2>2 DEF Refused, TypeOK
<1>5. QED
  BY <1>1, <1>3, <1>4 DEF Next

LEMMA DownloadingInvariant == Spec => []Downloading
<1>1. Init => Downloading
  <2> SUFFICES ASSUME Init PROVE Downloading
    OBVIOUS
  <2>1. <<>> \in Seq(Row) /\ <<>> \in Seq(Segment) /\ Len(<<>>) = 0
    BY EmptySeq
  <2>2. TypeOK
    BY <2>1, BatchAssumption DEF BatchAssumption, Init, TypeOK
  <2>3. TilesToCursor /\ Tiled
    BY <2>1 DEF Init, TilesToCursor, Tiled
  <2>4. QED
    BY <2>2, <2>3 DEF Downloading
<1>2. QED
  BY <1>1, DownloadingStep, PTL DEF Spec

(* For every range the cursor stays on the minutes of the range and stops  *)
(* just behind it.                                                         *)
THEOREM TypeCorrect == Spec => []TypeOK
<1>1. Downloading => TypeOK
  BY DEF Downloading
<1>2. QED
  BY <1>1, DownloadingInvariant, PTL

(* A download that is done stands a minute behind the range.               *)
LEMMA DoneBehindLast ==
  ASSUME TypeOK, Done
  PROVE  cursor = Last + Minute
<1> USE BatchAssumption DEF BatchAssumption
<1>1. cursor \in Nat /\ Last < cursor /\ cursor <= Last + Minute
  BY DEF TypeOK, Done
<1>2. PICK c \in Nat : cursor = c * Minute
  BY <1>1, Multiples DEF TypeOK
<1>3. PICK l \in Nat : Last = l * Minute
  BY RangeInMinutes
<1>4. l * Minute + Minute = (l + 1) * Minute
  BY <1>3
<1>5. c <= l + 1
  BY <1>1, <1>2, <1>3, <1>4, Multiples
<1>6. ~(c <= l)
  <2>1. ~(c * Minute <= l * Minute)
    BY <1>1, <1>2, <1>3
  <2>2. QED
    BY <2>1, Multiples
<1>7. c = l + 1
  BY <1>5, <1>6
<1>8. QED
  BY <1>2, <1>3, <1>4, <1>7

(* The requests tile the range, for every range and length of a segment,   *)
(* whichever of them fail.                                                 *)
THEOREM RequestsTileAlways == Spec => []RequestsTile
<1>1. Downloading => RequestsTile
  <2> SUFFICES ASSUME Downloading PROVE RequestsTile
    OBVIOUS
  <2>1. ASSUME Done PROVE Len(requests) > 0 /\ requests[Len(requests)].to = Last
    <3>1. cursor = Last + Minute
      BY <2>1, DoneBehindLast DEF Downloading
    <3>2. Len(requests) \in Nat /\ requests \in Seq(Segment)
      BY DEF Downloading, TypeOK
    <3>3. Len(requests) > 0
      BY <3>1, <3>2, BatchAssumption DEF Downloading, TilesToCursor, BatchAssumption
    <3>4. requests[Len(requests)].to + Minute = Last + Minute
      BY <3>1, <3>3 DEF Downloading, TilesToCursor
    <3>5. requests[Len(requests)].to \in Nat
      <4>1. Len(requests) \in 1 .. Len(requests)
        BY <3>2, <3>3
      <4>2. requests[Len(requests)] \in Segment
        BY <3>2, <4>1, ElementOfSeq
      <4>3. QED
        BY <4>2 DEF Segment
    <3>6. QED
      BY <3>3, <3>4, <3>5, BatchAssumption DEF BatchAssumption
  <2>2. QED
    BY <2>1 DEF Downloading, Tiled, RequestsTile
<1>2. QED
  BY <1>1, DownloadingInvariant, PTL

-------------------------------------------------------------------------------
(* What passes for complete.                                               *)

RowTyped == \A k \in Indices : rows[k].time \in Nat /\ rows[k].valid \in BOOLEAN

LEMMA RowsTyped ==
  ASSUME TypeOK
  PROVE  RowTyped /\ Len(rows) \in Nat
<1>1. rows \in Seq(Row) /\ Len(rows) \in Nat
  BY DEF TypeOK
<1>2. ASSUME NEW k \in Indices PROVE rows[k] \in Row
  BY <1>1, ElementOfSeq DEF Indices
<1>3. QED
  BY <1>1, <1>2 DEF RowTyped, Row

(* Neighbours in order and no time twice: the whole is in order.  A pair   *)
(* of rows out of order that is least far apart would have a nearer one.   *)
LEMMA InOrder ==
  ASSUME TypeOK, OutOfOrder = {}, Duplicates = {}
  PROVE  \A i, j \in Indices : i < j => rows[i].time < rows[j].time
<1> DEFINE Wrong(d) == \E i \in Indices : i + d \in Indices /\ rows[i].time >= rows[i + d].time
           T == {d \in Nat : d >= 1 /\ Wrong(d)}
<1>1. RowTyped /\ Len(rows) \in Nat
  BY RowsTyped
<1>2. ASSUME NEW k \in Indices, k # 1 PROVE rows[k - 1].time < rows[k].time
  <2>1. k - 1 \in Indices
    BY <1>1, <1>2 DEF Indices
  <2>2. ~(rows[k].time < rows[k - 1].time)
    BY <1>2 DEF OutOfOrder
  <2>3. rows[k].time # rows[k - 1].time
    <3>1. k - 1 # k
      BY <1>1 DEF Indices
    <3>2. QED
      BY <2>1, <3>1 DEF Duplicates
  <2>4. QED
    BY <1>1, <2>1, <2>2, <2>3 DEF RowTyped
<1>3. T = {}
  <2> SUFFICES ASSUME T # {} PROVE FALSE
    OBVIOUS
  <2>1. PICK d \in T : \A k \in T : d <= k
    BY Least
  <2>2. PICK i \in Indices : i + d \in Indices /\ rows[i].time >= rows[i + d].time
    BY <2>1
  <2>3. d \in Nat /\ d >= 1 /\ i \in Nat /\ i >= 1 /\ i + d <= Len(rows)
    BY <1>1, <2>1, <2>2 DEF Indices
  <2>4. rows[(i + d) - 1].time < rows[i + d].time
    <3> DEFINE k == i + d
    <3>1. k \in Indices /\ k # 1
      BY <2>2, <2>3
    <3> HIDE DEF k
    <3>2. rows[k - 1].time < rows[k].time
      BY <1>2, <3>1
    <3>3. QED
      BY <3>2 DEF k
  <2>5. d # 1
    <3> SUFFICES ASSUME d = 1 PROVE FALSE
      OBVIOUS
    <3>1. (i + d) - 1 = i
      BY <2>3
    <3>2. QED
      BY <1>1, <2>2, <2>4, <3>1 DEF RowTyped
  <2>6. i + (d - 1) \in Indices /\ i + (d - 1) = (i + d) - 1
    BY <1>1, <2>3, <2>5 DEF Indices
  <2>7. rows[i].time >= rows[i + (d - 1)].time
    <3>1. rows[i].time \in Nat /\ rows[i + d].time \in Nat /\ rows[i + (d - 1)].time \in Nat
      BY <1>1, <2>2, <2>6 DEF RowTyped
    <3>2. QED
      BY <2>2, <2>4, <2>6, <3>1
  <2>8. d - 1 \in T
    <3>1. d - 1 \in Nat /\ d - 1 >= 1
      BY <2>3, <2>5
    <3>2. Wrong(d - 1)
      BY <2>2, <2>6, <2>7
    <3>3. QED
      BY <3>1, <3>2
  <2> HIDE DEF T
  <2>9. d <= d - 1
    BY <2>1, <2>8
  <2>10. QED
    BY <2>3, <2>9
<1>4. SUFFICES ASSUME NEW i \in Indices, NEW j \in Indices, i < j
               PROVE  rows[i].time < rows[j].time
  OBVIOUS
<1>5. j - i \in Nat /\ j - i >= 1 /\ i + (j - i) = j
  BY <1>1, <1>4 DEF Indices
<1>6. ~(rows[i].time >= rows[j].time)
  <2> SUFFICES ASSUME rows[i].time >= rows[j].time PROVE FALSE
    OBVIOUS
  <2>1. j - i \in T
    BY <1>5
  <2>2. QED
    BY <1>3, <2>1
<1>7. QED
  BY <1>1, <1>6 DEF RowTyped

(* For every range and whatever the exchange answers, a batch that passes  *)
(* for complete is the requested range, each minute once and in order.     *)
THEOREM CompleteIsExactAlways == Spec => []CompleteIsExact
<1>1. TypeOK => CompleteIsExact
  <2> SUFFICES ASSUME TypeOK, Complete PROVE CompleteIsExact
    BY DEF CompleteIsExact
  <2>1. Missing = {} /\ Duplicates = {} /\ Invalid = {} /\ OutOfOrder = {}
    BY DEF Complete
  <2>2. \A i, j \in Indices : i < j => rows[i].time < rows[j].time
    BY <2>1, InOrder
  <2>3. \A i \in Indices : Usable(rows[i])
    BY <2>1 DEF Invalid
  <2>4. \A i \in Indices : rows[i].valid /\ Aligned(rows[i].time)
    BY <2>3 DEF Usable
  <2>5. {rows[i].time : i \in Indices} \cap (First .. Last) \subseteq Expected
    BY <2>4 DEF Expected
  <2>6. Expected \subseteq ValidTimes
    BY <2>1 DEF Missing
  <2>7. ValidTimes \subseteq {rows[i].time : i \in Indices}
    BY DEF ValidTimes
  <2>8. Expected \subseteq First .. Last
    BY DEF Expected
  <2>9. {rows[i].time : i \in Indices} \cap (First .. Last) = Expected
    BY <2>5, <2>6, <2>7, <2>8
  <2>10. QED
    BY <2>2, <2>4, <2>9 DEF CompleteIsExact
<1>2. QED
  BY <1>1, TypeCorrect, PTL

-------------------------------------------------------------------------------
(* What exact answers add up to.                                           *)

(* As long as every answer was exact, the rows are the range up to the     *)
(* cursor.                                                                 *)
ExactSoFar ==
  exact =>
    /\ failed = {}
    /\ cursor = First + Len(rows) * Minute
    /\ \A k \in Indices : rows[k] = [time |-> First + (k - 1) * Minute, valid |-> TRUE]

LEMMA ExactSoFarStep ==
  ASSUME TypeOK, ExactSoFar, [Next]_vars
  PROVE  ExactSoFar'
<1> USE BatchAssumption DEF BatchAssumption
<1>1. CASE UNCHANGED vars
  BY <1>1 DEF vars, ExactSoFar, Indices
<1>2. CASE Refused
  BY <1>2 DEF Refused, ExactSoFar
<1>3. CASE Answered
  <2> SUFFICES ASSUME exact' PROVE ExactSoFar'
    BY DEF ExactSoFar
  <2>1. /\ exact /\ ~Done /\ cursor' = SegmentEnd + Minute /\ failed' = failed
        /\ rows' = rows \o ExactAnswer(NextSegment)
    BY <1>3 DEF Answered, Advance
  <2>2. /\ failed = {} /\ cursor = First + Len(rows) * Minute
        /\ \A k \in Indices : rows[k] = [time |-> First + (k - 1) * Minute, valid |-> TRUE]
    BY <2>1 DEF ExactSoFar
  <2>3. cursor \in First .. Last + Minute /\ Aligned(cursor) /\ rows \in Seq(Row)
    BY DEF TypeOK
  <2>4. /\ SegmentEnd \in cursor .. Last /\ Aligned(SegmentEnd)
        /\ NextSegment \in Segment /\ NextSegment.from = cursor /\ NextSegment.to = SegmentEnd
    BY <2>1, <2>3, SegmentInRange
  <2> DEFINE a == ExactAnswer(NextSegment)
             n == (SegmentEnd - cursor) \div Minute + 1
             m == Len(rows)
  <2>5. /\ a \in Seq(Row) /\ Len(a) = n
        /\ \A k \in 1 .. n : a[k] = [time |-> cursor + (k - 1) * Minute, valid |-> TRUE]
    <3>1. NextSegment.from <= NextSegment.to
      BY <2>3, <2>4
    <3>2. QED
      BY <2>4, <3>1, ExactAnswerTyped
  <2> HIDE DEF a
  <2>6. rows' \in Seq(Row) /\ Len(rows') = m + Len(a)
        /\ \A k \in 1 .. m + Len(a) : rows'[k] = IF k <= m THEN rows[k] ELSE a[k - m]
    BY <2>1, <2>3, <2>5, ConcatProperties DEF a
  <2>7. m \in Nat /\ n \in Nat /\ n * Minute = SegmentEnd + Minute - cursor
    <3>1. cursor \in Nat /\ SegmentEnd \in Nat /\ cursor <= SegmentEnd
      BY <2>3, <2>4
    <3>2. PICK c \in Nat : cursor = c * Minute
      BY <2>3, <3>1, Multiples
    <3>3. PICK e \in Nat : SegmentEnd = e * Minute
      BY <2>4, <3>1, Multiples
    <3>4. c <= e
      BY <3>1, <3>2, <3>3, Multiples
    <3>5. SegmentEnd - cursor = (e - c) * Minute /\ e - c \in Nat
      BY <3>2, <3>3, <3>4
    <3>6. ((e - c) * Minute) \div Minute = e - c
      BY <3>5
    <3>7. n = e - c + 1
      BY <3>5, <3>6
    <3> HIDE DEF n
    <3>8. (e - c + 1) * Minute = e * Minute - c * Minute + Minute
      BY <3>5
    <3>9. QED
      BY <2>3, <3>2, <3>3, <3>5, <3>7, <3>8
  <2> HIDE DEF n, m
  <2>8. cursor' = First + Len(rows') * Minute
    <3>1. (m + n) * Minute = m * Minute + n * Minute
      BY <2>7
    <3>2. m * Minute \in Nat /\ n * Minute \in Nat /\ cursor \in Nat /\ SegmentEnd \in Nat
      BY <2>3, <2>4, <2>7
    <3>3. cursor = First + m * Minute
      BY <2>2 DEF m
    <3>4. Len(rows') = m + n
      BY <2>5, <2>6
    <3>5. First + (m + n) * Minute = SegmentEnd + Minute
      BY <2>7, <3>1, <3>2, <3>3
    <3>6. QED
      BY <2>1, <3>4, <3>5
  <2>9. ASSUME NEW k \in 1 .. Len(rows')
        PROVE  rows'[k] = [time |-> First + (k - 1) * Minute, valid |-> TRUE]
    <3>1. k \in 1 .. m + n
      BY <2>5, <2>6
    <3>2. CASE k <= m
      <4>1. rows'[k] = rows[k] /\ k \in Indices
        BY <2>5, <2>6, <2>7, <3>1, <3>2 DEF Indices, m
      <4>2. QED
        BY <2>2, <4>1
    <3>3. CASE k > m
      <4>1. k - m \in 1 .. n /\ rows'[k] = a[k - m]
        BY <2>5, <2>6, <2>7, <3>1, <3>3
      <4>2. a[k - m] = [time |-> cursor + (k - m - 1) * Minute, valid |-> TRUE]
        BY <2>5, <4>1
      <4>3. (k - m - 1) * Minute = (k - 1) * Minute - m * Minute
        BY <2>7, <3>1
      <4>4. cursor = First + m * Minute
        BY <2>2 DEF m
      <4>5. (k - 1) * Minute \in Int /\ m * Minute \in Int /\ (k - m - 1) * Minute \in Int
        BY <2>7, <3>1
      <4>6. cursor + (k - m - 1) * Minute = First + (k - 1) * Minute
        BY <4>3, <4>4, <4>5
      <4>7. QED
        BY <4>1, <4>2, <4>6
    <3>4. QED
      BY <2>7, <3>1, <3>2, <3>3
  <2>10. QED
    BY <2>1, <2>2, <2>8, <2>9 DEF ExactSoFar, Indices
<1>4. QED
  BY <1>1, <1>2, <1>3 DEF Next

(* For every range and segment length: when every answer is exact, the     *)
(* batch is complete, the candles at the boundaries included.              *)
THEOREM ExactIsCompleteAlways == Spec => []ExactIsComplete
<1>1. Init => ExactSoFar
  <2> SUFFICES ASSUME Init PROVE ExactSoFar
    OBVIOUS
  <2>1. Len(rows) = 0 /\ cursor = First /\ failed = {}
    BY DEF Init
  <2>2. First = First + 0 * Minute
    BY BatchAssumption DEF BatchAssumption
  <2>3. QED
    BY <2>1, <2>2 DEF ExactSoFar, Indices
<1>2. TypeOK /\ ExactSoFar /\ [Next]_vars => ExactSoFar'
  BY ExactSoFarStep
<1>3. TypeOK /\ ExactSoFar => ExactIsComplete
  <2> USE BatchAssumption DEF BatchAssumption
  <2> SUFFICES ASSUME TypeOK, ExactSoFar, Done, exact PROVE Complete
    BY DEF ExactIsComplete
  <2>1. /\ failed = {} /\ cursor = First + Len(rows) * Minute
        /\ \A k \in Indices : rows[k] = [time |-> First + (k - 1) * Minute, valid |-> TRUE]
    BY DEF ExactSoFar
  <2>2. cursor = Last + Minute
    BY DoneBehindLast
  <2>3. PICK f \in Nat, l \in Nat : First = f * Minute /\ Last = l * Minute /\ f <= l
    BY RangeInMinutes
  <2> DEFINE n == Len(rows)
  <2>4. n \in Nat
    BY RowsTyped
  <2> HIDE DEF n
  <2>5. \A k \in Indices : rows[k].valid /\ rows[k].time = (f + k - 1) * Minute
    <3> SUFFICES ASSUME NEW k \in Indices
                 PROVE  rows[k].valid /\ rows[k].time = (f + k - 1) * Minute
      OBVIOUS
    <3>1. k \in Nat
      BY <2>4 DEF Indices
    <3>2. f * Minute + (k - 1) * Minute = (f + k - 1) * Minute
      BY <2>3, <3>1
    <3>3. rows[k] = [time |-> First + (k - 1) * Minute, valid |-> TRUE]
      BY <2>1
    <3>4. rows[k].time = First + (k - 1) * Minute /\ rows[k].valid
      BY <3>3
    <3>5. QED
      BY <2>3, <3>2, <3>4
  <2>6. \A k \in Indices : k \in Nat /\ k >= 1 /\ f + k - 1 \in Nat /\ (f + k - 1) * Minute \in Nat
    <3> SUFFICES ASSUME NEW k \in Indices
                 PROVE k \in Nat /\ k >= 1 /\ f + k - 1 \in Nat /\ (f + k - 1) * Minute \in Nat
      OBVIOUS
    <3>1. k \in Nat /\ k >= 1 /\ f + k - 1 \in Nat
      BY <2>3, <2>4 DEF Indices
    <3>2. QED
      BY <3>1
  <2>7. \A k \in Indices : Usable(rows[k])
    <3> SUFFICES ASSUME NEW k \in Indices PROVE Usable(rows[k])
      OBVIOUS
    <3> DEFINE q == f + k - 1
               t == rows[k].time
    <3>1. q \in Nat /\ t \in Nat /\ t = q * Minute /\ rows[k].valid
      BY <2>5, <2>6
    <3> HIDE DEF q, t
    <3>2. Aligned(t)
      BY <3>1, Multiples
    <3>3. QED
      BY <3>1, <3>2 DEF Usable, t
  <2>8. l = f + n - 1
    <3>1. l * Minute + Minute = (l + 1) * Minute /\ f * Minute + n * Minute = (f + n) * Minute
      BY <2>3, <2>4
    <3>2. f * Minute + n * Minute = l * Minute + Minute
      BY <2>1, <2>2, <2>3 DEF n
    <3>3. (l + 1) * Minute = (f + n) * Minute
      BY <3>1, <3>2
    <3>4. l + 1 = f + n
      BY <2>3, <2>4, <3>3, Multiples
    <3>5. QED
      BY <2>3, <2>4, <3>4
  <2>9. Missing = {}
    <3> SUFFICES ASSUME NEW t \in First .. Last, Aligned(t) PROVE t \in ValidTimes
      BY DEF Missing, Expected
    <3>1. t \in Nat
      OBVIOUS
    <3>2. PICK q \in Nat : t = q * Minute
      BY <3>1, Multiples
    <3>3. f <= q /\ q <= l
      BY <2>3, <3>1, <3>2, Multiples
    <3> DEFINE k == q - f + 1
    <3>4. k \in Indices /\ f + k - 1 = q
      BY <2>3, <2>4, <2>8, <3>3 DEF Indices, n
    <3> HIDE DEF k
    <3>5. rows[k].time = t
      BY <2>5, <3>2, <3>4
    <3>6. QED
      BY <2>7, <3>4, <3>5 DEF ValidTimes, InRange
  <2>10. \A k, m \in Indices : rows[k].time <= rows[m].time <=> k <= m
    <3> SUFFICES ASSUME NEW k \in Indices, NEW m \in Indices
                 PROVE  rows[k].time <= rows[m].time <=> k <= m
      OBVIOUS
    <3>1. (f + k - 1) * Minute <= (f + m - 1) * Minute <=> f + k - 1 <= f + m - 1
      BY <2>6, Multiples
    <3>2. QED
      BY <2>3, <2>5, <2>6, <3>1
  <2>11. \A k \in Indices : rows[k].time \in Nat
    BY <2>5, <2>6
  <2>12. Duplicates = {}
    BY <2>6, <2>10, <2>11 DEF Duplicates
  <2>13. OutOfOrder = {}
    <3> SUFFICES ASSUME NEW k \in Indices \ {1} PROVE ~(rows[k].time < rows[k - 1].time)
      BY DEF OutOfOrder
    <3>1. k - 1 \in Indices /\ k - 1 <= k
      BY <2>4 DEF Indices, n
    <3>2. QED
      BY <2>10, <2>11, <3>1
  <2>14. Invalid = {}
    BY <2>7 DEF Invalid
  <2>15. QED
    BY <2>1, <2>9, <2>12, <2>13, <2>14 DEF Complete
<1>4. QED
  BY <1>1, <1>2, <1>3, TypeCorrect, PTL DEF Spec
===============================================================================
