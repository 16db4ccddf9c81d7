----------------------------- MODULE CandleBatch ------------------------------
(***************************************************************************)
(* MexcClient.get_candle_batch of app/mexc.py: the range is requested in   *)
(* segments, what the exchange answers is collected, and the collection is *)
(* judged before anybody computes with it.  A row stands for a candle that *)
(* _candles_from_payload could parse; valid is Candle.is_valid().          *)
(***************************************************************************)
EXTENDS Integers, Sequences

CONSTANTS
  Minute,    (* INTERVAL_SECONDS                                           *)
  MaxPoints, (* MAX_POINTS, the most candles one answer may hold           *)
  First,     (* start of the requested range                               *)
  Last,      (* end of the requested range, the open time of a candle too  *)
  Answers    (* environment: answers of the exchange that are not exact    *)

Row == [time : Nat, valid : BOOLEAN]

Aligned(t) == t % Minute = 0
InRange(t) == First <= t /\ t <= Last

ASSUME BatchAssumption ==
  /\ Minute \in Nat \ {0}
  /\ MaxPoints \in Nat \ {0}
  /\ First \in Nat /\ Last \in Nat
  /\ First <= Last /\ Aligned(First) /\ Aligned(Last)
  /\ Answers \subseteq Seq(Row)

VARIABLES
  cursor,   (* start of the next segment                                   *)
  rows,     (* all_rows                                                    *)
  failed,   (* request_errors: the segments that failed                    *)
  requests, (* history: the segments requested, in order                   *)
  exact     (* history: every answer held the candles of its segment       *)

vars == <<cursor, rows, failed, requests, exact>>

Segment == [from : Nat, to : Nat]

(* Mutant: the end of the range does not cut the last segment.             *)
SegmentEndUncut == cursor + (MaxPoints - 1) * Minute

(* Mutant: an interval too long.                                           *)
SegmentEndTooFar ==
  IF cursor + MaxPoints * Minute < Last THEN cursor + MaxPoints * Minute ELSE Last

SegmentEnd ==
  IF cursor + (MaxPoints - 1) * Minute < Last
  THEN cursor + (MaxPoints - 1) * Minute ELSE Last

NextSegment == [from |-> cursor, to |-> SegmentEnd]

(* Mutant: the candle at the boundary is requested twice.                  *)
AdvanceToEnd == cursor' = IF SegmentEnd = Last THEN Last + Minute ELSE SegmentEnd

Advance == cursor' = SegmentEnd + Minute

Done == cursor > Last

(* What the exchange should answer: every candle of the segment, in order. *)
ExactAnswer(s) ==
  [k \in 1 .. (s.to - s.from) \div Minute + 1 |->
     [time |-> s.from + (k - 1) * Minute, valid |-> TRUE]]

-------------------------------------------------------------------------------
(* The judgement of the collected rows.                                    *)

Indices == 1 .. Len(rows)

Usable(r) == r.valid /\ Aligned(r.time)

Expected == {t \in First .. Last : Aligned(t)}

(* The open times of batch.candles, which is sorted by them.               *)
ValidTimes ==
  {rows[i].time : i \in {k \in Indices : Usable(rows[k]) /\ InRange(rows[k].time)}}

Missing    == Expected \ ValidTimes
Duplicates == {rows[i].time : i \in {k \in Indices :
                 \E l \in Indices : l # k /\ rows[l].time = rows[k].time}}
Invalid    == {rows[i].time : i \in {k \in Indices : ~Usable(rows[k])}}
OutOfOrder == {rows[i].time : i \in {k \in Indices \ {1} :
                 rows[k].time < rows[k - 1].time}}

(* Mutant: the order of the rows is not looked at.                         *)
CompleteInAnyOrder ==
  Done /\ Missing = {} /\ Duplicates = {} /\ Invalid = {} /\ failed = {}

Complete ==
  /\ Done
  /\ Missing = {} /\ Duplicates = {} /\ Invalid = {} /\ OutOfOrder = {}
  /\ failed = {}

-------------------------------------------------------------------------------
Init ==
  /\ cursor = First
  /\ rows = <<>>
  /\ failed = {}
  /\ requests = <<>>
  /\ exact = TRUE

Answered ==
  /\ ~Done
  /\ \E answer \in Answers \cup {ExactAnswer(NextSegment)} :
       /\ rows' = rows \o answer
       /\ exact' = (exact /\ answer = ExactAnswer(NextSegment))
  /\ requests' = Append(requests, NextSegment)
  /\ Advance
  /\ UNCHANGED failed

(* After its retries, or because the answer makes no sense: the error is   *)
(* noted and the next segment is requested all the same.                   *)
Refused ==
  /\ ~Done
  /\ failed' = failed \cup {NextSegment}
  /\ exact' = FALSE
  /\ requests' = Append(requests, NextSegment)
  /\ Advance
  /\ UNCHANGED rows

Next == Answered \/ Refused

Spec == Init /\ [][Next]_vars

-------------------------------------------------------------------------------
(* Type invariant; the cursor stops just behind the range.                 *)
TypeOK ==
  /\ cursor \in First .. Last + Minute
  /\ Aligned(cursor)
  /\ rows \in Seq(Row)
  /\ failed \subseteq Segment
  /\ requests \in Seq(Segment)
  /\ exact \in BOOLEAN

(* The requests tile the range: each starts a minute after the one before  *)
(* it ends, none asks for more than the exchange answers, and the last one *)
(* ends with the range, whichever of them fail (mexc.py:181-193, "Continue *)
(* even when a segment is empty or failed").                               *)
RequestsTile ==
  /\ \A i \in 1 .. Len(requests) :
       /\ requests[i].from = IF i = 1 THEN First ELSE requests[i - 1].to + Minute
       /\ requests[i].to - requests[i].from <= (MaxPoints - 1) * Minute
  /\ Done => Len(requests) > 0 /\ requests[Len(requests)].to = Last

(* A batch that passes for complete is the range itself: the rows were     *)
(* received in strictly increasing order, all of them usable, and those    *)
(* inside the range are every minute of it (mexc.py:34-37, 195-215).       *)
CompleteIsExact ==
  Complete =>
    /\ \A i, j \in Indices : i < j => rows[i].time < rows[j].time
    /\ \A i \in Indices : rows[i].valid
    /\ {rows[i].time : i \in Indices} \cap (First .. Last) = Expected

(* The judgement rejects nothing it need not reject: when the exchange     *)
(* answers every segment exactly, the batch is complete, boundaries of the *)
(* segments included (mexc.py:181-215).                                    *)
ExactIsComplete == Done /\ exact => Complete
===============================================================================
