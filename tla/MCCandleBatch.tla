---------------------------- MODULE MCCandleBatch -----------------------------
(***************************************************************************)
(* A small instance of CandleBatch: five candles in segments of two, two   *)
(* and one, and answers of up to two rows among the candles of the range,  *)
(* one behind it, an invalid one and one that opens within a minute.       *)
(***************************************************************************)
EXTENDS CandleBatch

RowsReceived ==
  {[time |-> t, valid |-> TRUE] : t \in {2, 4, 5, 6, 8, 10, 12}}
    \cup {[time |-> 4, valid |-> FALSE]}

AnyAnswer == UNION {[1 .. n -> RowsReceived] : n \in 0 .. 2}
===============================================================================
