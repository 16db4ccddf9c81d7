------------------------------ MODULE MCBacktest ------------------------------
(***************************************************************************)
(* Small instances of Backtest.  The percentages of the gate are counted   *)
(* in levels: 2 trips it, 1 keeps it closed, 0 is calm.                    *)
(***************************************************************************)
EXTENDS Backtest

AllSetups    == {"LONG", "SHORT", "NONE"}

CalmCandle   == [move5 |-> 0, range1 |-> 0]
WideCandle   == [move5 |-> 0, range1 |-> 2]
UneasyCandle == [move5 |-> 1, range1 |-> 0]
AllMovements == {CalmCandle, WideCandle, UneasyCandle}

OnTimeOrLate == {2, 3}

(* Before the history, whose first candle opens at 6, the live gate was    *)
(* open (a torn update may have left an observation), was closed, or began *)
(* to observe in its last cycle.                                           *)
SomeGates    == {OpenGate, [paused |-> TRUE, recovery |-> 0],
                 [paused |-> TRUE, recovery |-> 8],
                 [paused |-> FALSE, recovery |-> 8]}

BothOrLong   == {"BOTH", "LONG"}

(* 12 buys at most 4 contracts at a price of 3 and none at 7; the limit    *)
(* caps what it buys at 2.                                                 *)
Usual        == [size |-> 1, step |-> 2, min |-> 2, max |-> 5,
                 maxLeverage |-> 4, countryLeverage |-> 0]
(* No multiple of the step lies between the limits.                        *)
Skewed       == [size |-> 1, step |-> 2, min |-> 3, max |-> 3,
                 maxLeverage |-> 4, countryLeverage |-> 4]
Restricted   == [Usual EXCEPT !.countryLeverage = 3]
SomeContracts == {Usual, Skewed, Restricted}

SomePrices   == {2, 3, 5, 8}
===============================================================================
