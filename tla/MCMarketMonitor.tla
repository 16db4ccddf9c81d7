--------------------------- MODULE MCMarketMonitor ----------------------------
(***************************************************************************)
(* Small instances of MarketMonitor.  A minute has two seconds, so that a  *)
(* second at an await is enough to miss a candle, and the percentages of   *)
(* the gate are counted in levels: 2 trips it, 1 keeps it closed, 0 is     *)
(* calm.                                                                   *)
(***************************************************************************)
EXTENDS MarketMonitor

TwoRecipients == <<"r1", "r2">>
OneRecipient  == <<"r1">>
AllSetups     == {"LONG", "SHORT", "NONE"}
OneDirection  == {"LONG", "NONE"}
NoSetups      == {"NONE"}

CalmCandle    == [move5 |-> 0, range1 |-> 0]
WideCandle    == [move5 |-> 0, range1 |-> 2]
UneasyCandle  == [move5 |-> 1, range1 |-> 0]

CalmOnly      == {CalmCandle}
CalmOrWide    == {CalmCandle, WideCandle}
AllMovements  == {CalmCandle, WideCandle, UneasyCandle}

FreshOrStale  == {0, 5}
FreshOnly     == {0}
===============================================================================
