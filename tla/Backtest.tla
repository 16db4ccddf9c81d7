------------------------------- MODULE Backtest -------------------------------
(***************************************************************************)
(* One variant of a backtest, from the downloaded batch to its figures     *)
(* (run_backtest and _run_variant of app/backtest.py, beside the live      *)
(* monitor that saw the same candles).                                     *)
(*                                                                         *)
(* The stages follow the code: the checks that end in a text without       *)
(* figures, the pass over all candles that finds the setup edges           *)
(* (SignalReplay, which keeps the live side next to it), and the loop that *)
(* opens and closes hypothetical positions, one iteration or one candle    *)
(* scanned a step.  Prices are read when the loop reads them: no candle's  *)
(* open decides two entries, no high or low two positions.                 *)
(***************************************************************************)
EXTENDS SignalReplay, Sizing, FiniteSets

CONSTANTS
  Modes,       (* environment: direction_mode, as the command asked        *)
  Contracts,   (* environment: contract metadata the exchange may answer   *)
  Prices,      (* environment: prices, in ticks                            *)
  Leverage,    (* settings.model_leverage                                  *)
  Margin,      (* settings.max_margin_usdt, in price units of one contract *)
  Slip,        (* settings.backtest_slippage_ticks                         *)
  Unit,        (* the parts of a price TpMove and Expiry are counted in    *)
  TpMove,      (* tp_pct                                                   *)
  Expiry       (* settings.signal_expiry_deviation_pct                     *)

ASSUME BacktestAssumption ==
  /\ TestStart <= LastCandle
  /\ Modes \subseteq Directions \cup {"BOTH"}
  /\ Contracts \subseteq [size : Nat \ {0}, step : Nat \ {0}, min : Nat \ {0},
                          max : Nat \ {0}, maxLeverage : Nat \ {0}, countryLeverage : Nat]
  /\ Slip \in Nat
  /\ Prices \subseteq {p \in Nat : p > Slip}
  /\ Leverage \in Nat \ {0}
  /\ Margin \in Nat \ {0}
  /\ Unit \in Nat \ {0}
  /\ TpMove \in 1 .. Unit - 1
  /\ Expiry \in Nat \ {0}

VARIABLES
  stage,    (* where run_backtest is                                       *)
  contract, (* the metadata, once fetched                                  *)
  mode,     (* direction_mode                                              *)
  edges,    (* the direction of edge_signals at each tested candle         *)
  i,        (* i of the loop of _run_variant                               *)
  j,        (* the candle scanned for a touch, while a position is open    *)
  position, (* the open hypothetical position                              *)
  result,   (* the counters of VariantResult, and the sum of holds         *)
  acted,    (* history: candles whose setup was counted                    *)
  covered   (* history: candles during which a closed position was open    *)

loopVars     == <<i, j, position, result, acted, covered>>
requestVars  == <<contract, mode>>
backtestVars == <<stage, requestVars, edges, loopVars, vars>>

Tested == TestStart .. LastCandle - 1

NoPosition == [direction |-> "NONE", entry |-> 0, contracts |-> 0, target |-> 0]

Counters == {"setups", "longs", "shorts", "rejected", "stale", "touches", "unresolved"}

(* result with the named counters advanced.                                *)
Count(names) == [c \in DOMAIN result |-> IF c \in names THEN result[c] + 1 ELSE result[c]]

BacktestInit ==
  /\ Init
  /\ stage = "download"
  /\ contract \in Contracts
  /\ mode \in Modes
  /\ edges = [k \in Tested |-> "NONE"]
  /\ i = TestStart
  /\ j = TestStart
  /\ position = NoPosition
  /\ result = [c \in Counters \cup {"held"} |-> 0]
  /\ acted = {}
  /\ covered = {}

-------------------------------------------------------------------------------
(* run_backtest before the figures.                                        *)

LeverageAllowed ==
  /\ Leverage <= contract.maxLeverage
  /\ contract.countryLeverage > 0 => Leverage <= contract.countryLeverage

RefuseFigures ==
  /\ stage = "download"
  /\ stage' = "refused"
  /\ UNCHANGED <<requestVars, edges, loopVars, vars>>

(* The batch is incomplete, or the first candle is not in it.              *)
Incomplete == RefuseFigures

(* The modelled leverage is more than the metadata allow.  (Metadata of    *)
(* another symbol never get here: get_contract_info raises.)               *)
Abort == RefuseFigures /\ ~LeverageAllowed

Accept ==
  /\ stage = "download"
  /\ LeverageAllowed
  /\ stage' = "edges"
  /\ UNCHANGED <<requestVars, edges, loopVars, vars>>

(* Pause flag and edge of one more candle; candle index, counted from 0.   *)
FindEdge ==
  /\ stage = "edges"
  /\ NextCandle
  /\ IF index \in Tested
     THEN edges' = [edges EXCEPT ![index] = IF edgeSignal' THEN previousCondition' ELSE "NONE"]
     ELSE UNCHANGED edges
  /\ UNCHANGED <<stage, requestVars, loopVars>>

EdgesFound ==
  /\ stage = "edges"
  /\ index = LastCandle
  /\ stage' = "loop"
  /\ UNCHANGED <<requestVars, edges, loopVars, vars>>

-------------------------------------------------------------------------------
(* The loop of _run_variant: a setup is acted on at the open of the next   *)
(* candle.                                                                 *)

Wanted(direction) == direction # "NONE" /\ mode \in {"BOTH", direction}

AtSetup ==
  /\ stage = "loop"
  /\ position = NoPosition
  /\ i < LastCandle - 1
  /\ Wanted(edges[i])

PassOver ==
  /\ stage = "loop"
  /\ position = NoPosition
  /\ i < LastCandle - 1
  /\ ~Wanted(edges[i])
  /\ i' = i + 1
  /\ UNCHANGED <<stage, requestVars, edges, j, position, result, acted, covered, vars>>

EntryPrice(direction, open) == IF direction = "LONG" THEN open + Slip ELSE open - Slip

Deviates(entry, price) == \/ (entry - price) * Unit > Expiry * price
                          \/ (price - entry) * Unit > Expiry * price

(* The float product entry * (1 +- tp_pct / 100) may come out just below   *)
(* or just above the exact one, which is all that counts when that lies on *)
(* a tick: prices here are thirds of the parts of Unit.                    *)
Products(factor, entry) == {3 * entry * factor + r : r \in {-1, 0, 1}}

(* round_price_to_tick: up for a long position, down for a short one.      *)
Targets(direction, entry) ==
  IF direction = "LONG"
  THEN {-((-product) \div (3 * Unit)) : product \in Products(Unit + TpMove, entry)}
  ELSE {product \div (3 * Unit) : product \in Products(Unit - TpMove, entry)}

RejectAs(reason) ==
  /\ result' = Count({"setups", reason})
  /\ acted' = acted \cup {i}
  /\ i' = i + 1
  /\ UNCHANGED <<stage, requestVars, edges, j, position, covered, vars>>

(* price is the signal's, the close of candle i; open that of candle i + 1. *)
RejectStale(price, open) ==
  /\ AtSetup
  /\ Deviates(EntryPrice(edges[i], open), price)
  /\ RejectAs("stale")

RejectSize(price, open) ==
  LET entry == EntryPrice(edges[i], open) IN
  /\ AtSetup
  /\ ~Deviates(entry, price)
  /\ ~CalculateQuantity(entry, contract, Margin * Leverage).valid
  /\ RejectAs("rejected")

Enter(price, open) ==
  LET entry == EntryPrice(edges[i], open)
      size  == CalculateQuantity(entry, contract, Margin * Leverage)
  IN
  /\ AtSetup
  /\ ~Deviates(entry, price)
  /\ size.valid
  /\ \E target \in Targets(edges[i], entry) :
       position' = [direction |-> edges[i], entry |-> entry,
                    contracts |-> size.contracts, target |-> target]
  /\ result' = Count({"setups", IF edges[i] = "LONG" THEN "longs" ELSE "shorts"})
  /\ acted' = acted \cup {i}
  /\ j' = i + 1
  /\ UNCHANGED <<stage, requestVars, edges, i, covered, vars>>

-------------------------------------------------------------------------------
(* The scan for the candle that touches the target.                        *)

Scanning == stage = "loop" /\ position # NoPosition

(* reach is the candle's high for a long position, its low for a short.    *)
Touches(reach) == \/ position.direction = "LONG" /\ reach >= position.target
                  \/ position.direction = "SHORT" /\ reach <= position.target

(* Mutant: the scan goes a candle too far.                                 *)
ScanOnTooFar(reach) ==
  /\ Scanning
  /\ j <= LastCandle
  /\ ~Touches(reach)
  /\ j' = j + 1
  /\ UNCHANGED <<stage, requestVars, edges, i, position, result, acted, covered, vars>>

ScanOn(reach) ==
  /\ Scanning
  /\ j < LastCandle
  /\ ~Touches(reach)
  /\ j' = j + 1
  /\ UNCHANGED <<stage, requestVars, edges, i, position, result, acted, covered, vars>>

CloseAt(next) ==
  /\ position' = NoPosition
  /\ result' = [Count({"touches"}) EXCEPT !["held"] = @ + (j - i)]
  /\ covered' = covered \cup (i + 1 .. j)
  /\ i' = next
  /\ UNCHANGED <<stage, requestVars, edges, j, acted, vars>>

(* Mutant: the setup of the touching candle itself is acted on.            *)
TouchActingAtOnce(reach) ==
  /\ Scanning
  /\ j < LastCandle
  /\ Touches(reach)
  /\ CloseAt(j)

(* Mutant: the loop goes on with the candle after the signal.              *)
TouchResumingAtEntry(reach) ==
  /\ Scanning
  /\ j < LastCandle
  /\ Touches(reach)
  /\ CloseAt(i + 1)

(* A new setup may be acted on only after the candle of the touch.         *)
Touch(reach) ==
  /\ Scanning
  /\ j < LastCandle
  /\ Touches(reach)
  /\ CloseAt(j + 1)

(* Mutant: the unresolved position is forgotten.                           *)
RunOutUncounted ==
  /\ Scanning
  /\ j = LastCandle
  /\ stage' = "report"
  /\ UNCHANGED <<requestVars, edges, loopVars, vars>>

(* The position stays open, and nothing is entered any more.               *)
RunOut ==
  /\ Scanning
  /\ j = LastCandle
  /\ result' = Count({"unresolved"})
  /\ stage' = "report"
  /\ UNCHANGED <<requestVars, edges, i, j, position, acted, covered, vars>>

LoopEnds ==
  /\ stage = "loop"
  /\ position = NoPosition
  /\ i >= LastCandle - 1
  /\ stage' = "report"
  /\ UNCHANGED <<requestVars, edges, loopVars, vars>>

-------------------------------------------------------------------------------
BacktestNext ==
  \/ Incomplete \/ Abort \/ Accept \/ FindEdge \/ EdgesFound
  \/ PassOver
  \/ \E price, open \in Prices :
       RejectStale(price, open) \/ RejectSize(price, open) \/ Enter(price, open)
  \/ \E reach \in Prices : ScanOn(reach) \/ Touch(reach)
  \/ RunOut \/ LoopEnds

BacktestSpec == BacktestInit /\ [][BacktestNext]_backtestVars

-------------------------------------------------------------------------------
(* Type invariant.                                                         *)
BacktestTypeOK ==
  /\ TypeOK
  /\ stage \in {"download", "refused", "edges", "loop", "report"}
  /\ contract \in Contracts
  /\ mode \in Modes
  /\ edges \in [Tested -> Conditions]
  /\ i \in Nat /\ TestStart <= i
  /\ j \in Nat /\ j <= LastCandle
  /\ position \in [direction : Conditions, entry : Nat, contracts : Nat, target : Int]
  /\ result \in [Counters \cup {"held"} -> Nat]
  /\ acted \subseteq Tested
  /\ covered \subseteq Tested

Open == position # NoPosition

(* The figures add up: every counted setup is an entry or one of the two   *)
(* rejections, and every entry a touch or the one unresolved position      *)
(* (backtest.py:76-129).                                                   *)
FiguresAddUp ==
  /\ result["setups"] = result["longs"] + result["shorts"] + result["stale"] + result["rejected"]
  /\ result["longs"] + result["shorts"] =
       result["touches"] + IF stage = "report" THEN result["unresolved"]
                           ELSE IF Open THEN 1 ELSE 0

(* Two positions are never open at the same candle: the candles held, added *)
(* up over the touches, are as many as the candles during which one was    *)
(* open (backtest.py:103-132).                                             *)
HoldsDisjoint == result["held"] = Cardinality(covered)

(* The candles whose setups the loop is done with.                         *)
Past == {k \in Tested : k < i}

(* Of the edges in the asked direction, each is counted once, or passed    *)
(* over because a position was open, never both: "A new setup may be acted *)
(* on only after the TP candle has completed" (backtest.py:57-58, 131).    *)
EveryEdgeOnce ==
  /\ result["setups"] = Cardinality(acted)
  /\ \A k \in Past : Wanted(edges[k]) => (k \in acted <=> k \notin covered)
  /\ acted \cap covered = {}

Attainable == FloorToStep(contract.max, 1, contract.step) >= contract.min

(* A position is the largest the budget and the contract allow: within the *)
(* margin, a multiple of the step, between the limits (when any multiple   *)
(* is), and a step more would break one of them (sizing.py:18-30).         *)
LargestSize ==
  Open =>
    LET q == position.contracts
        Fits(n) == n <= contract.max /\ Notional(n, position.entry, contract) <= Margin * Leverage
    IN  /\ Fits(q)
        /\ ~Fits(q + contract.step)
        /\ q % contract.step = 0
        /\ Attainable => q >= contract.min
===============================================================================
