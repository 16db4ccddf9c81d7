------------------------------- MODULE Strategy -------------------------------
(***************************************************************************)
(* The setup rule and its indicators (app/strategy.py, app/indicators.py)  *)
(* over a series of closes that grows by one a minute.  The live monitor   *)
(* evaluates the last Window closes it downloads; a backtest computes the  *)
(* indicators of the whole series once and asks signal_at.                 *)
(*                                                                         *)
(* Indicators are exact fractions where the code has floats: what happens  *)
(* when two of them are equal but for rounding is not modelled.            *)
(***************************************************************************)
EXTENDS Integers, Sequences, FiniteSetsExt

CONSTANTS
  Fast, Mid, Slow, (* settings.ema_fast, ema_mid, ema_slow                 *)
  RsiPeriod,       (* settings.live_rsi_period                             *)
  Upper, Lower,    (* the RSI thresholds                                   *)
  Window,          (* settings.warmup_candles                              *)
  Top,             (* bound: closes are prices from 1 to Top               *)
  MaxCloses        (* bound: length of the series                          *)

ASSUME StrategyAssumption ==
  /\ Fast \in Nat /\ 2 <= Fast
  /\ Mid \in Nat /\ Fast < Mid
  /\ Slow \in Nat /\ Mid < Slow
  /\ RsiPeriod \in Nat /\ 2 <= RsiPeriod
  /\ Lower \in 1 .. 99 /\ Upper \in Lower + 1 .. 99
  /\ Window \in Nat \ {0}
  /\ Top \in Nat \ {0}
  /\ MaxCloses \in Nat

VARIABLES
  closes,  (* the closes so far                                            *)
  verdicts (* what evaluate said of each when it was the last              *)

vars == <<closes, verdicts>>

-------------------------------------------------------------------------------
(* Fractions; None has no denominator.                                     *)
None == [num |-> 0, den |-> 0]

Whole(n)    == [num |-> n, den |-> 1]
Above(x, y) == x.num * y.den > y.num * x.den

Larger(m, n) == IF m > n THEN m ELSE n

(* The sum of the first n.                                                 *)
Total(values, n) ==
  LET sum[k \in 0 .. n] == IF k = 0 THEN 0 ELSE sum[k - 1] + values[k]
  IN  sum[n]

EmaSeed(values, period) == [num |-> Total(values, period), den |-> period]

(* Mutant: the weights of the close and of the average add up to more than *)
(* one.                                                                    *)
EmaStepHeavy(value, period, previous) ==
  [num |-> 2 * value * previous.den + period * previous.num,
   den |-> (period + 1) * previous.den]

(* Mutant: alpha = 1 / (period + 1).                                       *)
EmaStepSlow(value, period, previous) ==
  [num |-> value * previous.den + period * previous.num,
   den |-> (period + 1) * previous.den]

(* value * alpha + previous * (1 - alpha), alpha = 2 / (period + 1).       *)
EmaStep(value, period, previous) ==
  [num |-> 2 * value * previous.den + (period - 1) * previous.num,
   den |-> (period + 1) * previous.den]

(* Entry k of the list ema returns, at index k - 1 there.                  *)
Ema(values, period) ==
  LET e[k \in 1 .. Len(values)] ==
        IF k < period THEN None
        ELSE IF k = period THEN EmaSeed(values, period)
        ELSE EmaStep(values[k], period, e[k - 1])
  IN  e

Gain(values, k) == Larger(values[k] - values[k - 1], 0)
Loss(values, k) == Larger(values[k - 1] - values[k], 0)

(* Average gain and loss over the changes, as fractions of unit.           *)
Averages(values, period) ==
  LET a[k \in period + 1 .. Len(values)] ==
        IF k = period + 1
        THEN [gain |-> Total([m \in 1 .. period |-> Gain(values, m + 1)], period),
              loss |-> Total([m \in 1 .. period |-> Loss(values, m + 1)], period),
              unit |-> period]
        ELSE LET before == a[k - 1]
             IN  [gain |-> before.gain * (period - 1) + Gain(values, k) * before.unit,
                  loss |-> before.loss * (period - 1) + Loss(values, k) * before.unit,
                  unit |-> before.unit * period]
  IN  a

(* 100 - 100 / (1 + gain / loss), and what it is without losses.           *)
RsiValue(a) ==
  IF a.loss = 0 THEN Whole(IF a.gain > 0 THEN 100 ELSE 50)
  ELSE [num |-> 100 * a.gain, den |-> a.gain + a.loss]

Rsi(values, period) ==
  LET a == Averages(values, period)
  IN  [k \in 1 .. Len(values) |-> IF k <= period THEN None ELSE RsiValue(a[k])]

-------------------------------------------------------------------------------
(* The rule, which evaluate and signal_at spell out each for itself.       *)

Rising(price, fast, mid, slow) ==
  /\ Above(fast, mid) /\ Above(mid, slow)
  /\ Above(price, fast) /\ Above(price, mid) /\ Above(price, slow)

Falling(price, fast, mid, slow) ==
  /\ Above(mid, fast) /\ Above(slow, mid)
  /\ Above(fast, price) /\ Above(mid, price) /\ Above(slow, price)

(* Mutant: momentum is not asked to grow.                                  *)
DirectionWithoutMomentum(price, fast, mid, slow, now, before) ==
  IF None \in {fast, mid, slow, now, before} THEN "NONE"
  ELSE CASE Rising(price, fast, mid, slow) /\ ~Above(Whole(Upper), now) -> "LONG"
         [] Falling(price, fast, mid, slow) /\ ~Above(now, Whole(Lower)) -> "SHORT"
         [] OTHER -> "NONE"

(* Mutant: the lower threshold has to be crossed, the upper one met.       *)
DirectionUneven(price, fast, mid, slow, now, before) ==
  IF None \in {fast, mid, slow, now, before} THEN "NONE"
  ELSE CASE /\ Rising(price, fast, mid, slow)
            /\ ~Above(Whole(Upper), now) /\ Above(now, before)   -> "LONG"
         [] /\ Falling(price, fast, mid, slow)
            /\ Above(Whole(Lower), now) /\ Above(before, now)    -> "SHORT"
         [] OTHER -> "NONE"

(* What evaluate makes of the values it needs.                             *)
Direction(price, fast, mid, slow, now, before) ==
  IF None \in {fast, mid, slow, now, before} THEN "NONE"
  ELSE CASE /\ Rising(price, fast, mid, slow)
            /\ ~Above(Whole(Upper), now) /\ Above(now, before)   -> "LONG"
         [] /\ Falling(price, fast, mid, slow)
            /\ ~Above(now, Whole(Lower)) /\ Above(before, now)   -> "SHORT"
         [] OTHER -> "NONE"

Evaluate(values) ==
  LET n == Len(values)
      rsi == Rsi(values, RsiPeriod)
  IN  IF n < Larger(Slow, RsiPeriod + 2) THEN "NONE"
      ELSE Direction(Whole(values[n]), Ema(values, Fast)[n], Ema(values, Mid)[n],
                     Ema(values, Slow)[n], rsi[n], rsi[n - 1])

(* Mutant: the second text asks for the threshold to be crossed.           *)
DirectionAtCrossing(price, fast, mid, slow, current, previous) ==
  IF None \in {fast, mid, slow, current, previous} THEN "NONE"
  ELSE CASE /\ Above(fast, mid) /\ Above(mid, slow)
            /\ Above(price, fast) /\ Above(price, mid) /\ Above(price, slow)
            /\ Above(current, Whole(Upper)) /\ Above(current, previous)  -> "LONG"
         [] /\ Above(mid, fast) /\ Above(slow, mid)
            /\ Above(fast, price) /\ Above(mid, price) /\ Above(slow, price)
            /\ Above(Whole(Lower), current) /\ Above(previous, current)  -> "SHORT"
         [] OTHER -> "NONE"

(* What signal_at makes of the values it looks up.                         *)
DirectionAt(price, fast, mid, slow, current, previous) ==
  IF None \in {fast, mid, slow, current, previous} THEN "NONE"
  ELSE CASE /\ Above(fast, mid) /\ Above(mid, slow)
            /\ Above(price, fast) /\ Above(price, mid) /\ Above(price, slow)
            /\ ~Above(Whole(Upper), current) /\ Above(current, previous) -> "LONG"
         [] /\ Above(mid, fast) /\ Above(slow, mid)
            /\ Above(fast, price) /\ Above(mid, price) /\ Above(slow, price)
            /\ ~Above(current, Whole(Lower)) /\ Above(previous, current) -> "SHORT"
         [] OTHER -> "NONE"

(* signal_at index k - 1, given the indicators of the whole series.        *)
SignalAt(values, k) ==
  LET rsi == Rsi(values, RsiPeriod)
  IN  IF k = 1 THEN "NONE"
      ELSE DirectionAt(Whole(values[k]), Ema(values, Fast)[k], Ema(values, Mid)[k],
                       Ema(values, Slow)[k], rsi[k], rsi[k - 1])

-------------------------------------------------------------------------------
Init == closes = <<>> /\ verdicts = <<>>

LastOf(s, n) == SubSeq(s, Larger(1, Len(s) - n + 1), Len(s))

(* Mutant: only setups are recorded.                                       *)
CloseRecordingSetups(price) ==
  LET verdict == Evaluate(LastOf(Append(closes, price), Window)) IN
  /\ Len(closes) < MaxCloses
  /\ closes' = Append(closes, price)
  /\ verdicts' = IF verdict = "NONE" THEN verdicts ELSE Append(verdicts, verdict)

Close(price) ==
  /\ Len(closes) < MaxCloses
  /\ closes' = Append(closes, price)
  /\ verdicts' = Append(verdicts, Evaluate(LastOf(closes', Window)))

Next == \E price \in 1 .. Top : Close(price)

Spec == Init /\ [][Next]_vars

-------------------------------------------------------------------------------
(* Type invariant.                                                         *)
TypeOK ==
  /\ closes \in Seq(1 .. Top)
  /\ verdicts \in Seq({"LONG", "SHORT", "NONE"})
  /\ Len(closes) = Len(verdicts)

(* No look-ahead, and the two texts of the rule agree: asked about any     *)
(* candle, signal_at says from the indicators of the whole series what     *)
(* evaluate says when it is given that candle and those before it, the     *)
(* early return included (strategy.py:21-47, 66-82).                       *)
SameRule ==
  \A k \in 1 .. Len(closes) : SignalAt(closes, k) = Evaluate(SubSeq(closes, 1, k))

(* What a distance shrinks to in so many steps of an average.              *)
Faded(distance, period, steps) ==
  LET d[k \in 0 .. steps] ==
        IF k = 0 THEN Whole(distance)
        ELSE [num |-> (period - 1) * d[k - 1].num, den |-> (period + 1) * d[k - 1].den]
  IN  d[steps]

Apart(x, y) == [num |-> x.num * y.den - y.num * x.den, den |-> x.den * y.den]

(* The live monitor seeds its averages with the first closes of its        *)
(* window, a backtest with the first of the series (monitor.py:29-35,      *)
(* backtest.py:208-211): beyond the window, that is on every tested        *)
(* candle, the seeds are not the same.  What is left of it in an average   *)
(* is no more than the spread of the prices, shrunk by (period - 1) /      *)
(* (period + 1) for every candle of the window after the seed              *)
(* (indicators.py:13-19).                                                  *)
SeedsFade ==
  LET window == LastOf(closes, Window)
      n      == Len(window)
  IN  \A period \in {Fast, Mid, Slow} :
        n >= period =>
          LET live   == Ema(window, period)[n]
              replay == Ema(closes, period)[Len(closes)]
              bound  == Faded(Top - 1, period, n - period)
          IN  ~Above(Apart(live, replay), bound) /\ ~Above(Apart(replay, live), bound)

Between(x, low, high) == ~Above(Whole(low), x) /\ ~Above(x, Whole(high))

(* An average is there from its period on and lies between the lowest and  *)
(* the highest close so far; the RSI is there one later and lies between 0 *)
(* and 100 (indicators.py:6-54).                                           *)
IndicatorsInRange ==
  \A k \in 1 .. Len(closes) :
    LET past == {closes[m] : m \in 1 .. k} IN
    /\ \A period \in {Fast, Mid, Slow} :
         LET e == Ema(closes, period)[k] IN
         /\ e # None <=> k >= period
         /\ e # None => Between(e, Min(past), Max(past))
    /\ LET r == Rsi(closes, RsiPeriod)[k] IN
         /\ r # None <=> k > RsiPeriod
         /\ r # None => Between(r, 0, 100)

(* A long setup is never found on a candle that closed lower than the one  *)
(* before, a short one never on one that closed higher: the growing RSI    *)
(* excludes it, whatever the averages say (strategy.py:39-43).  An         *)
(* unchanged close is not claimed: there the float updates of the two      *)
(* averages decide by their rounding (indicators.py:51-53).                *)
SetupsFollowTheClose ==
  \A k \in 1 .. Len(closes) :
    /\ verdicts[k] = "LONG"  => closes[k] >= closes[k - 1]
    /\ verdicts[k] = "SHORT" => closes[k] <= closes[k - 1]

Opposite(direction) ==
  CASE direction = "LONG"  -> "SHORT"
    [] direction = "SHORT" -> "LONG"
    [] direction = "NONE"  -> "NONE"

(* "SHORT is the inverse" (README.md:32): with thresholds that mirror each *)
(* other, the mirror image of a series has the inverse setups.             *)
ShortIsInverse ==
  Upper + Lower = 100 =>
    \A k \in 1 .. Len(closes) :
      k <= Window =>
        Evaluate([m \in 1 .. k |-> Top + 1 - closes[m]]) = Opposite(verdicts[k])
===============================================================================
