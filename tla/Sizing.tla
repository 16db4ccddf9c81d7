-------------------------------- MODULE Sizing --------------------------------
(***************************************************************************)
(* The decimal arithmetic of app/sizing.py.  Volumes, prices and money are *)
(* counted in units small enough to be whole: prices in ticks, volumes in  *)
(* the unit the exchange states its step in.  A contract is the part of    *)
(* ContractInfo the sizing reads: size (contract_size), step               *)
(* (volume_step), min and max (min_volume, max_volume).                    *)
(***************************************************************************)
EXTENDS Integers

(* The largest multiple of step that is at most num / den, as              *)
(* floor_to_step rounds it down; only quotients are ever floored.          *)
FloorToStep(num, den, step) == (num \div (den * step)) * step

Refused == [valid |-> FALSE, contracts |-> 0]

Granted(q) == [valid |-> TRUE, contracts |-> q]

(* Mutant: the quantity is rounded to the nearest step.                    *)
AffordableRounded(price, c, budget) ==
  ((budget + (c.size * price * c.step) \div 2) \div (c.size * price * c.step)) * c.step

(* What the budget, max_margin * leverage, buys at a price.                *)
Affordable(price, c, budget) == FloorToStep(budget, c.size * price, c.step)

(* calculate_quantity; its notional and margin follow from the quantity.   *)
CalculateQuantity(price, c, budget) ==
  LET q == Affordable(price, c, budget)
  IN  CASE q < c.min                -> Refused
        [] q >= c.min /\ q > c.max  -> Granted(FloorToStep(c.max, 1, c.step))
        [] q >= c.min /\ q <= c.max -> Granted(q)

(* The notional the budget has to cover.                                   *)
Notional(q, price, c) == q * c.size * price
===============================================================================
