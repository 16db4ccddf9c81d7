---------------------------- MODULE BacktestProofs ----------------------------
(***************************************************************************)
(* A backtest for every value of the constants: every batch, contract,     *)
(* price and direction mode.                                               *)
(***************************************************************************)
EXTENDS Backtest, SignalReplayProofs, FiniteSetTheorems

(* The steps after the edges are found, one iteration or one scanned       *)
(* candle each.                                                            *)
LoopStep ==
  \/ PassOver
  \/ \E price, open \in Prices :
       RejectStale(price, open) \/ RejectSize(price, open) \/ Enter(price, open)
  \/ \E reach \in Prices : ScanOn(reach) \/ Touch(reach)
  \/ RunOut \/ LoopEnds

(* The steps before and between, which change nothing but the stage.       *)
StageStep ==
  /\ stage \in {"download", "edges"}
  /\ stage' \in {"refused", "edges", "loop"}
  /\ UNCHANGED <<requestVars, edges, loopVars, vars>>

LEMMA Steps ==
  BacktestNext =>
    \/ StageStep
    \/ FindEdge
    \/ stage = "loop" /\ LoopStep /\ UNCHANGED <<requestVars, edges, vars>>
<1> SUFFICES ASSUME BacktestNext
             PROVE  \/ StageStep \/ FindEdge
                    \/ stage = "loop" /\ LoopStep /\ UNCHANGED <<requestVars, edges, vars>>
  OBVIOUS
<1>1. CASE Incomplete \/ Abort \/ Accept \/ EdgesFound
  BY <1>1 DEF Incomplete, Abort, RefuseFigures, Accept, EdgesFound, StageStep
<1>2. CASE LoopStep
  BY <1>2 DEF LoopStep, PassOver, AtSetup, RejectStale, RejectSize, RejectAs, Enter,
              Scanning, ScanOn, Touch, CloseAt, RunOut, LoopEnds, loopVars
<1>3. QED
  BY <1>1, <1>2 DEF BacktestNext, LoopStep

(* The backtest contains the replay of SignalReplay: its pauses, its edges *)
(* and what is proved of them.                                             *)
THEOREM ReplaysLive == BacktestSpec => Spec
<1>1. BacktestInit => Init
  BY DEF BacktestInit
<1>2. [BacktestNext]_backtestVars => [NextCandle]_vars
  BY Steps DEF StageStep, FindEdge, backtestVars
<1>3. QED
  BY <1>1, <1>2, PTL DEF BacktestSpec, Spec

-------------------------------------------------------------------------------
(* Arithmetic.                                                             *)

LEMMA Division ==
  ASSUME NEW a \in Int, NEW b \in Nat \ {0}
  PROVE  /\ a \div b \in Int
         /\ (a \div b) * b <= a
         /\ a < (a \div b + 1) * b
BY SMT

LEMMA Positive == \A a, b \in Nat \ {0} : a * b \in Nat \ {0}
OBVIOUS

(* What is left of a number counted in steps.                              *)
LEMMA Floored ==
  ASSUME NEW num \in Nat, NEW den \in Nat \ {0}, NEW step \in Nat \ {0}
  PROVE  \E k \in Nat :
           /\ FloorToStep(num, den, step) = k * step
           /\ k * (den * step) <= num
           /\ num < (k + 1) * (den * step)
<1>1. den * step \in Nat \ {0}
  BY Positive
<1> DEFINE d == den * step
           k == num \div d
<1>2. k \in Int /\ k * d <= num /\ num < (k + 1) * d
  <2>1. num \in Int /\ d \in Nat \ {0}
    BY <1>1
  <2> HIDE DEF d
  <2>2. QED
    BY <2>1, Division
<1>3. k >= 0
  <2> HIDE DEF k, d
  <2>1. d \in Nat \ {0}
    BY <1>1 DEF d
  <2>2. SUFFICES ASSUME k <= -1 PROVE FALSE
    BY <1>2
  <2>3. (k + 1) * d <= 0
    BY <1>2, <2>1, <2>2
  <2>4. QED
    BY <1>2, <2>1, <2>3
<1>4. FloorToStep(num, den, step) = k * step
  BY DEF FloorToStep
<1>5. QED
  BY <1>2, <1>3, <1>4

-------------------------------------------------------------------------------
(* Types.                                                                  *)

Sized(p) ==
  /\ p.entry \in Nat \ {0}
  /\ CalculateQuantity(p.entry, contract, Margin * Leverage) =
       [valid |-> TRUE, contracts |-> p.contracts]
  /\ p.target \in Targets(p.direction, p.entry)
  /\ p.direction \in Directions

ContractTyped ==
  /\ contract.size \in Nat \ {0}
  /\ contract.step \in Nat \ {0}
  /\ contract.min \in Nat \ {0}
  /\ contract.max \in Nat \ {0}

LEMMA ContractType == contract \in Contracts => ContractTyped
BY BacktestAssumption DEF BacktestAssumption, ContractTyped

LEMMA FlooredTyped ==
  ASSUME NEW num \in Nat, NEW den \in Nat \ {0}, NEW step \in Nat \ {0}
  PROVE  FloorToStep(num, den, step) \in Nat
<1>1. PICK k \in Nat : FloorToStep(num, den, step) = k * step
  BY Floored
<1>2. k * step \in Nat
  OBVIOUS
<1>3. QED
  BY <1>1, <1>2

LEMMA QuantityTyped ==
  ASSUME ContractTyped, NEW price \in Nat \ {0}
  PROVE  CalculateQuantity(price, contract, Margin * Leverage) \in
           [valid : BOOLEAN, contracts : Nat]
<1> USE DEF ContractTyped
<1>1. Margin * Leverage \in Nat /\ contract.size * price \in Nat \ {0}
  BY Positive, BacktestAssumption DEF BacktestAssumption
<1>2. Affordable(price, contract, Margin * Leverage) \in Nat
  <2>1. Margin * Leverage \in Nat /\ contract.step \in Nat \ {0}
    BY <1>1
  <2>2. QED
    BY <1>1, <2>1, FlooredTyped DEF Affordable
<1>3. FloorToStep(contract.max, 1, contract.step) \in Nat
  <2>1. contract.max \in Nat /\ 1 \in Nat \ {0} /\ contract.step \in Nat \ {0}
    OBVIOUS
  <2>2. QED
    BY <2>1, FlooredTyped
<1>4. QED
  BY <1>2, <1>3 DEF CalculateQuantity, Refused, Granted

LEMMA TargetTyped ==
  ASSUME NEW direction, NEW entry \in Nat, NEW t \in Targets(direction, entry)
  PROVE  t \in Int
<1>1. 3 * Unit \in Nat \ {0} /\ Unit \in Int /\ TpMove \in Int
  BY BacktestAssumption DEF BacktestAssumption
<1>2. \A factor \in Int : Products(factor, entry) \subseteq Int
  <2>1. SUFFICES ASSUME NEW factor \in Int, NEW r \in {-1, 0, 1}
                 PROVE  3 * entry * factor + r \in Int
    BY DEF Products
  <2>2. 3 * entry * factor \in Int
    OBVIOUS
  <2>3. QED
    BY <2>2
<1>3. Products(Unit + TpMove, entry) \subseteq Int /\ Products(Unit - TpMove, entry) \subseteq Int
  BY <1>1, <1>2
<1> DEFINE d == 3 * Unit
<1>4. \A a \in Int : a \div d \in Int /\ -((-a) \div d) \in Int
  <2> HIDE DEF d
  <2>1. d \in Nat \ {0}
    BY <1>1 DEF d
  <2>2. QED
    BY <2>1, Division
<1>5. QED
  BY <1>3, <1>4 DEF Targets

(* Where the loop is: i is the candle it decides or the one that signalled *)
(* the open position, and everything before it is behind it.               *)
Placed ==
  /\ stage \notin {"loop", "report"} =>
       i = TestStart /\ position = NoPosition /\ acted = {} /\ covered = {}
  /\ Open => i < j /\ i < LastCandle - 1 /\ i \in acted
  /\ \A k \in acted : k < i \/ (k = i /\ Open)
  /\ \A k \in covered : k < i

LEMMA CountTyped ==
  ASSUME result \in [Counters \cup {"held"} -> Nat], NEW names
  PROVE  Count(names) \in [Counters \cup {"held"} -> Nat]
BY DEF Count

LEMMA CountAt ==
  ASSUME result \in [Counters \cup {"held"} -> Nat], NEW names,
         NEW c \in Counters \cup {"held"}
  PROVE  Count(names)[c] = IF c \in names THEN result[c] + 1 ELSE result[c]
BY DEF Count

(* Where a setup is acted on, and what a position is that is entered.      *)
LEMMA SetupTyped ==
  ASSUME BacktestTypeOK, AtSetup
  PROVE  i \in Tested /\ edges[i] \in Directions
BY BacktestAssumption, ReplayAssumption
DEF BacktestAssumption, ReplayAssumption, BacktestTypeOK, AtSetup, Wanted, Tested, Conditions

LEMMA EntryTyped ==
  ASSUME NEW open \in Prices, NEW direction \in Directions
  PROVE  EntryPrice(direction, open) \in Nat \ {0}
BY BacktestAssumption DEF BacktestAssumption, EntryPrice, Directions

LEMMA EnterSized ==
  ASSUME BacktestTypeOK, NEW price \in Prices, NEW open \in Prices, Enter(price, open)
  PROVE  /\ Sized(position') /\ position'.direction = edges[i]
         /\ position' \in [direction : Conditions, entry : Nat, contracts : Nat, target : Int]
         /\ position' # NoPosition
<1> DEFINE entry == EntryPrice(edges[i], open)
           size  == CalculateQuantity(entry, contract, Margin * Leverage)
<1>1. edges[i] \in Directions
  BY SetupTyped DEF Enter
<1>2. entry \in Nat \ {0}
  BY <1>1, EntryTyped
<1>3. ContractTyped
  BY ContractType DEF BacktestTypeOK
<1> HIDE DEF entry
<1>4. size \in [valid : BOOLEAN, contracts : Nat]
  BY <1>2, <1>3, QuantityTyped
<1>5. size.valid => size = [valid |-> TRUE, contracts |-> size.contracts]
  <2> HIDE DEF size
  <2>1. QED
    BY <1>4
<1>6. PICK target \in Targets(edges[i], entry) :
        position' = [direction |-> edges[i], entry |-> entry,
                     contracts |-> size.contracts, target |-> target]
  BY DEF Enter, entry
<1>7. target \in Int
  BY <1>2, <1>6, TargetTyped
<1>8. size.valid
  BY DEF Enter, entry
<1> HIDE DEF size
<1>9. size = CalculateQuantity(entry, contract, Margin * Leverage)
  BY DEF size
<1>10. QED
  BY <1>1, <1>2, <1>4, <1>5, <1>6, <1>7, <1>8, <1>9
     DEF Sized, NoPosition, Directions, Conditions

PositionSized == Open => Sized(position)

Located == BacktestTypeOK /\ Placed /\ PositionSized

LEMMA LoopFrame ==
  ASSUME BacktestTypeOK, UNCHANGED <<requestVars, edges, vars>>
  PROVE  /\ TypeOK' /\ contract' \in Contracts /\ mode' \in Modes
         /\ edges' \in [Tested -> Conditions]
BY DEF BacktestTypeOK, TypeOK, requestVars, vars, liveVars, replayVars, meeting

LEMMA LoopLocated ==
  ASSUME Located, stage = "loop", LoopStep, UNCHANGED <<requestVars, edges, vars>>
  PROVE  Located'
<1> USE DEF Located
<1>1. /\ TypeOK' /\ contract' \in Contracts /\ mode' \in Modes
      /\ edges' \in [Tested -> Conditions]
  BY LoopFrame
<1>2. TestStart \in Nat \ {0} /\ LastCandle \in Nat
  BY ReplayAssumption DEF ReplayAssumption
<1>3. contract' = contract /\ (PositionSized /\ position' = position => PositionSized')
  BY DEF requestVars, PositionSized, Open, Sized
<1>4. CASE PassOver
  <2>1. /\ i' = i + 1 /\ position = NoPosition /\ stage = "loop"
        /\ UNCHANGED <<stage, j, position, result, acted, covered>>
    BY <1>4 DEF PassOver
  <2>2. i' \in Nat /\ TestStart <= i' /\ i < i'
    BY <1>2, <2>1 DEF BacktestTypeOK
  <2>3. BacktestTypeOK'
    BY <1>1, <2>1, <2>2 DEF BacktestTypeOK
  <2>4. Placed'
    <3>1. \A k \in acted \cup covered : k \in Nat
      BY <1>2 DEF BacktestTypeOK, Tested
    <3>2. QED
      BY <2>1, <2>2, <3>1 DEF Placed, Open, BacktestTypeOK
  <2>5. QED
    BY <1>3, <2>1, <2>3, <2>4
<1>5. ASSUME NEW price \in Prices, NEW open \in Prices,
             RejectStale(price, open) \/ RejectSize(price, open)
      PROVE  Located'
  <2>1. AtSetup /\ \E reason : RejectAs(reason)
    BY <1>5 DEF RejectStale, RejectSize
  <2>2. PICK reason : RejectAs(reason)
    BY <2>1
  <2>3. i \in Tested
    BY <2>1, SetupTyped
  <2>4. result' \in [Counters \cup {"held"} -> Nat]
    BY <2>2, CountTyped DEF RejectAs, BacktestTypeOK
  <2>5. /\ i' = i + 1 /\ acted' = acted \cup {i}
        /\ position = NoPosition /\ stage = "loop"
        /\ UNCHANGED <<stage, j, position, covered>>
    BY <2>1, <2>2 DEF RejectAs, AtSetup
  <2>6. i' \in Nat /\ TestStart <= i' /\ i < i'
    BY <1>2, <2>5 DEF BacktestTypeOK
  <2>7. BacktestTypeOK'
    BY <1>1, <2>3, <2>4, <2>5, <2>6 DEF BacktestTypeOK
  <2>8. Placed'
    <3>1. \A k \in acted \cup covered : k \in Nat
      BY <1>2 DEF BacktestTypeOK, Tested
    <3>2. QED
      BY <2>5, <2>6, <3>1 DEF Placed, Open, BacktestTypeOK
  <2>9. QED
    BY <1>3, <2>5, <2>7, <2>8
<1>6. ASSUME NEW price \in Prices, NEW open \in Prices, Enter(price, open)
      PROVE  Located'
  <2>1. /\ Sized(position')
        /\ position' \in [direction : Conditions, entry : Nat, contracts : Nat, target : Int]
        /\ position' # NoPosition
    BY <1>6, EnterSized
  <2>2. i \in Tested /\ AtSetup
    BY <1>6, SetupTyped DEF Enter
  <2>3. result' \in [Counters \cup {"held"} -> Nat]
    BY <1>6, CountTyped DEF Enter, BacktestTypeOK
  <2>4. /\ acted' = acted \cup {i} /\ j' = i + 1
        /\ UNCHANGED <<stage, i, covered>>
    BY <1>6 DEF Enter
  <2>5. BacktestTypeOK'
    BY <1>1, <1>2, <2>1, <2>2, <2>3, <2>4 DEF BacktestTypeOK, AtSetup
  <2>6. Placed'
    BY <1>2, <2>1, <2>2, <2>4 DEF BacktestTypeOK, Placed, Open, AtSetup
  <2>7. PositionSized'
    BY <1>3, <2>1 DEF PositionSized, Sized
  <2>8. QED
    BY <2>5, <2>6, <2>7
<1>7. ASSUME NEW reach \in Prices, ScanOn(reach) PROVE Located'
  BY <1>1, <1>2, <1>3, <1>7
  DEF ScanOn, Scanning, BacktestTypeOK, Placed, Open
<1>8. ASSUME NEW reach \in Prices, Touch(reach) PROVE Located'
  <2>1. Open /\ j < LastCandle /\ CloseAt(j + 1)
    BY <1>8 DEF Touch, Scanning, Open
  <2>2. i \in Nat /\ TestStart <= i /\ j \in Nat /\ i < j
    BY <2>1 DEF Placed, BacktestTypeOK
  <2>3. i + 1 .. j \subseteq Tested /\ i + 1 .. j \subseteq {k \in Nat : k < j + 1}
    BY <1>2, <2>1, <2>2 DEF Tested
  <2>4. result' \in [Counters \cup {"held"} -> Nat]
    <3>1. result' = [Count({"touches"}) EXCEPT !["held"] = @ + (j - i)]
      BY <2>1 DEF CloseAt
    <3>2. Count({"touches"}) \in [Counters \cup {"held"} -> Nat]
      BY CountTyped DEF BacktestTypeOK
    <3>3. QED
      BY <2>2, <3>1, <3>2
  <2>5. /\ position' = NoPosition /\ i' = j + 1
        /\ covered' = covered \cup (i + 1 .. j)
        /\ UNCHANGED <<stage, acted, j>>
    BY <2>1 DEF CloseAt
  <2>6. NoPosition \in [direction : Conditions, entry : Nat, contracts : Nat, target : Int]
    BY DEF NoPosition, Conditions
  <2>7. BacktestTypeOK'
    BY <1>1, <1>2, <2>2, <2>3, <2>4, <2>5, <2>6 DEF BacktestTypeOK
  <2>8. Placed'
    BY <1>2, <2>1, <2>2, <2>3, <2>5 DEF Placed, Open, BacktestTypeOK, Tested
  <2>9. PositionSized'
    BY <2>5 DEF PositionSized, Open
  <2>10. QED
    BY <2>7, <2>8, <2>9
<1>9. CASE RunOut
  <2>1. result' \in [Counters \cup {"held"} -> Nat]
    BY <1>9, CountTyped DEF RunOut, BacktestTypeOK
  <2>2. QED
    BY <1>1, <1>2, <1>3, <1>9, <2>1 DEF RunOut, BacktestTypeOK, Placed, Open
<1>10. CASE LoopEnds
  BY <1>1, <1>2, <1>3, <1>10 DEF LoopEnds, loopVars, BacktestTypeOK, Placed, Open
<1>11. QED
  BY <1>4, <1>5, <1>6, <1>7, <1>8, <1>9, <1>10 DEF LoopStep

(* What becomes of edges when a candle is replayed.                        *)
LEMMA EdgeFound ==
  ASSUME TypeOK, TypeOK', BacktestTypeOK, FindEdge
  PROVE  /\ edges' \in [Tested -> Conditions]
         /\ \A k \in Tested : k # index => edges'[k] = edges[k]
         /\ index \in Tested =>
              edges'[index] = IF edgeSignal' THEN previousCondition' ELSE "NONE"
         /\ stage = "edges" /\ NextCandle
         /\ UNCHANGED <<stage, requestVars, loopVars>>
<1>1. "NONE" \in Conditions /\ previousCondition' \in Conditions
  BY DEF Conditions, TypeOK
<1>2. edges \in [Tested -> Conditions]
  BY DEF BacktestTypeOK
<1>3. CASE index \in Tested
  BY <1>1, <1>2, <1>3 DEF FindEdge
<1>4. CASE index \notin Tested
  BY <1>2, <1>4 DEF FindEdge
<1>5. QED
  BY <1>3, <1>4

LEMMA LocatedStep == TypeOK' /\ Located /\ [BacktestNext]_backtestVars => Located'
<1> SUFFICES ASSUME TypeOK', Located, [BacktestNext]_backtestVars PROVE Located'
  OBVIOUS
<1>1. CASE UNCHANGED backtestVars
  BY <1>1 DEF backtestVars, requestVars, loopVars, vars, Located, BacktestTypeOK, Placed,
              PositionSized, Open, Sized
<1>2. CASE StageStep
  BY <1>2 DEF StageStep, requestVars, loopVars, vars, Located, BacktestTypeOK, Placed,
              PositionSized, Open, Sized
<1>3. CASE FindEdge
  <2>1. TypeOK /\ BacktestTypeOK
    BY DEF Located, BacktestTypeOK
  <2>2. /\ edges' \in [Tested -> Conditions]
        /\ stage = "edges" /\ UNCHANGED <<stage, requestVars, loopVars>>
    BY <1>3, <2>1, EdgeFound
  <2>3. BacktestTypeOK'
    BY <2>1, <2>2 DEF BacktestTypeOK, requestVars, loopVars
  <2>4. Placed' /\ PositionSized'
    BY <2>2 DEF requestVars, loopVars, Located, Placed, PositionSized, Open, Sized
  <2>5. QED
    BY <2>3, <2>4 DEF Located
<1>4. QED
  BY <1>1, <1>2, <1>3, Steps, LoopLocated

LEMMA LocatedInit == BacktestInit => Located
<1> SUFFICES ASSUME BacktestInit PROVE Located
  OBVIOUS
<1>1. TypeOK
  BY TypeInit DEF BacktestInit
<1>2. BacktestTypeOK
  BY <1>1, ReplayAssumption, BacktestAssumption
  DEF ReplayAssumption, BacktestAssumption, BacktestInit, BacktestTypeOK, NoPosition, Conditions
<1>3. QED
  BY <1>2 DEF BacktestInit, Located, Placed, PositionSized, Open

LEMMA LocatedInvariant == BacktestSpec => []Located
<1>1. QED
  BY LocatedInit, LocatedStep, ReplaysLive, TypeCorrect, PTL DEF BacktestSpec

(* For every batch, contract and mode a backtest keeps its types: the loop *)
(* acts on tested candles only, and no index leaves the batch.             *)
THEOREM BacktestTypeCorrect == BacktestSpec => []BacktestTypeOK
<1>1. Located => BacktestTypeOK
  BY DEF Located
<1>2. QED
  BY <1>1, LocatedInvariant, PTL

-------------------------------------------------------------------------------
(* Sizes.                                                                  *)

LEMMA FlooredWhole ==
  ASSUME NEW num \in Nat, NEW step \in Nat \ {0}
  PROVE  \E m \in Nat : /\ FloorToStep(num, 1, step) = m * step
                       /\ m * step <= num /\ num < (m + 1) * step
<1> DEFINE one == 1
<1>1. one \in Nat \ {0} /\ one * step = step
  OBVIOUS
<1> HIDE DEF one
<1>2. PICK m \in Nat : /\ FloorToStep(num, one, step) = m * step
                       /\ m * (one * step) <= num /\ num < (m + 1) * (one * step)
  BY <1>1, Floored
<1>3. QED
  BY <1>1, <1>2 DEF one

(* q is the largest multiple of the step that both limits allow.           *)
LEMMA LargestOfSteps ==
  ASSUME ContractTyped, NEW price \in Nat \ {0}, NEW budget \in Nat,
         CalculateQuantity(price, contract, budget).valid,
         NEW q, q = CalculateQuantity(price, contract, budget).contracts
  PROVE  /\ q <= contract.max /\ Notional(q, price, contract) <= budget
         /\ \/ q + contract.step > contract.max
            \/ Notional(q + contract.step, price, contract) > budget
         /\ q % contract.step = 0
         /\ Attainable => q >= contract.min
<1> USE DEF ContractTyped
<1> DEFINE step == contract.step
           d    == contract.size * price
<1>1. step \in Nat \ {0} /\ d \in Nat \ {0} /\ contract.max \in Nat /\ contract.min \in Nat
  BY Positive
<1>2. \A n \in Int : Notional(n, price, contract) = n * d
  BY <1>1 DEF Notional
<1> HIDE DEF step, d
<1>3. PICK k \in Nat : /\ FloorToStep(budget, d, step) = k * step
                       /\ k * (d * step) <= budget /\ budget < (k + 1) * (d * step)
  BY <1>1, Floored
<1>4. PICK m \in Nat : /\ FloorToStep(contract.max, 1, step) = m * step
                       /\ m * step <= contract.max
                       /\ contract.max < (m + 1) * step
  BY <1>1, FlooredWhole
<1>5. m * step <= contract.max /\ contract.max < (m + 1) * step
  BY <1>4
<1>6. Affordable(price, contract, budget) = k * step
  BY <1>3 DEF Affordable, d, step
<1>7. /\ k * step >= contract.min
      /\ q = IF k * step > contract.max THEN m * step ELSE k * step
  BY <1>1, <1>4, <1>6 DEF CalculateQuantity, Refused, Granted, step
<1>8. Attainable <=> m * step >= contract.min
  BY <1>4 DEF Attainable, step
<1>9. CASE k * step > contract.max
  <2>1. q = m * step
    BY <1>7, <1>9
  <2>2. m * step <= k * step
    BY <1>1, <1>5, <1>9
  <2>3. (m * step) * d <= budget
    <3>1. m <= k
      BY <1>1, <2>2
    <3>2. d * step \in Nat
      BY <1>1
    <3>3. m * (d * step) <= k * (d * step)
      BY <3>1, <3>2
    <3>4. m * (d * step) = (m * step) * d /\ k * (d * step) \in Int /\ m * (d * step) \in Int
      BY <1>1
    <3>5. QED
      BY <1>3, <3>3, <3>4
  <2>4. q \in Int /\ q + step > contract.max
    BY <1>1, <1>5, <2>1
  <2>5. (m * step) % step = 0
    BY <1>1
  <2>6. Notional(q, price, contract) <= budget
    BY <1>2, <2>1, <2>3, <2>4
  <2>7. QED
    BY <1>5, <1>8, <2>1, <2>4, <2>5, <2>6 DEF step
<1>10. CASE k * step <= contract.max
  <2>1. q = k * step /\ k * step \in Int
    BY <1>1, <1>7, <1>10
  <2>2. (k * step) * d = k * (d * step) /\ (k * step + step) * d = (k + 1) * (d * step)
    BY <1>1
  <2>3. q + step = k * step + step /\ q + step \in Int
    BY <1>1, <2>1
  <2>4. Notional(q, price, contract) <= budget
    BY <1>2, <1>3, <2>1, <2>2
  <2>5. Notional(q + step, price, contract) > budget
    BY <1>2, <1>3, <2>2, <2>3
  <2>6. q % step = 0
    BY <1>1, <2>1
  <2>7. QED
    BY <1>7, <1>10, <2>1, <2>4, <2>5, <2>6 DEF step
<1>11. QED
  BY <1>1, <1>9, <1>10

(* For every contract and price, an open position has the largest quantity *)
(* the margin and the limits allow, and at least the minimum whenever any  *)
(* multiple of the step lies between the limits.                           *)
THEOREM LargestSizeAlways == BacktestSpec => []LargestSize
<1>1. Located => LargestSize
  <2> SUFFICES ASSUME Located, Open PROVE LargestSize
    BY DEF LargestSize
  <2>1. Sized(position)
    BY DEF Located, PositionSized
  <2>2. ContractTyped
    BY ContractType DEF Located, BacktestTypeOK
  <2>3. Margin * Leverage \in Nat /\ position.entry \in Nat \ {0}
    BY <2>1, Positive, BacktestAssumption DEF BacktestAssumption, Sized
  <2>4. CalculateQuantity(position.entry, contract, Margin * Leverage) =
          [valid |-> TRUE, contracts |-> position.contracts]
    BY <2>1 DEF Sized
  <2> DEFINE q == position.contracts
             s == CalculateQuantity(position.entry, contract, Margin * Leverage)
  <2>5. s.valid /\ q = s.contracts
    BY <2>4
  <2>6. q \in Nat
    BY <2>2, <2>3, <2>5, QuantityTyped
  <2> HIDE DEF s, q
  <2>7. /\ q <= contract.max
        /\ Notional(q, position.entry, contract) <= Margin * Leverage
        /\ \/ q + contract.step > contract.max
           \/ Notional(q + contract.step, position.entry, contract) > Margin * Leverage
        /\ q % contract.step = 0
        /\ Attainable => q >= contract.min
    BY <2>2, <2>3, <2>5, LargestOfSteps DEF s
  <2>8. /\ q + contract.step \in Nat
        /\ Notional(q + contract.step, position.entry, contract) \in Nat
        /\ contract.max \in Nat
    <3>1. q + contract.step \in Nat /\ contract.size \in Nat /\ contract.max \in Nat
      BY <2>2, <2>6 DEF ContractTyped
    <3>2. \A a, b, c \in Nat : a * b * c \in Nat
      BY NatProduct
    <3>3. QED
      BY <2>3, <3>1, <3>2 DEF Notional
  <2>9. ~(/\ q + contract.step <= contract.max
          /\ Notional(q + contract.step, position.entry, contract) <= Margin * Leverage)
    BY <2>3, <2>7, <2>8
  <2>10. QED
    BY <2>7, <2>9 DEF LargestSize, q
<1>2. QED
  BY <1>1, LocatedInvariant, PTL

-------------------------------------------------------------------------------
(* The figures.                                                            *)

(* What the counters say of each other and of the candles.                 *)
Balanced ==
  /\ result["setups"] = result["longs"] + result["shorts"] + result["stale"] + result["rejected"]
  /\ result["longs"] + result["shorts"] = result["touches"] + IF Open THEN 1 ELSE 0
  /\ result["unresolved"] = IF stage = "report" /\ Open THEN 1 ELSE 0

Tallied ==
  /\ result["setups"] = Cardinality(acted)
  /\ result["held"] = Cardinality(covered)

EachEdgeOnce ==
  /\ acted \cap covered = {}
  /\ \A k \in acted : Wanted(edges[k])
  /\ \A k \in Past : Wanted(edges[k]) => (k \in acted <=> k \notin covered)

Ledger == Balanced /\ Tallied /\ EachEdgeOnce

LEMMA Finite == BacktestTypeOK => IsFiniteSet(acted) /\ IsFiniteSet(covered)
<1>1. IsFiniteSet(Tested)
  <2>1. TestStart \in Int /\ LastCandle - 1 \in Int
    BY ReplayAssumption DEF ReplayAssumption
  <2>2. QED
    BY <2>1, FS_Interval DEF Tested
<1>2. QED
  BY <1>1, FS_Subset DEF BacktestTypeOK

LEMMA LoopBalanced ==
  ASSUME Located, Balanced, stage = "loop", LoopStep
  PROVE  Balanced'
<1> USE DEF Located
<1>1. result \in [Counters \cup {"held"} -> Nat]
  BY DEF BacktestTypeOK
<1>2. \A c \in Counters : result[c] \in Nat
  BY <1>1
<1>3. \A names : \A c \in Counters :
        Count(names)[c] = IF c \in names THEN result[c] + 1 ELSE result[c]
  BY <1>1, CountAt
<1>4. CASE PassOver
  BY <1>4 DEF PassOver, Balanced, Open
<1>5. ASSUME NEW price \in Prices, NEW open \in Prices,
             RejectStale(price, open) \/ RejectSize(price, open)
      PROVE  Balanced'
  <2>1. PICK reason \in {"stale", "rejected"} :
          /\ result' = Count({"setups", reason})
          /\ UNCHANGED <<stage, position>>
    BY <1>5 DEF RejectStale, RejectSize, RejectAs
  <2>2. \A c \in Counters :
          result'[c] = IF c \in {"setups", reason} THEN result[c] + 1 ELSE result[c]
    BY <1>3, <2>1
  <2>3. QED
    BY <1>2, <2>1, <2>2 DEF Balanced, Open, Counters
<1>6. ASSUME NEW price \in Prices, NEW open \in Prices, Enter(price, open)
      PROVE  Balanced'
  <2>1. ~Open /\ Open' /\ stage' = stage
    BY <1>6, EnterSized DEF Enter, AtSetup, Open
  <2>2. PICK side \in {"longs", "shorts"} : result' = Count({"setups", side})
    BY <1>6 DEF Enter
  <2>3. \A c \in Counters :
          result'[c] = IF c \in {"setups", side} THEN result[c] + 1 ELSE result[c]
    BY <1>3, <2>2
  <2>4. QED
    BY <1>2, <2>1, <2>3 DEF Balanced, Counters
<1>7. ASSUME NEW reach \in Prices, ScanOn(reach) PROVE Balanced'
  BY <1>7 DEF ScanOn, Balanced, Open
<1>8. ASSUME NEW reach \in Prices, Touch(reach) PROVE Balanced'
  <2>1. Open /\ ~Open' /\ stage' = stage
    BY <1>8 DEF Touch, Scanning, CloseAt, Open
  <2>2. result' = [Count({"touches"}) EXCEPT !["held"] = @ + (j - i)]
    BY <1>8 DEF Touch, CloseAt
  <2>3. \A c \in Counters : result'[c] = Count({"touches"})[c]
    BY <1>1, <2>2, CountTyped DEF Counters
  <2>4. \A c \in Counters :
          result'[c] = IF c \in {"touches"} THEN result[c] + 1 ELSE result[c]
    BY <1>3, <2>3
  <2>5. QED
    BY <1>2, <2>1, <2>4 DEF Balanced, Counters
<1>9. CASE RunOut
  <2>1. Open /\ position' = position /\ stage' = "report" /\ result' = Count({"unresolved"})
    BY <1>9 DEF RunOut, Scanning, Open
  <2>2. \A c \in Counters :
          result'[c] = IF c \in {"unresolved"} THEN result[c] + 1 ELSE result[c]
    BY <1>3, <2>1
  <2>3. QED
    BY <1>2, <2>1, <2>2 DEF Balanced, Open, Counters
<1>10. CASE LoopEnds
  BY <1>10 DEF LoopEnds, loopVars, Balanced, Open
<1>11. QED
  BY <1>4, <1>5, <1>6, <1>7, <1>8, <1>9, <1>10 DEF LoopStep

LEMMA LoopTallied ==
  ASSUME Located, Tallied, stage = "loop", LoopStep
  PROVE  Tallied'
<1> USE DEF Located
<1>1. result \in [Counters \cup {"held"} -> Nat]
  BY DEF BacktestTypeOK
<1>2. IsFiniteSet(acted) /\ IsFiniteSet(covered)
  BY Finite
<1>3. \A names : \A c \in Counters \cup {"held"} :
        Count(names)[c] = IF c \in names THEN result[c] + 1 ELSE result[c]
  BY <1>1, CountAt
<1>4. i \in Nat /\ j \in Nat
  BY DEF BacktestTypeOK
<1>5. "setups" \in Counters \cup {"held"} /\ "held" \in Counters \cup {"held"}
  BY DEF Counters
<1>6. ASSUME acted' = acted \cup {i}, covered' = covered, ~Open,
             NEW names, "setups" \in names, "held" \notin names, result' = Count(names)
      PROVE  Tallied'
  <2>1. i \notin acted
    BY <1>4, <1>6 DEF Placed
  <2>2. Cardinality(acted') = Cardinality(acted) + 1
    BY <1>2, <1>6, <2>1, FS_AddElement
  <2>3. result'["setups"] = result["setups"] + 1 /\ result'["held"] = result["held"]
    BY <1>3, <1>5, <1>6
  <2>4. QED
    BY <1>6, <2>2, <2>3 DEF Tallied
<1>7. ASSUME NEW price \in Prices, NEW open \in Prices,
             RejectStale(price, open) \/ RejectSize(price, open)
      PROVE  Tallied'
  <2>1. PICK reason \in {"stale", "rejected"} : result' = Count({"setups", reason})
    BY <1>7 DEF RejectStale, RejectSize, RejectAs
  <2>2. acted' = acted \cup {i} /\ covered' = covered /\ ~Open
    BY <1>7 DEF RejectStale, RejectSize, RejectAs, AtSetup, Open
  <2>3. QED
    BY <1>6, <2>1, <2>2
<1>8. ASSUME NEW price \in Prices, NEW open \in Prices, Enter(price, open)
      PROVE  Tallied'
  <2>1. PICK side \in {"longs", "shorts"} : result' = Count({"setups", side})
    BY <1>8 DEF Enter
  <2>2. acted' = acted \cup {i} /\ covered' = covered /\ ~Open
    BY <1>8 DEF Enter, AtSetup, Open
  <2>3. QED
    BY <1>6, <2>1, <2>2
<1>9. ASSUME NEW reach \in Prices, Touch(reach) PROVE Tallied'
  <2>1. Open /\ acted' = acted /\ covered' = covered \cup (i + 1 .. j)
    BY <1>9 DEF Touch, Scanning, CloseAt, Open
  <2>2. i < j /\ \A k \in covered : k < i
    BY <2>1 DEF Placed
  <2>3. result' = [Count({"touches"}) EXCEPT !["held"] = @ + (j - i)]
    BY <1>9 DEF Touch, CloseAt
  <2>4. result'["setups"] = Count({"touches"})["setups"]
    BY <1>1, <1>5, <2>3, CountTyped
  <2>5. result'["held"] = Count({"touches"})["held"] + (j - i)
    BY <1>1, <1>5, <2>3, CountTyped
  <2>6. result'["setups"] = result["setups"] /\ result'["held"] = result["held"] + (j - i)
    BY <1>3, <1>5, <2>4, <2>5
  <2>7. IsFiniteSet(i + 1 .. j) /\ Cardinality(i + 1 .. j) = j - i
    <3>1. i + 1 \in Int /\ j \in Int /\ ~(i + 1 > j) /\ j - (i + 1) + 1 = j - i
      BY <1>4, <2>2
    <3>2. QED
      BY <3>1, FS_Interval
  <2>8. covered \cap (i + 1 .. j) = {}
    BY <1>4, <2>2 DEF BacktestTypeOK
  <2>9. Cardinality(covered') = Cardinality(covered) + (j - i)
    <3>1. Cardinality(covered') =
            Cardinality(covered) + Cardinality(i + 1 .. j) - Cardinality(covered \cap (i + 1 .. j))
      BY <1>2, <2>1, <2>7, FS_Union
    <3>2. Cardinality(covered) \in Nat /\ j - i \in Nat
      BY <1>2, <1>4, <2>2, FS_CardinalityType
    <3>3. Cardinality(covered \cap (i + 1 .. j)) = 0
      BY <2>8, FS_EmptySet
    <3>4. QED
      BY <2>7, <3>1, <3>2, <3>3
  <2>10. QED
    BY <2>1, <2>6, <2>9 DEF Tallied
<1>10. CASE RunOut
  <2>1. result' = Count({"unresolved"}) /\ UNCHANGED <<acted, covered>>
    BY <1>10 DEF RunOut
  <2>2. result'["setups"] = result["setups"] /\ result'["held"] = result["held"]
    BY <1>3, <1>5, <2>1
  <2>3. QED
    BY <2>1, <2>2 DEF Tallied
<1>11. ASSUME UNCHANGED <<result, acted, covered>> PROVE Tallied'
  BY <1>11 DEF Tallied
<1>12. QED
  BY <1>7, <1>8, <1>9, <1>10, <1>11 DEF LoopStep, PassOver, ScanOn, LoopEnds, loopVars

LEMMA LoopEachEdgeOnce ==
  ASSUME Located, EachEdgeOnce, stage = "loop", LoopStep,
         UNCHANGED <<requestVars, edges, vars>>
  PROVE  EachEdgeOnce'
<1> USE DEF Located
<1>1. \A d : Wanted(d)' = Wanted(d)
  BY DEF Wanted, requestVars
<1>2. i \in Nat /\ j \in Nat /\ \A k \in Tested \cup acted \cup covered : k \in Int
  BY DEF BacktestTypeOK, Tested
<1>3. edges' = edges
  OBVIOUS
<1>4. CASE PassOver
  <2>1. i' = i + 1 /\ ~Wanted(edges[i]) /\ UNCHANGED <<acted, covered>>
    BY <1>4 DEF PassOver
  <2>2. \A k \in Past' : k \in Past \/ k = i
    BY <1>2, <2>1 DEF Past
  <2>3. QED
    BY <1>1, <1>3, <2>1, <2>2 DEF EachEdgeOnce
<1>5. ASSUME NEW price \in Prices, NEW open \in Prices,
             RejectStale(price, open) \/ RejectSize(price, open)
      PROVE  EachEdgeOnce'
  <2>1. /\ i' = i + 1 /\ acted' = acted \cup {i} /\ covered' = covered /\ Wanted(edges[i])
    BY <1>5 DEF RejectStale, RejectSize, RejectAs, AtSetup
  <2>2. \A k \in Past' : k \in Past \/ k = i
    BY <1>2, <2>1 DEF Past
  <2>3. i \notin covered /\ i \notin Past
    BY <1>2 DEF Placed, Past
  <2>4. QED
    BY <1>1, <1>3, <2>1, <2>2, <2>3 DEF EachEdgeOnce
<1>6. ASSUME NEW price \in Prices, NEW open \in Prices, Enter(price, open)
      PROVE  EachEdgeOnce'
  <2>1. /\ i' = i /\ acted' = acted \cup {i} /\ covered' = covered /\ Wanted(edges[i])
    BY <1>6 DEF Enter, AtSetup
  <2>2. Past' = Past
    BY <2>1 DEF Past
  <2>3. i \notin covered /\ i \notin Past
    BY <1>2 DEF Placed, Past
  <2>4. QED
    BY <1>1, <1>3, <2>1, <2>2, <2>3 DEF EachEdgeOnce
<1>7. ASSUME NEW reach \in Prices, Touch(reach) PROVE EachEdgeOnce'
  <2>1. /\ Open /\ i' = j + 1 /\ acted' = acted /\ covered' = covered \cup (i + 1 .. j)
    BY <1>7 DEF Touch, Scanning, CloseAt, Open
  <2>2. i < j /\ i \in acted /\ \A k \in acted : k <= i
    BY <1>2, <2>1 DEF Placed
  <2>3. \A k \in Past' : \/ k \in Past /\ k \notin i + 1 .. j
                         \/ k = i
                         \/ k \in i + 1 .. j /\ k \notin acted
    BY <1>2, <2>1, <2>2 DEF Past
  <2>4. i \notin i + 1 .. j /\ \A k \in acted : k \notin i + 1 .. j
    BY <1>2, <2>2
  <2>5. QED
    BY <1>1, <1>3, <2>1, <2>2, <2>3, <2>4 DEF EachEdgeOnce
<1>8. ASSUME UNCHANGED <<i, acted, covered>> PROVE EachEdgeOnce'
  BY <1>1, <1>3, <1>8 DEF EachEdgeOnce, Past
<1>9. QED
  BY <1>4, <1>5, <1>6, <1>7, <1>8 DEF LoopStep, ScanOn, RunOut, LoopEnds, loopVars

LEMMA LedgerStep ==
  ASSUME Located, Ledger, [BacktestNext]_backtestVars
  PROVE  Ledger'
<1> USE DEF Ledger
<1>1. CASE UNCHANGED backtestVars
  BY <1>1 DEF backtestVars, requestVars, loopVars, Balanced, Tallied, EachEdgeOnce, Open,
              Past, Wanted
<1>2. CASE StageStep
  BY <1>2 DEF StageStep, requestVars, loopVars, Balanced, Tallied, EachEdgeOnce, Open,
              Past, Wanted
<1>3. CASE FindEdge
  <2>1. stage = "edges" /\ UNCHANGED <<stage, requestVars, loopVars>>
    BY <1>3 DEF FindEdge
  <2>2. i = TestStart /\ acted = {} /\ covered = {}
    BY <2>1 DEF Located, Placed
  <2>3. Past' = {}
    BY <2>1, <2>2, ReplayAssumption DEF Past, Tested, loopVars, ReplayAssumption
  <2>4. QED
    BY <2>1, <2>2, <2>3 DEF loopVars, Balanced, Tallied, EachEdgeOnce, Open
<1>4. CASE stage = "loop" /\ LoopStep /\ UNCHANGED <<requestVars, edges, vars>>
  BY <1>4, LoopBalanced, LoopTallied, LoopEachEdgeOnce
<1>5. QED
  BY <1>1, <1>2, <1>3, <1>4, Steps

LEMMA LedgerInit == BacktestInit => Ledger
<1> SUFFICES ASSUME BacktestInit PROVE Ledger
  OBVIOUS
<1>1. \A c \in Counters \cup {"held"} : result[c] = 0
  BY DEF BacktestInit
<1>2. ~Open /\ acted = {} /\ covered = {} /\ i = TestStart
  BY DEF BacktestInit, Open
<1>3. Past = {}
  BY <1>2, ReplayAssumption DEF Past, Tested, ReplayAssumption
<1>4. QED
  BY <1>1, <1>2, <1>3, FS_EmptySet DEF Ledger, Balanced, Tallied, EachEdgeOnce, Counters

LEMMA LedgerInvariant == BacktestSpec => []Ledger
<1>1. Located /\ Ledger /\ [BacktestNext]_backtestVars => Ledger'
  BY LedgerStep
<1>2. QED
  BY <1>1, LedgerInit, LocatedInvariant, PTL DEF BacktestSpec

(* For every batch and contract: a counted setup is an entry or one of the *)
(* two rejections, an entry a touch or the one unresolved position.        *)
THEOREM FiguresAddUpAlways == BacktestSpec => []FiguresAddUp
<1>1. Located /\ Ledger => FiguresAddUp
  BY DEF Ledger, Balanced, FiguresAddUp
<1>2. QED
  BY <1>1, LocatedInvariant, LedgerInvariant, PTL

(* For every batch no two hypothetical positions are open at one candle.   *)
THEOREM HoldsDisjointAlways == BacktestSpec => []HoldsDisjoint
<1>1. Ledger => HoldsDisjoint
  BY DEF Ledger, Tallied, HoldsDisjoint
<1>2. QED
  BY <1>1, LedgerInvariant, PTL

(* For every batch each edge in the asked direction is counted once or     *)
(* covered by an open position, never both.                                *)
THEOREM EveryEdgeOnceAlways == BacktestSpec => []EveryEdgeOnce
<1>1. Ledger => EveryEdgeOnce
  BY DEF Ledger, Tallied, EachEdgeOnce, EveryEdgeOnce
<1>2. QED
  BY <1>1, LedgerInvariant, PTL

===============================================================================
