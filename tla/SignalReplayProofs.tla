-------------------------- MODULE SignalReplayProofs --------------------------
(***************************************************************************)
(* The backtest's replay of the gate and of the setup edges, compared with *)
(* the live side for every value of the constants and every state of the   *)
(* live gate before the history: equal from the first time they meet on    *)
(* when every live cycle ran at the same second of its minute, never       *)
(* stricter than the live side when it does not.                           *)
(***************************************************************************)
EXTENDS SignalReplay, TLAPS

LEMMA NatProduct == \A a, b \in Nat : a * b \in Nat
OBVIOUS

LEMMA TypeInit == Init => TypeOK
<1> USE GateAssumption, ReplayAssumption DEF GateAssumption, ReplayAssumption
<1> SUFFICES ASSUME Init PROVE TypeOK
  OBVIOUS
<1>1. gate \in GateState /\ flag \in FlagState
  BY DEF Init, GateState, OpenGate, FlagState, OpenFlag, None
<1>2. lastCondition \in Conditions /\ previousCondition \in Conditions
  BY DEF Init, Conditions
<1>3. met \in BOOLEAN /\ agreed \in 0 .. 2 /\ partings \in 0 .. MaxPartings
  <2>1. 0 \in 0 .. 2 /\ 0 \in 0 .. MaxPartings
    <3>1. MaxPartings \in Nat
      OBVIOUS
    <3>2. QED
      BY <3>1
  <2>2. met = FALSE /\ agreed = 0 /\ partings = 0
    BY DEF Init
  <2>3. QED
    BY <2>1, <2>2
<1>4. QED
  BY <1>1, <1>2, <1>3 DEF Init, TypeOK

LEMMA TypeCorrect == Spec => []TypeOK
<1> USE GateAssumption, ReplayAssumption DEF GateAssumption, ReplayAssumption
<1>1. Init => TypeOK
  BY TypeInit
<1>2. TypeOK /\ [NextCandle]_vars => TypeOK'
  <2> SUFFICES ASSUME TypeOK, [NextCandle]_vars PROVE TypeOK'
    OBVIOUS
  <2>1. CASE UNCHANGED vars
    BY <2>1 DEF TypeOK, vars, liveVars, replayVars, meeting
  <2>2. CASE NextCandle
    <3>1. index' \in Nat
      BY <2>2 DEF NextCandle, TypeOK
    <3> DEFINE close == StartTime + index' * Minute
    <3>2. PICK dir \in Setups, verdict \in Setups, m \in Movements, phase \in Phases :
            /\ phases' = phases \cup {phase}
            /\ LiveCycle(dir, m, close, phase)
            /\ ReplayRound(verdict, m, close)
            /\ Compare(dir, verdict)
      BY <2>2 DEF NextCandle
    <3>3. close \in Nat /\ close + phase \in Nat
      <4>1. Minute \in Nat /\ phase \in Nat /\ StartTime \in Nat
        OBVIOUS
      <4>2. index' * Minute \in Nat
        BY <3>1, <4>1, NatProduct
      <4>3. QED
        BY <4>1, <4>2
    <3> HIDE DEF close
    <3>4. gate' \in GateState
      BY <3>2, <3>3 DEF TypeOK, LiveCycle, GateUpdate, GateState, OpenGate
    <3>5. flag' \in FlagState
      BY <3>2, <3>3
      DEF TypeOK, ReplayRound, FlagRound, FlagUpdate, FlagState, OpenFlag, None
    <3>6. lastCondition' \in Conditions /\ previousCondition' \in Conditions
      BY <3>2 DEF TypeOK, LiveCycle, ReplayRound
    <3>7. signalled' \in BOOLEAN /\ edgeSignal' \in BOOLEAN
      BY <3>2 DEF TypeOK, LiveCycle, ReplayRound
    <3>8. phases' \subseteq Phases
      BY <2>2 DEF NextCandle, TypeOK
    <3>9. met' \in BOOLEAN /\ agreed' \in 0 .. 2 /\ partings' \in 0 .. MaxPartings
      BY <3>2 DEF TypeOK, Compare
    <3>10. QED
      BY <3>1, <3>4, <3>5, <3>6, <3>7, <3>8, <3>9 DEF TypeOK
  <2>3. QED
    BY <2>1, <2>2
<1>3. QED
  BY <1>1, <1>2, PTL DEF Spec

-------------------------------------------------------------------------------
(* Steady cycles.                                                          *)

(* Why the two sides agree: while they are closed they observe from the    *)
(* same candle on, the live side with a clock that is ahead by the phase.  *)
InStep ==
  /\ flag.paused = gate.paused
  /\ gate.paused => (flag.recovery = None <=> gate.recovery = 0)
  /\ gate.paused /\ gate.recovery # 0 => gate.recovery - flag.recovery \in phases

(* Both looked at the last candle, and judged it alike.                    *)
SameCondition ==
  agreed > 0 => index > TestStart /\ previousCondition = lastCondition

(* The sides do not meet in candles the replay cannot measure.             *)
MetLate == met => index >= Lookback

LEMMA UpdatesInStep ==
  ASSUME Steady', TypeOK, InStep,
         NEW m \in Movements, NEW phase \in Phases, NEW close \in Nat,
         phases' = phases \cup {phase},
         gate' = GateUpdate(gate, m, close + phase),
         flag' = FlagUpdate(flag, m, close)
  PROVE  InStep'
<1> USE GateAssumption, ReplayAssumption DEF GateAssumption, ReplayAssumption
<1>1. close + phase \in Nat \ {0} /\ RecoveryWindow \in Nat
  BY DEF RecoveryWindow
<1>2. gate.paused /\ gate.recovery # 0 => close + phase - gate.recovery = close - flag.recovery
  <2> SUFFICES ASSUME gate.paused, gate.recovery # 0
               PROVE  close + phase - gate.recovery = close - flag.recovery
    OBVIOUS
  <2>1. gate.recovery - flag.recovery = phase
    BY DEF Steady, InStep
  <2>2. gate.recovery \in Int /\ flag.recovery \in Int
    BY DEF TypeOK, GateState, FlagState, None
  <2>3. QED
    BY <2>1, <2>2
<1>3. CASE ~gate.paused
  BY <1>3 DEF InStep, TypeOK, GateState, FlagState, GateUpdate, FlagUpdate
<1>4. CASE gate.paused /\ ~Calm(m)
  BY <1>4 DEF InStep, TypeOK, GateState, FlagState, GateUpdate, FlagUpdate
<1>5. CASE gate.paused /\ Calm(m) /\ gate.recovery = 0
  <2>1. gate' = [gate EXCEPT !.recovery = close + phase]
    BY <1>5 DEF GateUpdate
  <2>2. flag' = [flag EXCEPT !.recovery = close]
    BY <1>5 DEF InStep, FlagUpdate
  <2>3. gate'.recovery - flag'.recovery = phase
    BY <1>1, <2>1, <2>2 DEF TypeOK, GateState, FlagState
  <2>4. gate'.recovery # 0 /\ flag'.recovery # None
    BY <1>1, <2>1, <2>2 DEF TypeOK, GateState, FlagState, None
  <2>5. QED
    BY <1>5, <2>1, <2>2, <2>3, <2>4 DEF InStep, TypeOK, GateState, FlagState
<1>6. CASE gate.paused /\ Calm(m) /\ gate.recovery # 0
  <2>1. flag.paused /\ flag.recovery # None
    BY <1>6 DEF InStep
  <2>2. Elapsed(flag.recovery, close) <=> Elapsed(gate.recovery, close + phase)
    <3>1. gate.recovery \in Int /\ flag.recovery \in Int
      BY DEF TypeOK, GateState, FlagState, None
    <3>2. QED
      BY <1>1, <1>2, <1>6, <3>1 DEF Elapsed
  <2>3. CASE Elapsed(flag.recovery, close)
    <3>1. gate' = OpenGate
      BY <1>6, <2>2, <2>3 DEF GateUpdate
    <3>2. flag' = OpenFlag
      BY <1>6, <2>1, <2>3 DEF FlagUpdate
    <3>3. QED
      <4>1. gate'.paused = FALSE /\ gate'.recovery = 0
        BY <3>1 DEF OpenGate
      <4>2. flag'.paused = FALSE /\ flag'.recovery = None
        BY <3>2 DEF OpenFlag
      <4>3. QED
        BY <4>1, <4>2 DEF InStep
  <2>4. CASE ~Elapsed(flag.recovery, close)
    <3>1. gate' = gate
      BY <1>6, <2>2, <2>4 DEF GateUpdate
    <3>2. flag' = flag
      BY <1>6, <2>1, <2>4 DEF FlagUpdate
    <3>3. QED
      BY <3>1, <3>2 DEF InStep
  <2>5. QED
    BY <2>3, <2>4
<1>7. QED
  BY <1>3, <1>4, <1>5, <1>6

LEMMA InStepInvariant == Spec => []((Steady /\ met => InStep) /\ SameCondition /\ SameSignals)
<1> DEFINE IInv == /\ Steady /\ met => InStep
                   /\ MetLate /\ SameCondition /\ SameSignals
<1> USE GateAssumption, ReplayAssumption DEF GateAssumption, ReplayAssumption
<1>1. Init => IInv
  BY DEF Init, MetLate, SameCondition, SameSignals
<1>2. TypeOK /\ IInv /\ [NextCandle]_vars => IInv'
  <2> SUFFICES ASSUME TypeOK, IInv, [NextCandle]_vars PROVE IInv'
    OBVIOUS
  <2>1. CASE UNCHANGED vars
    BY <2>1
    DEF vars, liveVars, replayVars, meeting, Steady, InStep, MetLate, SameCondition,
        SameSignals
  <2>2. CASE NextCandle
    <3> DEFINE close == StartTime + index' * Minute
    <3>1. index' = index + 1 /\ index \in Nat /\ close \in Nat
      BY <2>2, NatProduct DEF NextCandle, TypeOK
    <3>2. PICK dir \in Setups, verdict \in Setups, m \in Movements, phase \in Phases :
            /\ phases' = phases \cup {phase}
            /\ LiveCycle(dir, m, close, phase)
            /\ ReplayRound(verdict, m, close)
            /\ Compare(dir, verdict)
      BY <2>2 DEF NextCandle
    <3> HIDE DEF close
    <3>3. Steady' => Steady
      BY <3>2 DEF Steady
    <3>4. Steady' /\ met' => InStep'
      <4> SUFFICES ASSUME Steady', met' PROVE InStep'
        OBVIOUS
      <4>1. CASE ~met
        <5>1. Alike(gate', flag')
          BY <3>2, <4>1 DEF Compare
        <5>2. QED
          BY <5>1 DEF Alike, InStep
      <4>2. CASE met
        <5>1. InStep /\ ~(index < Lookback)
          BY <3>1, <3>3, <4>2 DEF MetLate
        <5>2. gate' = GateUpdate(gate, m, close + phase) /\ flag' = FlagUpdate(flag, m, close)
          BY <3>2, <5>1 DEF LiveCycle, ReplayRound, FlagRound
        <5>3. QED
          BY <3>1, <3>2, <5>1, <5>2, UpdatesInStep
      <4>3. QED
        BY <4>1, <4>2
    <3>5. MetLate'
      <4>1. met' => met \/ index' >= Lookback
        BY <3>2 DEF Compare
      <4>2. QED
        BY <3>1, <4>1 DEF MetLate
    <3>6. SameCondition'
      <4> SUFFICES ASSUME agreed' > 0
                   PROVE  index' > TestStart /\ previousCondition' = lastCondition'
        BY DEF SameCondition
      <4>1. verdict = dir /\ index >= TestStart
        BY <3>1, <3>2 DEF Compare
      <4>2. QED
        BY <3>1, <3>2, <4>1 DEF LiveCycle, ReplayRound
    <3>7. SameSignals'
      <4> SUFFICES ASSUME Steady', met', agreed' = 2 PROVE edgeSignal' <=> signalled'
        BY DEF SameSignals
      <4>1. verdict = dir /\ index >= TestStart /\ agreed > 0
        BY <3>1, <3>2 DEF Compare, TypeOK
      <4>2. previousCondition = lastCondition
        BY <4>1 DEF SameCondition
      <4>3. flag'.paused = gate'.paused
        BY <3>4 DEF InStep
      <4>4. QED
        BY <3>2, <4>1, <4>2, <4>3 DEF LiveCycle, ReplayRound
    <3>8. QED
      BY <3>4, <3>5, <3>6, <3>7
  <2>3. QED
    BY <2>1, <2>2
<1>3. QED
  BY <1>1, <1>2, TypeCorrect, PTL DEF Spec

(* Wherever the live gate stands before the history: once it was met, the  *)
(* pause flags of a backtest are its pauses, as long as the live cycles    *)
(* are steady (backtest.py:144-168, safety.py:13-46).                      *)
THEOREM SamePauseWhenSteady == Spec => []SamePause
<1>1. (Steady /\ met => InStep) => SamePause
  BY DEF InStep, SamePause
<1>2. QED
  BY <1>1, InStepInvariant, PTL

(* From then on two candles in a row that both sides judge alike make the  *)
(* replay find exactly the signals the live monitor passes, whatever was   *)
(* judged differently before.                                              *)
THEOREM SameSignalsWhenSteady == Spec => []SameSignals
BY InStepInvariant, PTL

-------------------------------------------------------------------------------
(* Cycles of any phase.                                                    *)

(* What is left when the phase varies: while the replay is closed the two  *)
(* sides observe from the same candle on, but the live window may count    *)
(* one candle more.                                                        *)
NeverStricter ==
  /\ flag.paused => gate.paused
  /\ ~flag.paused => flag.recovery = None
  /\ flag.paused => (flag.recovery = None <=> gate.recovery = 0)
  /\ flag.recovery # None => \E k \in Nat : flag.recovery = StartTime + k * Minute
  /\ flag.paused /\ gate.recovery # 0 => gate.recovery - flag.recovery \in Phases

(* The candles the replay cannot measure leave it open.                    *)
OpenAtFirst == index <= Lookback => flag = OpenFlag

(* A whole number of minutes that exceeds a window less a minute fills it. *)
LEMMA WholeMinutes ==
  ASSUME NEW a \in Int, NEW b \in Int, a * Minute > b * Minute - Minute
  PROVE  a * Minute >= b * Minute
<1> USE GateAssumption DEF GateAssumption
<1> SUFFICES ASSUME a < b PROVE FALSE
  BY a \in Int, b \in Int
<1>1. b - a - 1 \in Nat
  OBVIOUS
<1>2. (b - a - 1) * Minute >= 0
  BY <1>1
<1>3. (b - a - 1) * Minute = b * Minute - a * Minute - Minute
  OBVIOUS
<1>4. QED
  BY <1>2, <1>3

(* Config.validate() does not compare the two thresholds.                  *)
ThresholdsOrdered == Recovery5m <= Abnormal5m

LEMMA UpdatesNeverStricter ==
  ASSUME ThresholdsOrdered, TypeOK, NeverStricter,
         NEW m \in Movements, NEW phase \in Phases, NEW n \in Nat,
         gate' = GateUpdate(gate, m, StartTime + n * Minute + phase),
         flag' = FlagUpdate(flag, m, StartTime + n * Minute)
  PROVE  NeverStricter'
<1> USE GateAssumption, ReplayAssumption DEF GateAssumption, ReplayAssumption
<1> DEFINE close == StartTime + n * Minute
<1>1. close \in Nat /\ close + phase \in Nat \ {0} /\ RecoveryWindow \in Nat
  <2>1. n * Minute \in Nat
    BY NatProduct
  <2>2. QED
    BY <2>1 DEF RecoveryWindow
<1>2. Shock(m) => ~Calm(m)
  <2>1. m.move5 \in Nat /\ m.range1 \in Nat
    OBVIOUS
  <2>2. QED
    BY <2>1 DEF Shock, Calm, ThresholdsOrdered
<1>3. ASSUME gate.paused, flag.paused, gate.recovery # 0,
             Elapsed(gate.recovery, close + phase)
      PROVE  Elapsed(flag.recovery, close)
  <2>1. PICK k \in Nat : flag.recovery = StartTime + k * Minute
    BY <1>3 DEF NeverStricter
  <2>2. PICK q \in Phases : gate.recovery - flag.recovery = q
    BY <1>3 DEF NeverStricter
  <2>3. gate.recovery \in Int /\ flag.recovery \in Int /\ k * Minute \in Int
    BY DEF TypeOK, GateState, FlagState, None
  <2>4. phase - q < Minute
    BY <2>2
  <2>5. close - StartTime - k * Minute > RecoveryWindow - Minute
    BY <1>1, <1>3, <2>1, <2>2, <2>3, <2>4 DEF Elapsed
  <2>6. (n - k) * Minute = close - StartTime - k * Minute
    OBVIOUS
  <2>7. (n - k) * Minute >= RecoveryMinutes * Minute
    BY <2>5, <2>6, WholeMinutes DEF RecoveryWindow
  <2>8. QED
    BY <2>1, <2>6, <2>7 DEF RecoveryWindow, Elapsed
<1> HIDE DEF close
<1>4. \E k \in Nat : close = StartTime + k * Minute
  BY DEF close
<1>5. gate' = GateUpdate(gate, m, close + phase) /\ flag' = FlagUpdate(flag, m, close)
  BY DEF close
<1>6. CASE ~gate.paused
  BY <1>5, <1>6 DEF NeverStricter, TypeOK, GateState, FlagState, GateUpdate, FlagUpdate, None
<1>7. CASE gate.paused /\ ~Calm(m)
  BY <1>2, <1>5, <1>7
     DEF NeverStricter, TypeOK, GateState, FlagState, GateUpdate, FlagUpdate, None
<1>8. CASE gate.paused /\ Calm(m) /\ gate.recovery = 0
  BY <1>1, <1>2, <1>4, <1>5, <1>8
     DEF NeverStricter, TypeOK, GateState, FlagState, GateUpdate, FlagUpdate, None
<1>9. CASE gate.paused /\ Calm(m) /\ gate.recovery # 0
  BY <1>1, <1>2, <1>3, <1>5, <1>9
     DEF NeverStricter, TypeOK, GateState, FlagState, GateUpdate, FlagUpdate, OpenGate, OpenFlag, None
<1>10. QED
  BY <1>6, <1>7, <1>8, <1>9

(* Whatever the seconds the live cycles run at and wherever the live gate  *)
(* stood before the history, the replay lets a signal pass wherever the    *)
(* live gate does, provided the recovery threshold does not exceed the     *)
(* abnormal one.                                                           *)
THEOREM ReplayNeverStricter ==
  ASSUME ThresholdsOrdered
  PROVE  Spec => []LiveOpenReplayOpen
<1> USE GateAssumption, ReplayAssumption DEF GateAssumption, ReplayAssumption
<1>1. Init => NeverStricter /\ OpenAtFirst
  BY DEF Init, NeverStricter, OpenAtFirst, OpenFlag
<1>2. TypeOK /\ NeverStricter /\ OpenAtFirst /\ [NextCandle]_vars => NeverStricter' /\ OpenAtFirst'
  <2> SUFFICES ASSUME TypeOK, NeverStricter, OpenAtFirst, [NextCandle]_vars
               PROVE  NeverStricter' /\ OpenAtFirst'
    OBVIOUS
  <2>1. CASE UNCHANGED vars
    BY <2>1 DEF vars, liveVars, replayVars, NeverStricter, OpenAtFirst
  <2>2. CASE NextCandle
    <3>1. index' = index + 1 /\ index \in Nat /\ index' \in Nat
      BY <2>2 DEF NextCandle, TypeOK
    <3>2. PICK dir \in Setups, verdict \in Setups, m \in Movements, phase \in Phases :
            /\ LiveCycle(dir, m, StartTime + index' * Minute, phase)
            /\ ReplayRound(verdict, m, StartTime + index' * Minute)
      BY <2>2 DEF NextCandle
    <3>3. CASE index < Lookback
      <4>1. flag = OpenFlag /\ flag' = OpenFlag
        BY <3>1, <3>2, <3>3 DEF OpenAtFirst, ReplayRound, FlagRound
      <4>2. QED
        BY <4>1 DEF NeverStricter, OpenAtFirst, OpenFlag
    <3>4. CASE ~(index < Lookback)
      <4>1. /\ gate' = GateUpdate(gate, m, StartTime + index' * Minute + phase)
            /\ flag' = FlagUpdate(flag, m, StartTime + index' * Minute)
        BY <3>2, <3>4 DEF LiveCycle, ReplayRound, FlagRound
      <4>2. NeverStricter'
        BY <3>1, <4>1, UpdatesNeverStricter
      <4>3. QED
        BY <3>1, <3>4, <4>2 DEF OpenAtFirst
    <3>5. QED
      BY <3>3, <3>4
  <2>3. QED
    BY <2>1, <2>2
<1>3. NeverStricter => LiveOpenReplayOpen
  BY DEF NeverStricter, LiveOpenReplayOpen
<1>4. QED
  BY <1>1, <1>2, <1>3, TypeCorrect, PTL DEF Spec
===============================================================================
