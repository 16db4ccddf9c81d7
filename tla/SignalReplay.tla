----------------------------- MODULE SignalReplay -----------------------------
(***************************************************************************)
(* The backtest's replay of the live rules, candle by candle beside the    *)
(* live monitor: the pause flags of _build_pause_flags against the gate,   *)
(* and the setup edges of _run_variant against the edges of cycle          *)
(* (app/backtest.py, app/monitor.py, app/safety.py).                       *)
(*                                                                         *)
(* The live cycle looks at a candle some seconds after its close (its      *)
(* phase) and does its arithmetic with that clock; the replay has only     *)
(* the close.  The live monitor has been running when the history begins,  *)
(* and its indicators have other seeds than the replay's, so the two may   *)
(* judge a candle differently.  No cycle is missed here: MarketMonitor is  *)
(* about those.                                                            *)
(***************************************************************************)
EXTENDS AbnormalMoveGate

CONSTANTS
  Phases,      (* environment: seconds from a close to the live cycle      *)
  Setups,      (* environment: conditions of the candles                   *)
  Movements,   (* environment: measurements of the candles                 *)
  Gates,       (* environment: the live gate's keys before the history     *)
  StartTime,   (* open time of the first candle of the history             *)
  Lookback,    (* candles the replay needs before one it can measure       *)
  TestStart,   (* index of the first candle of the tested period           *)
  MaxPartings, (* bound: candles the two sides judge differently           *)
  LastCandle   (* bound: index of the last candle of the history           *)

Directions == {"LONG", "SHORT"}
Conditions == Directions \cup {"NONE"}

(* The last cycle before the history ran less than a minute into it.       *)
ASSUME ReplayAssumption ==
  /\ Phases \subseteq 1 .. Minute
  /\ Setups \subseteq Conditions
  /\ Movements \subseteq [move5 : Nat, range1 : Nat]
  /\ StartTime \in Nat
  /\ Gates \subseteq [paused : BOOLEAN, recovery : 0 .. StartTime + Minute]
  /\ Lookback \in Nat
  /\ TestStart \in Nat \ {0}
  /\ MaxPartings \in Nat
  /\ LastCandle \in Nat

VARIABLES
  index,             (* candles replayed so far                            *)
  phases,            (* history: the phases of the live cycles so far      *)
  gate,              (* live: the gate's keys                              *)
  lastCondition,     (* live: monitor_last_condition                       *)
  signalled,         (* live: the last candle is an edge the gate let pass *)
  flag,              (* replay: paused and recovery_start                  *)
  previousCondition, (* replay: previous_condition of the edge loop        *)
  edgeSignal,        (* replay: edge_signals has an entry for the candle   *)
  met,               (* history: both sides were in the same state once,   *)
                     (*   in candles that both measure                     *)
  agreed,            (* history: the last tested candles both sides judged *)
                     (*   alike, counted up to two                         *)
  partings           (* history: tested candles they judged differently    *)

liveVars   == <<gate, lastCondition, signalled>>
replayVars == <<flag, previousCondition, edgeSignal>>
meeting    == <<met, agreed, partings>>
vars       == <<index, phases, liveVars, replayVars, meeting>>

None == -1   (* recovery_start is None *)

FlagState == [paused : BOOLEAN, recovery : Nat \cup {None}]

OpenFlag == [paused |-> FALSE, recovery |-> None]

(* Mutant: a trip keeps the observation that was running.                  *)
FlagUpdateKeepingStart(f, c, close) ==
  CASE ~f.paused /\ Shock(c)  -> [f EXCEPT !.paused = TRUE]
    [] ~f.paused /\ ~Shock(c) -> f
    [] f.paused /\ ~Calm(c)   -> f
    [] f.paused /\ Calm(c) /\ f.recovery = None -> [f EXCEPT !.recovery = close]
    [] f.paused /\ Calm(c) /\ f.recovery # None /\ ~Elapsed(f.recovery, close) -> f
    [] f.paused /\ Calm(c) /\ f.recovery # None /\ Elapsed(f.recovery, close)  -> OpenFlag

(* Mutant: the window has to be exceeded.                                  *)
FlagUpdateStrict(f, c, close) ==
  CASE ~f.paused /\ Shock(c)  -> [paused |-> TRUE, recovery |-> None]
    [] ~f.paused /\ ~Shock(c) -> f
    [] f.paused /\ ~Calm(c)   -> [f EXCEPT !.recovery = None]
    [] f.paused /\ Calm(c) /\ f.recovery = None -> [f EXCEPT !.recovery = close]
    [] f.paused /\ Calm(c) /\ f.recovery # None /\ ~Elapsed(f.recovery, close - 1) -> f
    [] f.paused /\ Calm(c) /\ f.recovery # None /\ Elapsed(f.recovery, close - 1)  -> OpenFlag

(* One round of the loop of _build_pause_flags, for a candle that can be   *)
(* measured.                                                               *)
FlagUpdate(f, c, close) ==
  CASE ~f.paused /\ Shock(c)  -> [paused |-> TRUE, recovery |-> None]
    [] ~f.paused /\ ~Shock(c) -> f
    [] f.paused /\ ~Calm(c)   -> [f EXCEPT !.recovery = None]
    [] f.paused /\ Calm(c) /\ f.recovery = None -> [f EXCEPT !.recovery = close]
    [] f.paused /\ Calm(c) /\ f.recovery # None /\ ~Elapsed(f.recovery, close) -> f
    [] f.paused /\ Calm(c) /\ f.recovery # None /\ Elapsed(f.recovery, close)  -> OpenFlag

(* The candles that have not enough others before them leave the flag as   *)
(* it is.                                                                  *)
FlagRound(m, close) ==
  flag' = IF index < Lookback THEN flag ELSE FlagUpdate(flag, m, close)

(* The live side has been running: its gate may be closed and observing.   *)
(* The replay starts unpaused.                                             *)
Init ==
  /\ index = 0
  /\ phases = {}
  /\ gate \in Gates
  /\ lastCondition \in Setups
  /\ signalled = FALSE
  /\ flag = OpenFlag
  /\ previousCondition = "NONE"
  /\ edgeSignal = FALSE
  /\ met = FALSE
  /\ agreed = 0
  /\ partings = 0

LiveCycle(dir, m, close, phase) ==
  /\ gate' = GateUpdate(gate, m, close + phase)
  /\ lastCondition' = dir
  /\ signalled' = (dir # "NONE" /\ lastCondition # dir /\ ~gate'.paused)

(* Mutant: a suppressed edge stays pending until the pause is over.        *)
ReplayRoundLatchingLate(dir, m, close) ==
  /\ FlagRound(m, close)
  /\ IF index >= TestStart
     THEN /\ previousCondition' = IF flag'.paused THEN previousCondition ELSE dir
          /\ edgeSignal' = (dir # "NONE" /\ dir # previousCondition /\ ~flag'.paused)
     ELSE UNCHANGED <<previousCondition, edgeSignal>>

(* The warm-up candles only feed the flags; the edge loop begins with the  *)
(* tested period, its previous_condition still None ("NONE" here).         *)
ReplayRound(dir, m, close) ==
  /\ FlagRound(m, close)
  /\ IF index >= TestStart
     THEN /\ previousCondition' = dir
          /\ edgeSignal' = (dir # "NONE" /\ dir # previousCondition /\ ~flag'.paused)
     ELSE UNCHANGED <<previousCondition, edgeSignal>>

(* Both are open, or both are closed and observe nothing.                  *)
Alike(g, f) ==
  /\ g.paused = f.paused
  /\ g.paused => g.recovery = 0 /\ f.recovery = None

(* dir is what evaluate() finds over the last warmup_candles, verdict what *)
(* signal_at finds over the whole series, which is asked from the tested   *)
(* period on.                                                              *)
Compare(dir, verdict) ==
  /\ index < TestStart => verdict = dir
  /\ partings' = IF verdict = dir THEN partings ELSE partings + 1
  /\ partings' <= MaxPartings
  /\ agreed' = IF verdict # dir \/ index < TestStart THEN 0
               ELSE IF agreed = 0 THEN 1 ELSE 2
  /\ met' = (met \/ (index' >= Lookback /\ Alike(gate', flag')))

NextCandle ==
  /\ index < LastCandle
  /\ index' = index + 1
  /\ \E dir, verdict \in Setups, m \in Movements, phase \in Phases :
       /\ phases' = phases \cup {phase}
       /\ LiveCycle(dir, m, StartTime + index' * Minute, phase)
       /\ ReplayRound(verdict, m, StartTime + index' * Minute)
       /\ Compare(dir, verdict)

Spec == Init /\ [][NextCandle]_vars

-------------------------------------------------------------------------------
(* Type invariant.                                                         *)
TypeOK ==
  /\ index \in Nat
  /\ phases \subseteq Phases
  /\ gate \in GateState
  /\ lastCondition \in Conditions
  /\ signalled \in BOOLEAN
  /\ flag \in FlagState
  /\ previousCondition \in Conditions
  /\ edgeSignal \in BOOLEAN
  /\ met \in BOOLEAN
  /\ agreed \in 0 .. 2
  /\ partings \in 0 .. MaxPartings

(* All live cycles so far ran at the same second of their minute.          *)
Steady == \A p, q \in phases : p = q

(* The replay forgets what it does not know: once it was in the state of   *)
(* the live gate, it stays with it as long as the cycles are steady.  (Not *)
(* before: backtest.py:147 starts unpaused, wherever the live gate stands, *)
(* and backtest.py:150 passes over candles that the live gate measures, so *)
(* "Deterministic historical equivalent of the live abnormal-move gate",   *)
(* backtest.py:145, holds from there on only.)                             *)
SamePause == Steady /\ met => flag.paused = gate.paused

(* The weaker claim that needs no meeting and survives cycles of varying   *)
(* phase: wherever the live gate lets signals pass the replay does too, so *)
(* the replay never loses to the gate a signal the live monitor sent.      *)
LiveOpenReplayOpen == ~gate.paused => ~flag.paused

(* As long as the cycles are steady, and once the two gates have met, two  *)
(* tested candles in a row that both sides judge alike are enough for the  *)
(* replay to find a signal exactly where the live monitor passed its gate: *)
(* neither the forgotten condition before the tested period, nor a pause,  *)
(* nor an earlier candle judged differently leaves a trace                 *)
(* (backtest.py:56-67, monitor.py:52-60).                                  *)
SameSignals == Steady /\ met /\ agreed = 2 => (edgeSignal <=> signalled)
===============================================================================
