------------------------- MODULE MarketMonitorProofs --------------------------
(***************************************************************************)
(* The monitor for every value of the constants: its variables keep their  *)
(* types, it implements the alert policy, and no step of it announces in a *)
(* pause, repeats old news or ends a pause early.                          *)
(***************************************************************************)
EXTENDS MarketMonitor, SequenceTheorems, TLAPS

-------------------------------------------------------------------------------
(* The arithmetic of the minutes.                                          *)

LEMMA MinuteOf ==
  ASSUME NEW t \in Int
  PROVE  /\ (t \div Minute) \in Int
         /\ (t \div Minute) * Minute <= t
         /\ t < (t \div Minute) * Minute + Minute
BY GateAssumption DEF GateAssumption

LEMMA MinutesMonotone ==
  ASSUME NEW s \in Int, NEW t \in Int, s <= t
  PROVE  (s \div Minute) * Minute <= (t \div Minute) * Minute
<1> USE GateAssumption DEF GateAssumption
<1>1. s \div Minute \in Int /\ t \div Minute \in Int
  OBVIOUS
<1>2. s \div Minute <= t \div Minute
  OBVIOUS
<1>3. QED
  BY <1>1, <1>2

(* A later cycle never looks at an earlier candle.                         *)
LEMMA LatestClosedMonotone ==
  ASSUME NEW s \in Nat, NEW t \in Nat, s <= t
  PROVE  LatestClosed(s) <= LatestClosed(t)
<1>1. /\ ((s - 1) \div Minute) * Minute \in Int
      /\ ((t - 1) \div Minute) * Minute \in Int
  BY GateAssumption DEF GateAssumption
<1>2. ((s - 1) \div Minute) * Minute <= ((t - 1) \div Minute) * Minute
  BY MinutesMonotone
<1>3. QED
  BY <1>1, <1>2, GateAssumption DEF LatestClosed, GateAssumption

LEMMA MinuteBack ==
  ASSUME NEW t \in Nat, NEW m \in Nat, NEW s \in Nat, s = t - m - m
  PROVE  t - m \in Nat
OBVIOUS

LEMMA WakeTimeTyped == ASSUME NEW t \in Nat PROVE WakeTime(t) \in Nat
<1>1. t \div Minute \in Nat
  BY GateAssumption DEF GateAssumption
<1>2. (t \div Minute + 1) * Minute \in Nat
  BY <1>1, GateAssumption DEF GateAssumption
<1>3. QED
  BY <1>2, MonitorAssumption DEF WakeTime, MonitorAssumption

LEMMA RecipientsTyped == Recipients \in Seq(RecipientSet)
<1>1. Recipients \in Seq(STRING)
  BY MonitorAssumption DEF MonitorAssumption
<1>2. \A i \in 1 .. Len(Recipients) : Recipients[i] \in RecipientSet
  BY DEF RecipientSet
<1>3. QED
  BY <1>1, <1>2

-------------------------------------------------------------------------------
(* Types.                                                                  *)

LEMMA NothingTyped == NoCycle \in Cycles /\ NoQuote \in [time : Int, near : BOOLEAN]
<1>1. NoCandle \in Candle
  BY DEF NoCandle, Candle, Conditions
<1>2. OpenGate \in GateState
  BY DEF OpenGate, GateState
<1>3. QED
  BY <1>1, <1>2 DEF NoCycle, Cycles, NoQuote, Conditions

LEMMA GateUpdateTyped ==
  ASSUME NEW g \in GateState, NEW c \in Candle, NEW t \in Nat
  PROVE  GateUpdate(g, c, t) \in GateState
BY DEF GateState, GateUpdate, OpenGate

LEMMA ClosedCandleTyped ==
  ASSUME NEW t \in Nat, NEW last \in Candle, NEW c \in ClosedCandle(t, last)
  PROVE  c \in Candle
<1> DEFINE calmSince(m) == CASE ~Calm(m)                      -> 0
                             [] Calm(m) /\ last.calmSince = 0 -> t + Minute
                             [] Calm(m) /\ last.calmSince # 0 -> last.calmSince
<1>1. PICK d \in Setups, m \in Movements :
        c = [time |-> t, dir |-> d, move5 |-> m.move5, range1 |-> m.range1,
             calmSince |-> calmSince(m)]
  BY DEF ClosedCandle
<1>2. /\ d \in Conditions /\ m.move5 \in Nat /\ m.range1 \in Nat
      /\ last.dir \in Conditions /\ last.calmSince \in Nat
      /\ t + Minute \in Nat
  BY MonitorAssumption, GateAssumption DEF MonitorAssumption, GateAssumption, Candle
<1>3. calmSince(m) \in Nat
  BY <1>2
<1> HIDE DEF calmSince
<1>4. QED
  BY <1>1, <1>2, <1>3 DEF Candle

LEMMA InitTyped == Init => TypeOK
<1> SUFFICES ASSUME Init PROVE TypeOK
  OBVIOUS
<1> USE MonitorAssumption, GateAssumption DEF MonitorAssumption, GateAssumption
<1>1. market \subseteq Candle
  <2>1. \A t \in Nat :
          [NoCandle EXCEPT !.time = t, !.calmSince = StartTime - Minute] \in Candle
    <3>1. StartTime - Minute \in Nat
      OBVIOUS
    <3>2. QED
      BY <3>1 DEF NoCandle, Candle, Conditions
  <2>2. StartTime - Minute \in Nat /\ StartTime - 2 * Minute \in Nat
    OBVIOUS
  <2>3. ASSUME NEW c \in market PROVE c \in Candle
    <3>1. PICK t \in {StartTime - Minute, StartTime - 2 * Minute} :
            c = [NoCandle EXCEPT !.time = t, !.calmSince = StartTime - Minute]
      BY DEF Init
    <3>2. QED
      BY <2>1, <2>2, <3>1
  <2>4. QED
    BY <2>3
<1>2. kv \in [paused : BOOLEAN, recovery : Nat, candle : Nat, condition : Conditions]
  BY DEF Init, Conditions
<1>3. cycle \in Cycles /\ quote \in [time : Int, near : BOOLEAN]
  BY NothingTyped DEF Init
<1>4. /\ pending \in Seq(RecipientSet)
      /\ inbox \in [RecipientSet -> Seq([candle : Nat, dir : Conditions])]
  BY DEF Init
<1>5. lastAlert \in [candle : Nat, dir : Conditions]
  BY DEF Init, Conditions
<1>6. QED
  BY <1>1, <1>2, <1>3, <1>4, <1>5 DEF Init, TypeOK, Labels

LEMMA SleepTyped ==
  ASSUME TypeOK, Sleep
  PROVE  /\ pc' \in Labels /\ wakeAt' \in Nat /\ cycle' \in Cycles
         /\ quote' \in [time : Int, near : BOOLEAN] /\ pending' \in Seq(RecipientSet)
BY WakeTimeTyped, NothingTyped, EmptySeq DEF TypeOK, Sleep, Labels

LEMMA LookTyped ==
  ASSUME TypeOK, Look(cycle.candle)
  PROVE  rearmed' \in BOOLEAN /\ sightedAt' \in Nat
<1>1. cycle.now \in Nat
  BY DEF TypeOK, Cycles
<1>2. QED
  BY <1>1 DEF Look, TypeOK

(* Only a candle with a setup reaches the ticker.                          *)
Aimed == pc \in {"ticker", "judge"} => cycle.candle.dir \in Directions

LEMMA StepTyped == TypeOK /\ Aimed /\ [Next]_vars => TypeOK'
<1> SUFFICES ASSUME TypeOK, Aimed, [Next]_vars PROVE TypeOK'
  OBVIOUS
<1> USE DEF process, tables, history, alerts, gateLog, Goto
<1>1. CASE UNCHANGED vars
  BY <1>1 DEF vars, TypeOK
<1>2. CASE Tick
  <2>1. now' \in Nat
    BY <1>2 DEF Tick, TypeOK
  <2>2. market' \subseteq Candle
    <3>1. CASE now' % Minute # 0
      BY <1>2, <3>1 DEF Tick, TypeOK
    <3>2. CASE now' % Minute = 0
      <4>1. PICK last \in market : \E c \in ClosedCandle(now' - Minute, last) :
                 market' = {last, c} /\ last.time = now' - Minute - Minute
        BY <1>2, <3>2 DEF Tick, CloseCandle
      <4>2. last \in Candle
        BY DEF TypeOK
      <4>3. now' - Minute \in Nat
        <5>1. last.time \in Nat /\ Minute \in Nat
          BY <4>2, GateAssumption DEF Candle, GateAssumption
        <5>2. last.time = now' - Minute - Minute
          BY <4>1
        <5>3. QED
          BY <2>1, <5>1, <5>2, MinuteBack
      <4>4. \A c \in ClosedCandle(now' - Minute, last) : c \in Candle
        BY <4>2, <4>3, ClosedCandleTyped
      <4>5. QED
        BY <4>1, <4>2, <4>4
    <3>3. QED
      BY <3>1, <3>2
  <2>3. QED
    BY <1>2, <2>1, <2>2 DEF Tick, TypeOK
<1>3. CASE Start
  BY <1>3 DEF Start, TypeOK, Labels
<1>4. CASE Crash
  <2>1. pending' \in Seq(RecipientSet)
    BY <1>4, EmptySeq DEF Crash
  <2>2. torn' \in Nat /\ cut' \in BOOLEAN /\ pausedAt' \in Nat /\ stormAt' \in Nat
    BY <1>4 DEF Crash, CutGate, TypeOK
  <2>3. QED
    BY <1>4, <2>1, <2>2, NothingTyped DEF Crash, TypeOK, Labels
<1>5. CASE Wake
  <2>1. cycle' \in Cycles
    <3>1. PICK c \in market : cycle' = [NoCycle EXCEPT !.now = now, !.candle = c]
      BY <1>5 DEF Wake
    <3>2. c \in Candle /\ now \in Nat
      BY DEF TypeOK
    <3>3. QED
      BY <3>1, <3>2, NothingTyped DEF Cycles
  <2>2. QED
    BY <1>5, <2>1 DEF Wake, TypeOK, Labels
<1>6. CASE FetchFails
  BY <1>6, SleepTyped DEF FetchFails, TypeOK
<1>7. CASE Bootstrap
  BY <1>7, LookTyped DEF Bootstrap, TypeOK, Labels
<1>8. CASE FetchNothingNew
  BY <1>8, LookTyped, SleepTyped DEF FetchNothingNew, TypeOK
<1>9. CASE FetchNew
  <2> DEFINE decided == GateUpdate([paused |-> kv.paused, recovery |-> kv.recovery],
                                   cycle.candle, cycle.now)
  <2>1. cycle.candle \in Candle /\ cycle.now \in Nat /\ kv.condition \in Conditions
    BY DEF TypeOK, Cycles
  <2>2. decided \in GateState
    BY <2>1, GateUpdateTyped DEF TypeOK, GateState
  <2>3. cycle' = [cycle EXCEPT !.gate = decided, !.previous = kv.condition,
                               !.wasPaused = kv.paused]
    BY <1>9 DEF FetchNew
  <2> HIDE DEF decided
  <2>4. cycle' \in Cycles
    BY <2>1, <2>2, <2>3 DEF TypeOK, Cycles
  <2>5. pc' \in Labels
    BY <1>9 DEF FetchNew, Labels
  <2>6. stormAt' \in Nat /\ rearmed' \in BOOLEAN /\ sightedAt' \in Nat
    BY <1>9, <2>1, LookTyped DEF FetchNew, TypeOK
  <2>7. QED
    BY <1>9, <2>4, <2>5, <2>6 DEF FetchNew, TypeOK
<1>10. CASE SetPaused
  <2>1. cycle.gate \in GateState /\ cycle.now \in Nat
    BY DEF TypeOK, Cycles
  <2>2. kv' \in [paused : BOOLEAN, recovery : Nat, candle : Nat, condition : Conditions]
    BY <1>10, <2>1 DEF SetPaused, TypeOK, GateState
  <2>3. QED
    BY <1>10, <2>1, <2>2 DEF SetPaused, TypeOK, Labels
<1>11. CASE SetRecovery
  <2>1. cycle.gate \in GateState
    BY DEF TypeOK, Cycles
  <2>2. kv' \in [paused : BOOLEAN, recovery : Nat, candle : Nat, condition : Conditions]
    BY <1>11, <2>1 DEF SetRecovery, TypeOK, GateState
  <2>3. QED
    BY <1>11, <2>2 DEF SetRecovery, TypeOK, Labels
<1>12. CASE SetCandle
  <2>1. cycle.candle \in Candle
    BY DEF TypeOK, Cycles
  <2>2. kv' \in [paused : BOOLEAN, recovery : Nat, candle : Nat, condition : Conditions]
    BY <1>12, <2>1 DEF SetCandle, TypeOK, Candle
  <2>3. QED
    BY <1>12, <2>2 DEF SetCandle, TypeOK, Labels
<1>13. CASE SetCondition
  <2>1. cycle.candle \in Candle
    BY DEF TypeOK, Cycles
  <2>2. kv' \in [paused : BOOLEAN, recovery : Nat, candle : Nat, condition : Conditions]
    BY <1>13, <2>1 DEF SetCondition, TypeOK, Candle
  <2>3. /\ pc' \in Labels /\ wakeAt' \in Nat /\ cycle' \in Cycles
        /\ quote' \in [time : Int, near : BOOLEAN] /\ pending' \in Seq(RecipientSet)
    <3>1. CASE Sleep
      BY <3>1, SleepTyped
    <3>2. CASE Goto("ticker") /\ UNCHANGED cycle
      BY <3>2 DEF TypeOK, Labels
    <3>3. QED
      BY <1>13, <3>1, <3>2 DEF SetCondition
  <2>4. QED
    BY <1>13, <2>2, <2>3 DEF SetCondition, TypeOK
<1>14. CASE TickerFails
  BY <1>14, SleepTyped DEF TickerFails, TypeOK
<1>15. CASE TickerAnswers
  <2>1. quote' \in [time : Int, near : BOOLEAN]
    BY <1>15, MonitorAssumption DEF TickerAnswers, TypeOK, MonitorAssumption
  <2>2. QED
    BY <1>15, <2>1 DEF TickerAnswers, TypeOK, Labels
<1>16. CASE Suppress
  BY <1>16, SleepTyped DEF Suppress, TypeOK
<1>17. CASE AnnounceSignal
  <2>1. cycle.candle.time \in Nat /\ cycle.candle.dir \in Directions
    BY <1>17 DEF AnnounceSignal, Aimed, TypeOK, Cycles, Candle
  <2>2. lastAlert' \in [candle : Nat, dir : Conditions]
    BY <1>17, <2>1 DEF AnnounceSignal, Conditions
  <2>3. sentSignals' \subseteq (Nat \X Directions)
    BY <1>17, <2>1 DEF AnnounceSignal, MarkSignalSent, SignalKey, TypeOK
  <2>4. QED
    BY <1>17, <2>2, <2>3, RecipientsTyped DEF AnnounceSignal, TypeOK, Labels
<1>18. CASE SendNext
  <2>1. Head(pending) \in RecipientSet /\ Tail(pending) \in Seq(RecipientSet)
    BY <1>18, HeadTailProperties DEF SendNext, TypeOK
  <2>2. Append(inbox[Head(pending)], lastAlert) \in Seq([candle : Nat, dir : Conditions])
    BY <2>1, AppendProperties DEF TypeOK
  <2>3. inbox' \in [RecipientSet -> Seq([candle : Nat, dir : Conditions])]
    BY <1>18, <2>1, <2>2 DEF SendNext, TypeOK
  <2>4. QED
    BY <1>18, <2>1, <2>3 DEF SendNext, TypeOK
<1>19. CASE SendDone
  BY <1>19, SleepTyped DEF SendDone, TypeOK
<1>20. CASE CommitFails
  <2>1. torn' \in Nat /\ cut' \in BOOLEAN /\ pausedAt' \in Nat /\ stormAt' \in Nat
    BY <1>20 DEF CommitFails, CutGate, TypeOK
  <2>2. QED
    BY <1>20, <2>1, SleepTyped DEF CommitFails, TypeOK
<1>21. QED
  BY <1>1, <1>2, <1>3, <1>4, <1>5, <1>6, <1>7, <1>8, <1>9, <1>10, <1>11, <1>12, <1>13,
     <1>14, <1>15, <1>16, <1>17, <1>18, <1>19, <1>20 DEF Next, Cycle

LEMMA AimedStep == TypeOK /\ Aimed /\ [Next]_vars => Aimed'
<1> SUFFICES ASSUME TypeOK, Aimed, [Next]_vars PROVE Aimed'
  OBVIOUS
<1> USE DEF Aimed, process, Goto
<1>1. CASE UNCHANGED vars
  BY <1>1 DEF vars
<1>2. CASE Tick
  BY <1>2 DEF Tick
<1>3. CASE SetCondition
  <2>1. CASE Sleep
    BY <2>1 DEF Sleep
  <2>2. CASE IsEdge(cycle.candle) /\ UNCHANGED cycle
    BY <2>2 DEF IsEdge, TypeOK, Cycles, Candle, Conditions
  <2>3. QED
    BY <1>3, <2>1, <2>2 DEF SetCondition
<1>4. CASE TickerAnswers
  BY <1>4 DEF TickerAnswers
<1>5. CASE FetchNew
  <2>1. pc' \in {"setPaused", "setRecovery", "setCandle"}
    BY <1>5 DEF FetchNew
  <2>2. QED
    BY <2>1
<1>6. CASE Next /\ pc' \notin {"ticker", "judge"}
  BY <1>6
<1>7. ASSUME Next, ~Tick, ~SetCondition, ~TickerAnswers, ~FetchNew
      PROVE  pc' \notin {"ticker", "judge"}
  BY <1>7 DEF Next, Cycle, Start, Crash, Wake, FetchFails, Sleep, Bootstrap,
       FetchNothingNew, SetPaused, SetRecovery, SetCandle, TickerFails, Suppress,
       AnnounceSignal, SendNext, SendDone, CommitFails
<1>8. QED
  BY <1>1, <1>2, <1>3, <1>4, <1>5, <1>6, <1>7

(* The tables, the locals of the cycle and the history keep their types,   *)
(* and only signals with a direction enter sent_signals (monitor.py:57,    *)
(* database.py:58-82).                                                     *)
THEOREM TypeCorrect == Spec => []TypeOK
<1>1. Init => TypeOK /\ Aimed
  BY InitTyped DEF Init, Aimed
<1>2. TypeOK /\ Aimed /\ [Next]_vars => (TypeOK /\ Aimed)'
  BY StepTyped, AimedStep
<1>3. QED
  BY <1>1, <1>2, PTL DEF Spec
-------------------------------------------------------------------------------
(* The monitor implements the alert policy.                                *)

InCycle  == pc \notin {"down", "sleep"}
Writing  == {"setPaused", "setRecovery", "setCandle"}
Recorded == {"setCondition", "ticker", "judge"}

(* The recorded candle is never ahead of the clock nor of the candle of    *)
(* the running cycle, and no alert is ahead of the recorded candle; once   *)
(* bootstrapped, a cycle that writes has a candle newer than both.         *)
CandlesInOrder ==
  /\ kv.candle <= LatestClosed(now)
  /\ lastAlert.candle <= kv.candle
  /\ InCycle => /\ cycle.now <= now
                /\ cycle.candle.time = LatestClosed(cycle.now)
                /\ kv.candle <= cycle.candle.time
  /\ bootstrapped /\ pc \in Writing => kv.candle < cycle.candle.time
  /\ pc \in Recorded => kv.candle = cycle.candle.time
  /\ bootstrapped /\ pc \in Recorded => lastAlert.candle < cycle.candle.time
  /\ pc \in {"ticker", "judge"} => bootstrapped

(* Until the episode of the last alert is over, its direction is what the  *)
(* kv table records, and what a cycle compares its candle with.            *)
EpisodeHeld ==
  /\ rearmed \/ lastAlert.dir = "NONE" \/ kv.condition = lastAlert.dir
  /\ pc \in Writing \cup Recorded
       => rearmed \/ cycle.candle.dir = lastAlert.dir
  /\ bootstrapped /\ pc \in Writing \cup Recorded
       => rearmed \/ lastAlert.dir = "NONE" \/ cycle.previous = lastAlert.dir
  /\ pc \in {"ticker", "judge"} => /\ kv.condition = cycle.candle.dir
                                   /\ cycle.previous # cycle.candle.dir

NothingPending == pc # "send" => pending = <<>>

MonitorInv ==
  /\ TypeOK
  /\ Aimed
  /\ CandlesInOrder
  /\ EpisodeHeld
  /\ NothingPending

(* Steps after which no cycle runs, and which leave the tables alone.      *)
Stops == Start \/ Crash \/ FetchFails \/ FetchNothingNew \/ TickerFails
           \/ Suppress \/ SendDone \/ CommitFails

LEMMA StopsStep ==
  ASSUME Stops
  PROVE  /\ pc' \in {"down", "sleep"}
         /\ UNCHANGED <<now, kv, sentSignals, lastAlert, inbox>>
BY DEF Stops, Start, Crash, FetchFails, FetchNothingNew, TickerFails, Suppress,
       SendDone, CommitFails, Sleep, tables, alerts, history

LEMMA FieldsTyped ==
  ASSUME TypeOK
  PROVE  /\ now \in Nat
         /\ kv.candle \in Nat /\ kv.condition \in Conditions
         /\ lastAlert.candle \in Nat
         /\ cycle.now \in Nat
         /\ cycle.candle.time \in Nat /\ cycle.candle.dir \in Conditions
         /\ LatestClosed(now) \in Int
         /\ LatestClosed(cycle.now) \in Int
<1>1. /\ now \in Nat
      /\ kv.candle \in Nat /\ kv.condition \in Conditions
      /\ lastAlert.candle \in Nat
      /\ cycle.now \in Nat
      /\ cycle.candle.time \in Nat /\ cycle.candle.dir \in Conditions
  BY DEF TypeOK, Cycles, Candle
<1>2. ASSUME NEW t \in Nat PROVE LatestClosed(t) \in Int
  BY GateAssumption DEF LatestClosed, GateAssumption
<1>3. QED
  BY <1>1, <1>2

(* What FetchNew keeps of the cycle and adds to it.                        *)
LEMMA FetchNewStep ==
  ASSUME TypeOK, FetchNew
  PROVE  /\ pc = "fetch" /\ bootstrapped /\ kv.candle < cycle.candle.time
         /\ pc' \in Writing
         /\ cycle'.now = cycle.now /\ cycle'.candle = cycle.candle
         /\ cycle'.previous = kv.condition
         /\ UNCHANGED <<now, kv, bootstrapped, lastAlert, pending, inbox>>
<1>1. kv.candle < cycle.candle.time
  BY FieldsTyped DEF FetchNew, IsNew
<1>2. cycle'.now = cycle.now /\ cycle'.candle = cycle.candle /\ cycle'.previous = kv.condition
  BY DEF FetchNew, TypeOK, Cycles
<1>3. QED
  BY <1>1, <1>2 DEF FetchNew, Goto, Writing, tables

LEMMA CandlesStep == TypeOK /\ TypeOK' /\ CandlesInOrder /\ [Next]_vars => CandlesInOrder'
<1> SUFFICES ASSUME TypeOK, TypeOK', CandlesInOrder, [Next]_vars PROVE CandlesInOrder'
  OBVIOUS
<1> USE DEF CandlesInOrder, InCycle, Writing, Recorded, Goto
<1>1. /\ now \in Nat /\ kv.candle \in Nat /\ lastAlert.candle \in Nat
      /\ cycle.now \in Nat /\ cycle.candle.time \in Nat
      /\ LatestClosed(now) \in Int /\ LatestClosed(cycle.now) \in Int
  BY FieldsTyped
<1>2. now' \in Nat /\ LatestClosed(now') \in Int
  <2>1. now' \in Nat
    BY DEF TypeOK
  <2>2. QED
    BY <2>1, GateAssumption DEF LatestClosed, GateAssumption
<1>3. CASE UNCHANGED vars
  BY <1>3 DEF vars, process, tables, history, alerts
<1>4. CASE Tick
  <2>1. LatestClosed(now) <= LatestClosed(now')
    BY <1>1, <1>2, <1>4, LatestClosedMonotone DEF Tick
  <2>2. now <= now' /\ UNCHANGED <<kv, lastAlert, pc, cycle, bootstrapped>>
    BY <1>1, <1>4 DEF Tick, process, tables, history, alerts
  <2>3. QED
    BY <1>1, <1>2, <2>1, <2>2
<1>5. CASE Stops
  BY <1>5, StopsStep
<1>6. CASE Wake
  <2>1. cycle'.now = now /\ cycle'.candle.time = LatestClosed(now)
    BY <1>6 DEF Wake, NoCycle
  <2>2. pc' = "fetch" /\ UNCHANGED <<now, kv, lastAlert>>
    BY <1>6 DEF Wake, tables, history, alerts
  <2>3. QED
    BY <1>1, <2>1, <2>2
<1>7. CASE Bootstrap
  BY <1>1, <1>7 DEF Bootstrap, tables
<1>8. CASE FetchNew
  <2>1. /\ pc = "fetch" /\ kv.candle < cycle.candle.time
        /\ pc' \in Writing
        /\ cycle'.now = cycle.now /\ cycle'.candle = cycle.candle
        /\ UNCHANGED <<now, kv, bootstrapped, lastAlert>>
    BY <1>8, FetchNewStep
  <2>2. QED
    BY <1>1, <2>1
<1>9. CASE SetPaused
  <2>1. kv'.candle = kv.candle
    BY <1>9 DEF SetPaused, TypeOK
  <2>2. QED
    BY <1>9, <2>1 DEF SetPaused, alerts
<1>10. CASE SetRecovery
  <2>1. kv'.candle = kv.candle
    BY <1>10 DEF SetRecovery, TypeOK
  <2>2. QED
    BY <1>10, <2>1 DEF SetRecovery, alerts, history
<1>11. CASE SetCandle
  <2>1. kv'.candle = cycle.candle.time
    BY <1>11 DEF SetCandle, TypeOK
  <2>2. LatestClosed(cycle.now) <= LatestClosed(now)
    BY <1>1, <1>11, LatestClosedMonotone DEF SetCandle
  <2>3. pc = "setCandle" /\ pc' = "setCondition"
        /\ UNCHANGED <<now, lastAlert, cycle, bootstrapped>>
    BY <1>11 DEF SetCandle, alerts, history
  <2>4. QED
    BY <1>1, <2>1, <2>2, <2>3
<1>12. CASE SetCondition
  <2>1. kv'.candle = kv.candle
    BY <1>12 DEF SetCondition, TypeOK
  <2>2. pc = "setCondition" /\ bootstrapped' = TRUE /\ UNCHANGED <<now, lastAlert>>
    BY <1>12 DEF SetCondition, alerts, history
  <2>3. CASE pc' = "sleep"
    BY <1>1, <2>1, <2>2, <2>3
  <2>4. CASE bootstrapped /\ pc' = "ticker" /\ UNCHANGED cycle
    BY <1>1, <2>1, <2>2, <2>4
  <2>5. QED
    BY <1>12, <2>3, <2>4 DEF SetCondition, Sleep
<1>13. CASE TickerAnswers
  BY <1>13 DEF TickerAnswers, tables, history, alerts
<1>14. CASE AnnounceSignal
  <2>1. pc = "judge" /\ pc' = "send" /\ lastAlert'.candle = cycle.candle.time
        /\ UNCHANGED <<now, kv, cycle, bootstrapped>>
    BY <1>14 DEF AnnounceSignal
  <2>2. QED
    BY <1>1, <2>1
<1>15. CASE SendNext
  BY <1>15 DEF SendNext, tables, history, alerts
<1>16. QED
  BY <1>3, <1>4, <1>5, <1>6, <1>7, <1>8, <1>9, <1>10, <1>11, <1>12, <1>13, <1>14, <1>15
     DEF Next, Cycle, Stops

LEMMA EpisodeStep ==
  TypeOK /\ Aimed /\ CandlesInOrder /\ EpisodeHeld /\ [Next]_vars => EpisodeHeld'
<1> SUFFICES ASSUME TypeOK, Aimed, CandlesInOrder, EpisodeHeld, [Next]_vars
             PROVE  EpisodeHeld'
  OBVIOUS
<1> USE DEF EpisodeHeld, Writing, Recorded, Goto
<1>1. CASE UNCHANGED vars
  BY <1>1 DEF vars, process, tables, history, alerts
<1>2. CASE Tick
  BY <1>2 DEF Tick, process, tables, history, alerts
<1>3. CASE Stops
  <2>1. rearmed => rearmed'
    BY <1>3 DEF Stops, Start, Crash, FetchFails, FetchNothingNew, Look, TickerFails,
         Suppress, SendDone, CommitFails, alerts, history
  <2>2. QED
    BY <1>3, <2>1, StopsStep
<1>4. CASE Wake
  BY <1>4 DEF Wake, tables, history, alerts
<1>5. CASE Bootstrap
  <2>1. rearmed => rearmed'
    BY <1>5 DEF Bootstrap, Look
  <2>2. rearmed' \/ cycle.candle.dir = lastAlert.dir
    BY <1>5 DEF Bootstrap, Look
  <2>3. pc' = "setCandle" /\ ~bootstrapped' /\ UNCHANGED <<kv, lastAlert, cycle>>
    BY <1>5 DEF Bootstrap, tables
  <2>4. QED
    BY <2>1, <2>2, <2>3
<1>6. CASE FetchNew
  <2>1. rearmed => rearmed'
    BY <1>6 DEF FetchNew, Look
  <2>2. rearmed' \/ cycle.candle.dir = lastAlert.dir
    BY <1>6 DEF FetchNew, Look
  <2>3. /\ pc' \in Writing /\ cycle'.candle = cycle.candle
        /\ cycle'.previous = kv.condition
        /\ UNCHANGED <<kv, lastAlert>>
    BY <1>6, FetchNewStep
  <2>4. QED
    BY <2>1, <2>2, <2>3
<1>7. CASE SetPaused
  <2>1. kv'.condition = kv.condition
    BY <1>7 DEF SetPaused, TypeOK
  <2>2. QED
    BY <1>7, <2>1 DEF SetPaused, alerts
<1>8. CASE SetRecovery
  <2>1. kv'.condition = kv.condition
    BY <1>8 DEF SetRecovery, TypeOK
  <2>2. QED
    BY <1>8, <2>1 DEF SetRecovery, alerts, history
<1>9. CASE SetCandle
  <2>1. kv'.condition = kv.condition
    BY <1>9 DEF SetCandle, TypeOK
  <2>2. QED
    BY <1>9, <2>1 DEF SetCandle, alerts, history
<1>10. CASE SetCondition
  <2>1. kv'.condition = cycle.candle.dir
    BY <1>10 DEF SetCondition, TypeOK
  <2>2. pc = "setCondition" /\ UNCHANGED <<rearmed, lastAlert>>
    BY <1>10 DEF SetCondition, alerts, history
  <2>3. CASE pc' = "sleep"
    BY <2>1, <2>2, <2>3
  <2>4. CASE bootstrapped /\ IsEdge(cycle.candle) /\ pc' = "ticker" /\ UNCHANGED cycle
    BY <2>1, <2>2, <2>4 DEF IsEdge
  <2>5. QED
    BY <1>10, <2>3, <2>4 DEF SetCondition, Sleep
<1>11. CASE TickerAnswers
  BY <1>11 DEF TickerAnswers, tables, history, alerts
<1>12. CASE AnnounceSignal
  <2>1. pc = "judge" /\ pc' = "send" /\ UNCHANGED <<kv, cycle>>
    BY <1>12 DEF AnnounceSignal
  <2>2. lastAlert'.dir = cycle.candle.dir
    BY <1>12 DEF AnnounceSignal
  <2>3. QED
    BY <2>1, <2>2
<1>13. CASE SendNext
  BY <1>13 DEF SendNext, tables, history, alerts
<1>14. QED
  BY <1>1, <1>2, <1>3, <1>4, <1>5, <1>6, <1>7, <1>8, <1>9, <1>10, <1>11, <1>12, <1>13
     DEF Next, Cycle, Stops

LEMMA NothingPendingStep == NothingPending /\ [Next]_vars => NothingPending'
<1> SUFFICES ASSUME NothingPending, [Next]_vars PROVE NothingPending'
  OBVIOUS
<1> USE DEF NothingPending, Goto
<1>1. CASE UNCHANGED vars \/ Tick \/ Start
  BY <1>1 DEF vars, process, Tick, Start
<1>2. CASE Crash
  BY <1>2 DEF Crash
<1>3. CASE SetCondition
  BY <1>3 DEF SetCondition, Sleep
<1>4. CASE FetchFails \/ FetchNothingNew \/ TickerFails \/ Suppress \/ SendDone \/ CommitFails
  BY <1>4 DEF FetchFails, FetchNothingNew, TickerFails, Suppress, SendDone, CommitFails, Sleep
<1>5. CASE FetchNew
  BY <1>5 DEF FetchNew
<1>6. CASE Wake \/ Bootstrap \/ SetPaused \/ SetRecovery \/ SetCandle \/ TickerAnswers
             \/ AnnounceSignal \/ SendNext
  BY <1>6 DEF Wake, Bootstrap, SetPaused, SetRecovery, SetCandle, TickerAnswers,
       AnnounceSignal, SendNext
<1>7. QED
  BY <1>1, <1>2, <1>3, <1>4, <1>5, <1>6 DEF Next, Cycle

LEMMA InitInv == Init => MonitorInv
<1> SUFFICES ASSUME Init PROVE MonitorInv
  OBVIOUS
<1>1. TypeOK
  BY InitTyped
<1>2. 0 <= LatestClosed(now)
  <2>1. now \in Nat /\ now >= 2 * Minute /\ Minute \in Nat \ {0}
    BY MonitorAssumption, GateAssumption DEF Init, MonitorAssumption, GateAssumption
  <2>2. 1 <= (now - 1) \div Minute /\ (now - 1) \div Minute \in Int
    BY <2>1
  <2>3. Minute <= ((now - 1) \div Minute) * Minute
    BY <2>1, <2>2
  <2>4. QED
    BY <2>1, <2>2, <2>3 DEF LatestClosed
<1>3. CandlesInOrder
  BY <1>2 DEF Init, CandlesInOrder, InCycle, Writing, Recorded
<1>4. EpisodeHeld
  BY DEF Init, EpisodeHeld, Writing, Recorded
<1>5. QED
  BY <1>1, <1>3, <1>4 DEF MonitorInv, Init, Aimed, NothingPending

LEMMA InvStep == MonitorInv /\ [Next]_vars => MonitorInv'
<1> SUFFICES ASSUME MonitorInv, [Next]_vars PROVE MonitorInv'
  OBVIOUS
<1>1. TypeOK' /\ Aimed'
  BY StepTyped, AimedStep DEF MonitorInv
<1>2. CandlesInOrder'
  BY <1>1, CandlesStep DEF MonitorInv
<1>3. EpisodeHeld'
  BY EpisodeStep DEF MonitorInv
<1>4. NothingPending'
  BY NothingPendingStep DEF MonitorInv
<1>5. QED
  BY <1>1, <1>2, <1>3, <1>4 DEF MonitorInv

-------------------------------------------------------------------------------
(* Every step of the monitor is a step of the policy or none.              *)

LEMMA LookStep ==
  ASSUME NEW c, Look(c), rearmed \in BOOLEAN
  PROVE  rearmed' = TRUE \/ rearmed' = rearmed
BY DEF Look

LEMMA StepImplements ==
  MonitorInv /\ [Next]_vars => [Policy!PolicyNext]_(Policy!policyVars)
<1> SUFFICES ASSUME MonitorInv, [Next]_vars
             PROVE  [Policy!PolicyNext]_(Policy!policyVars)
  OBVIOUS
<1> USE DEF Policy!policyVars, Goto
<1>1. CASE UNCHANGED <<lastAlert, rearmed, pending, inbox>>
  BY <1>1
<1>2. CASE pending' = <<>> /\ UNCHANGED <<lastAlert, rearmed, inbox>>
  BY <1>2 DEF Policy!PolicyNext, Policy!Abandon
<1>3. CASE rearmed' = TRUE /\ UNCHANGED <<lastAlert, pending, inbox>>
  BY <1>3 DEF Policy!PolicyNext, Policy!Rearm
<1>4. rearmed \in BOOLEAN
  BY DEF MonitorInv, TypeOK
<1>5. CASE UNCHANGED vars \/ Tick \/ Start \/ Wake \/ SetPaused \/ SetRecovery \/ SetCandle
             \/ TickerAnswers
  BY <1>1, <1>5 DEF vars, process, history, alerts, Tick, Start, Wake, SetPaused,
       SetRecovery, SetCandle, TickerAnswers
<1>6. CASE Crash \/ FetchFails \/ TickerFails \/ Suppress \/ SendDone \/ CommitFails
  BY <1>2, <1>6 DEF Crash, FetchFails, TickerFails, Suppress, SendDone, CommitFails,
       Sleep, history, alerts
<1>7. CASE SetCondition
  BY <1>1, <1>2, <1>7 DEF SetCondition, Sleep, history, alerts
<1>8. CASE Bootstrap \/ FetchNew
  <2>1. rearmed' = TRUE \/ rearmed' = rearmed
    BY <1>4, <1>8, LookStep DEF Bootstrap, FetchNew
  <2>2. UNCHANGED <<lastAlert, pending, inbox>>
    BY <1>8 DEF Bootstrap, FetchNew
  <2>3. QED
    BY <1>1, <1>3, <2>1, <2>2
<1>9. CASE FetchNothingNew
  <2>1. rearmed' = TRUE \/ rearmed' = rearmed
    BY <1>4, <1>9, LookStep DEF FetchNothingNew
  <2>2. pending' = pending /\ UNCHANGED <<lastAlert, inbox>>
    BY <1>9 DEF FetchNothingNew, Sleep, MonitorInv, NothingPending
  <2>3. QED
    BY <1>1, <1>3, <2>1, <2>2
<1>10. CASE AnnounceSignal
  <2>1. /\ pending = <<>> /\ pending' = Recipients /\ rearmed' = FALSE
        /\ UNCHANGED inbox
    BY <1>10 DEF AnnounceSignal, MonitorInv, NothingPending
  <2>2. lastAlert' = [candle |-> cycle.candle.time, dir |-> cycle.candle.dir]
    BY <1>10 DEF AnnounceSignal
  <2>3. cycle.candle.dir \in Directions /\ cycle.candle.time \in Nat
    BY <1>10, FieldsTyped DEF AnnounceSignal, MonitorInv, Aimed
  <2>4. lastAlert' \in [candle : Nat, dir : Policy!Directions]
    BY <2>2, <2>3 DEF Policy!Directions, Directions
  <2>5. lastAlert'.candle > lastAlert.candle
    <3>1. lastAlert.candle < cycle.candle.time
      BY <1>10 DEF AnnounceSignal, MonitorInv, CandlesInOrder, Recorded
    <3>2. lastAlert.candle \in Nat
      BY FieldsTyped DEF MonitorInv
    <3>3. QED
      BY <2>2, <2>3, <3>1, <3>2
  <2>6. rearmed \/ lastAlert'.dir # lastAlert.dir
    <3>1. rearmed \/ lastAlert.dir = "NONE" \/ cycle.previous = lastAlert.dir
      BY <1>10 DEF AnnounceSignal, MonitorInv, CandlesInOrder, EpisodeHeld, Recorded
    <3>2. cycle.previous # cycle.candle.dir
      BY <1>10 DEF AnnounceSignal, MonitorInv, EpisodeHeld
    <3>3. QED
      BY <2>2, <2>3, <3>1, <3>2 DEF Directions
  <2>7. QED
    BY <2>1, <2>4, <2>5, <2>6 DEF Policy!PolicyNext, Policy!Announce
<1>11. CASE SendNext
  BY <1>11 DEF SendNext, alerts, history, Policy!PolicyNext, Policy!Try
<1>12. QED
  BY <1>5, <1>6, <1>7, <1>8, <1>9, <1>10, <1>11 DEF Next, Cycle

(* Across crashes, restarts, failed commits and missed cycles, the monitor *)
(* announces in candle order, repeats a direction only after a candle      *)
(* without it, and tries each recipient at most once (monitor.py:49-103).  *)
THEOREM ImplementsPolicy == Spec => PolicySpec
<1>1. Init => Policy!PolicyInit
  BY DEF Init, Policy!PolicyInit, RecipientSet, Policy!RecipientSet
<1>2. QED
  BY <1>1, InitInv, InvStep, StepImplements, PTL
     DEF Spec, PolicySpec, Policy!PolicySpec

-------------------------------------------------------------------------------
(* What the policy promises, the monitor keeps.                            *)

Promise == INSTANCE AlertPolicyProofs WITH Candles <- Nat

(* Every recipient gets the alerts in candle order and none twice, however *)
(* often the process dies and whatever becomes of the sends                *)
(* (monitor.py:98-103).                                                    *)
THEOREM InOrderAtMostOnceAlways == Spec => []InOrderAtMostOnce
<1>1. Promise!PolicyAssumption
  BY MonitorAssumption DEF MonitorAssumption, Promise!PolicyAssumption
<1>2. Promise!PolicySpec => []Promise!InOrderAtMostOnce
  BY <1>1, Promise!PolicyInOrderAtMostOnce
<1>3. PolicySpec => Promise!PolicySpec
  <2>1. Policy!PolicyInit => Promise!PolicyInit
    BY DEF Policy!PolicyInit, Promise!PolicyInit, Policy!RecipientSet,
           Promise!RecipientSet
  <2>2. [Policy!PolicyNext]_Policy!policyVars
          => [Promise!PolicyNext]_Promise!policyVars
    BY DEF Policy!PolicyNext, Promise!PolicyNext, Policy!policyVars,
           Promise!policyVars, Policy!Rearm, Promise!Rearm,
           Policy!Announce, Promise!Announce, Policy!Directions,
           Promise!Directions, Policy!Try, Promise!Try,
           Policy!Abandon, Promise!Abandon
  <2>3. QED
    BY <2>1, <2>2, PTL DEF PolicySpec, Policy!PolicySpec, Promise!PolicySpec
<1>4. Promise!InOrderAtMostOnce => InOrderAtMostOnce
  BY DEF InOrderAtMostOnce, Policy!InOrderAtMostOnce, Promise!InOrderAtMostOnce,
         Policy!RecipientSet, Promise!RecipientSet
<1>5. QED
  BY <1>2, <1>3, <1>4, ImplementsPolicy, PTL
-------------------------------------------------------------------------------
(* What a step of the monitor may never do: announce while the recorded    *)
(* gate is closed, announce what closed before the process started, and    *)
(* reopen the gate too early.                                              *)

(* The gate's decision is recorded before anything is made of it, and      *)
(* nothing changes the record until the cycle is over.                     *)
GateRecorded ==
  /\ bootstrapped /\ pc \in {"setRecovery", "setCandle", "setCondition"}
       => kv.paused = cycle.gate.paused
  /\ pc \in {"setPaused", "setRecovery"} => bootstrapped
  /\ pc \in {"ticker", "judge"} => ~kv.paused

LEMMA GateRecordedStep == TypeOK /\ GateRecorded /\ [Next]_vars => GateRecorded'
<1> SUFFICES ASSUME TypeOK, GateRecorded, [Next]_vars PROVE GateRecorded'
  OBVIOUS
<1> USE DEF GateRecorded, Goto
<1>1. CASE UNCHANGED vars
  BY <1>1 DEF vars, process, tables
<1>2. CASE Tick
  BY <1>2 DEF Tick, process, tables
<1>3. CASE Stops
  BY <1>3, StopsStep
<1>4. CASE Wake \/ Bootstrap
  <2>1. CASE Wake
    BY <2>1 DEF Wake, tables
  <2>2. CASE Bootstrap
    <3>1. ~bootstrapped' /\ pc' = "setCandle"
      BY <2>2 DEF Bootstrap
    <3>2. QED
      BY <3>1
  <2>3. QED
    BY <1>4, <2>1, <2>2
<1>5. CASE FetchNew
  <2> DEFINE read    == [paused |-> kv.paused, recovery |-> kv.recovery]
             decided == GateUpdate(read, cycle.candle, cycle.now)
  <2>1. /\ cycle' = [cycle EXCEPT !.gate = decided, !.previous = kv.condition,
                                  !.wasPaused = kv.paused]
        /\ pc' = CASE decided.paused # read.paused -> "setPaused"
                   [] decided = read               -> "setCandle"
                   [] /\ decided.paused = read.paused
                      /\ decided # read            -> "setRecovery"
        /\ bootstrapped /\ bootstrapped' = bootstrapped /\ kv' = kv
    BY <1>5 DEF FetchNew, tables
  <2>2. cycle'.gate = decided
    BY <2>1 DEF TypeOK, Cycles
  <2>3. read.paused = kv.paused
    OBVIOUS
  <2> HIDE DEF read, decided
  <2>4. \/ pc' = "setPaused"
        \/ pc' \in {"setCandle", "setRecovery"} /\ decided.paused = read.paused
    BY <2>1
  <2>5. QED
    BY <2>1, <2>2, <2>3, <2>4
<1>6. CASE SetPaused
  <2>1. kv'.paused = cycle.gate.paused
    BY <1>6 DEF SetPaused, TypeOK
  <2>2. QED
    BY <1>6, <2>1 DEF SetPaused
<1>7. CASE SetRecovery
  <2>1. kv'.paused = kv.paused
    BY <1>7 DEF SetRecovery, TypeOK
  <2>2. QED
    BY <1>7, <2>1 DEF SetRecovery
<1>8. CASE SetCandle
  <2>1. kv'.paused = kv.paused
    BY <1>8 DEF SetCandle, TypeOK
  <2>2. QED
    BY <1>8, <2>1 DEF SetCandle
<1>9. CASE SetCondition
  <2>1. kv'.paused = kv.paused
    BY <1>9 DEF SetCondition, TypeOK
  <2>2. pc = "setCondition"
    BY <1>9 DEF SetCondition
  <2>3. CASE Sleep
    BY <2>3 DEF Sleep
  <2>4. CASE bootstrapped /\ ~cycle.gate.paused /\ pc' = "ticker"
    BY <2>1, <2>2, <2>4
  <2>5. QED
    BY <1>9, <2>3, <2>4 DEF SetCondition
<1>10. CASE TickerAnswers
  BY <1>10 DEF TickerAnswers, tables
<1>11. CASE AnnounceSignal
  BY <1>11 DEF AnnounceSignal
<1>12. CASE SendNext
  BY <1>12 DEF SendNext, tables
<1>13. QED
  BY <1>1, <1>2, <1>3, <1>4, <1>5, <1>6, <1>7, <1>8, <1>9, <1>10, <1>11, <1>12
     DEF Next, Cycle, Stops

(* Every step but the announcement leaves the last alert alone.            *)
LEMMA OnlyAnnouncementsAlert ==
  ASSUME [Next]_vars, lastAlert' # lastAlert
  PROVE  AnnounceSignal
<1>1. CASE UNCHANGED vars
  BY <1>1 DEF vars, history, alerts
<1>2. CASE Tick \/ Stops
  BY <1>2, StopsStep DEF Tick, history, alerts
<1>3. CASE Wake \/ Bootstrap \/ FetchNew \/ SetPaused \/ SetRecovery \/ SetCandle
             \/ SetCondition \/ TickerAnswers \/ SendNext
  BY <1>3 DEF Wake, Bootstrap, FetchNew, SetPaused, SetRecovery, SetCandle,
       SetCondition, TickerAnswers, SendNext, history, alerts
<1>4. QED
  BY <1>1, <1>2, <1>3 DEF Next, Cycle, Stops

(* No alert is announced while the recorded gate is closed, however the    *)
(* cycle is delayed between the verdict and the announcement               *)
(* (monitor.py:58-63).                                                     *)
THEOREM SilentWhilePausedAlways == Spec => SilentWhilePaused
<1>1. Init => GateRecorded
  BY DEF Init, GateRecorded
<1>2. GateRecorded /\ [Next]_vars => [lastAlert' # lastAlert => ~kv.paused]_vars
  BY OnlyAnnouncementsAlert DEF GateRecorded, AnnounceSignal
<1>3. QED
  BY <1>1, <1>2, TypeCorrect, GateRecordedStep, PTL DEF Spec, SilentWhilePaused

-------------------------------------------------------------------------------
(* Restarts.                                                               *)

(* The recorded candle of a bootstrapped process is not older than its     *)
(* start, and a cycle of one that writes looks at a newer candle.          *)
SinceStart ==
  /\ startedAt <= now
  /\ InCycle => startedAt <= cycle.now
  /\ pc = "down" => ~bootstrapped
  /\ bootstrapped => LatestClosed(startedAt) <= kv.candle
  /\ bootstrapped /\ pc \in Writing \cup Recorded
       => LatestClosed(startedAt) < cycle.candle.time

(* A candle later than the last one closed at s closed at s or after.      *)
LEMMA LaterCandleClosesLater ==
  ASSUME NEW s \in Nat, NEW t \in Nat, LatestClosed(s) < LatestClosed(t)
  PROVE  s <= LatestClosed(t) + Minute
<1> DEFINE p == (s - 1) \div Minute
           q == (t - 1) \div Minute
<1> USE GateAssumption DEF GateAssumption
<1>1. p \in Int /\ q \in Int
  OBVIOUS
<1>2. s - 1 < p * Minute + Minute
  BY MinuteOf
<1>3. LatestClosed(s) = p * Minute - Minute /\ LatestClosed(t) = q * Minute - Minute
  BY DEF LatestClosed
<1> HIDE DEF p, q
<1>4. p * Minute \in Int /\ q * Minute \in Int
  BY <1>1
<1>5. p < q
  BY <1>1, <1>3, <1>4
<1>6. p * Minute + Minute <= q * Minute
  BY <1>1, <1>5
<1>7. QED
  BY <1>2, <1>3, <1>4, <1>6

LEMMA SinceStartStep ==
  TypeOK /\ TypeOK' /\ CandlesInOrder /\ SinceStart /\ [Next]_vars => SinceStart'
<1> SUFFICES ASSUME TypeOK, TypeOK', CandlesInOrder, SinceStart, [Next]_vars
             PROVE  SinceStart'
  OBVIOUS
<1> USE DEF SinceStart, InCycle, Writing, Recorded, Goto
<1>1. /\ now \in Nat /\ kv.candle \in Nat /\ startedAt \in Nat
      /\ cycle.now \in Nat /\ cycle.candle.time \in Nat
      /\ LatestClosed(startedAt) \in Int
  <2>1. startedAt \in Nat
    BY DEF TypeOK
  <2>2. LatestClosed(startedAt) \in Int
    BY <2>1, GateAssumption DEF LatestClosed, GateAssumption
  <2>3. QED
    BY <2>1, <2>2, FieldsTyped
<1>2. CASE UNCHANGED vars
  BY <1>2 DEF vars, process, tables, history
<1>3. CASE Tick
  BY <1>1, <1>3 DEF Tick, process, tables, history
<1>4. CASE Start
  BY <1>1, <1>4 DEF Start
<1>5. CASE Crash
  BY <1>5 DEF Crash, tables
<1>6. CASE Stops /\ ~Start /\ ~Crash
  <2>1. pc' = "sleep" /\ UNCHANGED <<now, kv, startedAt, bootstrapped>>
    BY <1>6 DEF Stops, FetchFails, FetchNothingNew, TickerFails, Suppress, SendDone,
         CommitFails, Sleep, tables, history
  <2>2. QED
    BY <2>1
<1>7. CASE Wake
  <2>1. cycle'.now = now
    BY <1>7 DEF Wake, NoCycle
  <2>2. QED
    BY <1>1, <1>7, <2>1 DEF Wake, tables, history
<1>8. CASE Bootstrap
  BY <1>8 DEF Bootstrap, tables
<1>9. CASE FetchNew
  <2>1. startedAt' = startedAt
    BY <1>9 DEF FetchNew
  <2>2. QED
    BY <1>1, <1>9, <2>1, FetchNewStep
<1>10. CASE SetPaused \/ SetRecovery
  <2>1. kv'.candle = kv.candle
    BY <1>10 DEF SetPaused, SetRecovery, TypeOK
  <2>2. QED
    BY <1>10, <2>1 DEF SetPaused, SetRecovery, history
<1>11. CASE SetCandle
  <2>1. kv'.candle = cycle.candle.time
    BY <1>11 DEF SetCandle, TypeOK
  <2>2. QED
    BY <1>1, <1>11, <2>1 DEF SetCandle, history
<1>12. CASE SetCondition
  <2>1. kv'.candle = cycle.candle.time
    BY <1>12 DEF SetCondition, TypeOK, CandlesInOrder
  <2>2. LatestClosed(startedAt) <= cycle.candle.time
    BY <1>1, <1>12, LatestClosedMonotone DEF SetCondition, CandlesInOrder
  <2>3. pc = "setCondition" /\ UNCHANGED <<now, startedAt>>
    BY <1>12 DEF SetCondition, history
  <2>4. CASE pc' = "sleep"
    BY <1>12, <2>1, <2>2, <2>3, <2>4
  <2>5. CASE bootstrapped /\ pc' = "ticker" /\ UNCHANGED cycle
    BY <2>1, <2>2, <2>3, <2>5
  <2>6. QED
    BY <1>12, <2>4, <2>5 DEF SetCondition, Sleep
<1>13. CASE TickerAnswers
  BY <1>13 DEF TickerAnswers, tables, history
<1>14. CASE AnnounceSignal
  BY <1>14 DEF AnnounceSignal
<1>15. CASE SendNext
  BY <1>15 DEF SendNext, tables, history
<1>16. QED
  BY <1>2, <1>3, <1>4, <1>5, <1>6, <1>7, <1>8, <1>9, <1>10, <1>11, <1>12, <1>13, <1>14,
     <1>15 DEF Next, Cycle, Stops

(* An alert is never about a candle that closed before this process        *)
(* started, however often it crashed and whatever the tables held          *)
(* (monitor.py:42-50).                                                     *)
THEOREM NoReplayAfterRestartAlways == Spec => NoReplayAfterRestart
<1> DEFINE Inv == MonitorInv /\ SinceStart
<1>1. Init => Inv
  BY InitInv, MonitorAssumption
     DEF Init, SinceStart, InCycle, Writing, Recorded, MonitorAssumption
<1>2. Inv /\ [Next]_vars => Inv'
  BY InvStep, SinceStartStep DEF MonitorInv
<1>3. Inv /\ [Next]_vars
        => [lastAlert' # lastAlert => lastAlert'.candle + Minute >= startedAt]_vars
  <2> SUFFICES ASSUME Inv, [Next]_vars, lastAlert' # lastAlert
               PROVE  lastAlert'.candle + Minute >= startedAt
    OBVIOUS
  <2>1. AnnounceSignal
    BY OnlyAnnouncementsAlert
  <2>2. /\ bootstrapped /\ lastAlert'.candle = cycle.candle.time
        /\ cycle.candle.time = LatestClosed(cycle.now)
        /\ LatestClosed(startedAt) < cycle.candle.time
    BY <2>1 DEF AnnounceSignal, MonitorInv, CandlesInOrder, SinceStart, InCycle, Recorded
  <2>3. startedAt \in Nat /\ cycle.now \in Nat
    BY FieldsTyped DEF MonitorInv, TypeOK
  <2>4. startedAt <= LatestClosed(cycle.now) + Minute
    BY <2>2, <2>3, LaterCandleClosesLater
  <2>5. QED
    BY <2>2, <2>3, <2>4, FieldsTyped, GateAssumption DEF MonitorInv, GateAssumption
<1>4. QED
  BY <1>1, <1>2, <1>3, PTL DEF Spec, NoReplayAfterRestart

-------------------------------------------------------------------------------
(* The gate's windows.                                                     *)

(* What the gate's history remembers happened no later than the cycle.     *)
GateTimes ==
  /\ pausedAt <= now /\ stormAt <= now
  /\ InCycle => cycle.now <= now /\ pausedAt <= cycle.now /\ stormAt <= cycle.now

GateCommits == {"setPaused", "setRecovery"}

(* A gate update is committed only if it changes something.                *)
GateDecided ==
  /\ pc = "setPaused" => kv.paused = cycle.wasPaused /\ cycle.gate.paused # kv.paused
  /\ pc = "setPaused" /\ cycle.gate.paused => cycle.gate.recovery = 0

(* Without a torn update, an observation belongs to a pause and began      *)
(* after the last candle that was not calm: in the tables between the      *)
(* updates, in the decision while one is committed.                        *)
ObservedSinceStorm(paused, recovery) == recovery # 0 => paused /\ stormAt <= recovery

StormRemembered ==
  ~cut =>
    /\ pc \notin GateCommits => ObservedSinceStorm(kv.paused, kv.recovery)
    /\ pc \in GateCommits    => ObservedSinceStorm(cycle.gate.paused, cycle.gate.recovery)
    /\ pc = "setPaused" /\ ~cycle.gate.paused => cycle.now - stormAt >= RecoveryWindow

(* As long as one update at most was torn, an observation in a pause began *)
(* in that pause; as long as none was, there is none outside of one.       *)
ObservedSincePause(paused, recovery) ==
  /\ torn <= 1 /\ paused /\ recovery # 0 => pausedAt <= recovery
  /\ torn = 0 /\ recovery # 0 => paused

Tearing == pc = "setRecovery" /\ cycle.gate.paused # cycle.wasPaused

PauseRemembered ==
  /\ ~Tearing => ObservedSincePause(kv.paused, kv.recovery)
  /\ Tearing /\ torn = 0 /\ kv.paused => kv.recovery = 0
  /\ pc \in GateCommits => ObservedSincePause(cycle.gate.paused, cycle.gate.recovery)
  /\ pc = "setPaused" /\ ~cycle.gate.paused
       => torn >= 2 \/ cycle.now - pausedAt >= RecoveryWindow

(* Steps that have nothing to do with the gate.                            *)
Elsewhere == Tick \/ Wake \/ Bootstrap \/ SetCandle \/ SetCondition
               \/ TickerAnswers \/ AnnounceSignal \/ SendNext

LEMMA ElsewhereStep ==
  ASSUME TypeOK, Elsewhere
  PROVE  /\ pc \notin GateCommits /\ pc' \notin GateCommits
         /\ kv'.paused = kv.paused /\ kv'.recovery = kv.recovery
         /\ UNCHANGED <<pausedAt, stormAt, cut, torn>>
<1> USE DEF GateCommits, Goto, tables, history, gateLog
<1>1. CASE Tick
  BY <1>1 DEF Tick, Awaiting, process
<1>2. CASE Wake \/ Bootstrap
  BY <1>2 DEF Wake, Bootstrap
<1>3. CASE SetCandle
  BY <1>3 DEF SetCandle, TypeOK
<1>4. CASE SetCondition
  BY <1>4 DEF SetCondition, Sleep, TypeOK
<1>5. CASE TickerAnswers \/ AnnounceSignal \/ SendNext
  BY <1>5 DEF TickerAnswers, AnnounceSignal, SendNext
<1>6. QED
  BY <1>1, <1>2, <1>3, <1>4, <1>5 DEF Elsewhere

(* A cycle that stops leaves the tables, and the log knows what it cut.    *)
LEMMA StopsLogged ==
  ASSUME Stops
  PROVE  /\ pc' \in {"down", "sleep"}
         /\ UNCHANGED <<now, kv, pausedAt, stormAt>>
         /\ \/ pc \notin GateCommits /\ UNCHANGED <<cut, torn>>
            \/ /\ cut' = (cut \/ pc \in GateCommits)
               /\ torn' = IF Tearing THEN torn + 1 ELSE torn
<1>1. CASE Crash \/ CommitFails
  BY <1>1 DEF Crash, CommitFails, Sleep, CutGate, Tearing, GateCommits, tables
<1>2. CASE Start
  BY <1>2 DEF Start, GateCommits, tables, gateLog
<1>3. CASE FetchFails \/ FetchNothingNew \/ TickerFails \/ Suppress \/ SendDone
  BY <1>3 DEF FetchFails, FetchNothingNew, TickerFails, Suppress, SendDone, Sleep,
       GateCommits, tables, history, gateLog
<1>4. QED
  BY <1>1, <1>2, <1>3 DEF Stops

(* What a cycle that looks at a new candle may decide.                     *)
LEMMA Decision ==
  ASSUME TypeOK, FetchNew
  PROVE  /\ pc = "fetch" /\ pc' \in GateCommits \cup {"setCandle"}
         /\ UNCHANGED <<kv, pausedAt, cut, torn>>
         /\ stormAt' = IF Calm(cycle.candle) THEN stormAt ELSE cycle.now
         /\ cycle'.now = cycle.now /\ cycle'.wasPaused = kv.paused
         /\ pc' = "setPaused" =>
              /\ cycle'.gate.paused # kv.paused
              /\ cycle'.gate.recovery = 0
              /\ ~cycle'.gate.paused =>
                   /\ kv.paused /\ Calm(cycle.candle) /\ kv.recovery # 0
                   /\ cycle.now - kv.recovery >= RecoveryWindow
         /\ pc' = "setRecovery" =>
              /\ cycle'.gate.paused = kv.paused
              /\ cycle'.gate.recovery # 0 =>
                   kv.paused /\ Calm(cycle.candle) /\ cycle'.gate.recovery = cycle.now
         /\ pc' = "setCandle" /\ ~Calm(cycle.candle) => ~kv.paused \/ kv.recovery = 0
<1> DEFINE read    == [paused |-> kv.paused, recovery |-> kv.recovery]
           decided == GateUpdate(read, cycle.candle, cycle.now)
<1>1. /\ cycle' = [cycle EXCEPT !.gate = decided, !.previous = kv.condition,
                                !.wasPaused = kv.paused]
      /\ pc' = CASE decided.paused # read.paused -> "setPaused"
                 [] decided = read               -> "setCandle"
                 [] /\ decided.paused = read.paused
                    /\ decided # read            -> "setRecovery"
      /\ pc = "fetch"
      /\ UNCHANGED <<kv, pausedAt, cut, torn>>
      /\ stormAt' = IF Calm(cycle.candle) THEN stormAt ELSE cycle.now
  BY DEF FetchNew, Goto, tables
<1>2. cycle'.gate = decided /\ cycle'.now = cycle.now /\ cycle'.wasPaused = kv.paused
  BY <1>1 DEF TypeOK, Cycles
<1>3. read \in GateState /\ read.paused = kv.paused /\ read.recovery = kv.recovery
  BY DEF GateState, TypeOK
<1> HIDE DEF read
<1>4. \/ ~read.paused /\ Shock(cycle.candle)
           /\ decided.paused = TRUE /\ decided.recovery = 0
      \/ ~read.paused /\ decided = read
      \/ read.paused /\ ~Calm(cycle.candle)
           /\ decided.paused = TRUE /\ decided.recovery = 0
           /\ (read.recovery = 0 => decided = read)
      \/ read.paused /\ Calm(cycle.candle) /\ read.recovery = 0
           /\ decided.paused = TRUE /\ decided.recovery = cycle.now
      \/ read.paused /\ Calm(cycle.candle) /\ decided = read
      \/ read.paused /\ Calm(cycle.candle) /\ read.recovery # 0
           /\ Elapsed(read.recovery, cycle.now)
           /\ decided.paused = FALSE /\ decided.recovery = 0
  BY <1>3 DEF GateUpdate, GateState, OpenGate
<1> HIDE DEF decided
<1>5. decided.paused # read.paused => pc' = "setPaused"
  BY <1>1
<1>6. pc' = "setPaused" => decided.paused # read.paused
  BY <1>1, <1>4
<1>7. decided = read => pc' = "setCandle"
  BY <1>1
<1>8. decided.paused = read.paused /\ decided # read => pc' = "setRecovery"
  BY <1>1
<1>9. pc' \in GateCommits \cup {"setCandle"}
  BY <1>5, <1>7, <1>8 DEF GateCommits
<1>10. pc' = "setPaused" =>
         /\ decided.paused # read.paused
         /\ decided.recovery = 0
         /\ ~decided.paused =>
              /\ read.paused /\ Calm(cycle.candle) /\ read.recovery # 0
              /\ cycle.now - read.recovery >= RecoveryWindow
  BY <1>4, <1>6 DEF Elapsed
<1>11. pc' = "setRecovery" =>
         /\ decided.paused = read.paused
         /\ decided.recovery # 0 =>
              read.paused /\ Calm(cycle.candle) /\ decided.recovery = cycle.now
  BY <1>4, <1>5, <1>7
<1>12. pc' = "setCandle" /\ ~Calm(cycle.candle) => ~read.paused \/ read.recovery = 0
  BY <1>4, <1>5, <1>8
<1>13. QED
  BY <1>1, <1>2, <1>3, <1>9, <1>10, <1>11, <1>12

LEMMA GateTyped ==
  ASSUME TypeOK
  PROVE  /\ now \in Nat /\ cycle.now \in Nat
         /\ kv.paused \in BOOLEAN /\ kv.recovery \in Nat
         /\ cycle.gate.paused \in BOOLEAN /\ cycle.gate.recovery \in Nat
         /\ pausedAt \in Nat /\ stormAt \in Nat /\ cut \in BOOLEAN /\ torn \in Nat
BY DEF TypeOK, Cycles, GateState

(* The two commits of an update.                                           *)
LEMMA CommitsStep ==
  ASSUME TypeOK, SetPaused \/ SetRecovery
  PROVE  /\ UNCHANGED <<now, cycle, stormAt, cut, torn>>
         /\ SetPaused => /\ pc = "setPaused" /\ pc' = "setRecovery"
                         /\ kv'.paused = cycle.gate.paused /\ kv'.recovery = kv.recovery
                         /\ pausedAt' = IF cycle.gate.paused THEN cycle.now ELSE pausedAt
         /\ SetRecovery => /\ pc = "setRecovery" /\ pc' = "setCandle"
                           /\ kv'.paused = kv.paused /\ kv'.recovery = cycle.gate.recovery
                           /\ pausedAt' = pausedAt
BY DEF SetPaused, SetRecovery, Goto, TypeOK, history, gateLog

LEMMA StepKinds ==
  [Next]_vars => UNCHANGED vars \/ Elsewhere \/ Stops \/ FetchNew \/ SetPaused \/ SetRecovery
BY DEF Next, Cycle, Stops, Elsewhere

LEMMA GateTimesStep == TypeOK /\ GateTimes /\ [Next]_vars => GateTimes'
<1> SUFFICES ASSUME TypeOK, GateTimes, [Next]_vars PROVE GateTimes'
  OBVIOUS
<1> USE GateTyped DEF GateTimes, InCycle
<1>1. CASE UNCHANGED vars
  BY <1>1 DEF vars, process, history, gateLog
<1>2. CASE Tick
  BY <1>2 DEF Tick, process, history, gateLog
<1>3. CASE Wake
  <2>1. cycle'.now = now
    BY <1>3 DEF Wake, NoCycle
  <2>2. QED
    BY <1>3, <2>1 DEF Wake, history, gateLog
<1>4. CASE Bootstrap \/ SetCandle \/ TickerAnswers \/ AnnounceSignal \/ SendNext
  <2>1. UNCHANGED <<now, cycle, pausedAt, stormAt>> /\ InCycle
    BY <1>4 DEF Bootstrap, SetCandle, TickerAnswers, AnnounceSignal, SendNext,
         history, gateLog
  <2>2. QED
    BY <2>1
<1>5. CASE SetCondition
  <2>1. UNCHANGED <<now, pausedAt, stormAt>> /\ InCycle
        /\ (pc' = "sleep" \/ UNCHANGED cycle)
    BY <1>5 DEF SetCondition, Sleep, history, gateLog
  <2>2. QED
    BY <2>1
<1>6. CASE Stops
  BY <1>6, StopsLogged
<1>7. CASE FetchNew
  <2>1. now' = now
    BY <1>7 DEF FetchNew
  <2>2. QED
    BY <1>7, <2>1, Decision
<1>8. CASE SetPaused \/ SetRecovery
  BY <1>8, CommitsStep
<1>9. QED
  BY <1>1, <1>2, <1>3, <1>4, <1>5, <1>6, <1>7, <1>8, StepKinds DEF Elsewhere

LEMMA GateDecidedStep == TypeOK /\ GateDecided /\ [Next]_vars => GateDecided'
<1> SUFFICES ASSUME TypeOK, GateDecided, [Next]_vars PROVE GateDecided'
  OBVIOUS
<1> USE DEF GateDecided, GateCommits
<1>1. CASE UNCHANGED vars
  BY <1>1 DEF vars, process, tables
<1>2. CASE Elsewhere
  BY <1>2, ElsewhereStep
<1>3. CASE Stops
  BY <1>3, StopsLogged
<1>4. CASE FetchNew
  BY <1>4, Decision
<1>5. CASE SetPaused \/ SetRecovery
  BY <1>5, CommitsStep
<1>6. QED
  BY <1>1, <1>2, <1>3, <1>4, <1>5, StepKinds

LEMMA StormRememberedStep ==
  /\ TypeOK /\ GateRecorded /\ GateTimes /\ StormRemembered
  /\ [Next]_vars
  => StormRemembered'
<1> SUFFICES ASSUME TypeOK, GateRecorded, GateTimes, StormRemembered, [Next]_vars, ~cut'
             PROVE  StormRemembered'
  BY DEF StormRemembered
<1> USE GateTyped DEF StormRemembered, ObservedSinceStorm
<1>1. CASE UNCHANGED vars
  BY <1>1 DEF vars, process, tables, history, gateLog
<1>2. CASE Elsewhere
  <2>1. /\ pc' \notin GateCommits /\ pc \notin GateCommits /\ ~cut
        /\ kv'.paused = kv.paused /\ kv'.recovery = kv.recovery /\ stormAt' = stormAt
    BY <1>2, ElsewhereStep
  <2>2. ObservedSinceStorm(kv.paused, kv.recovery)
    BY <2>1
  <2>3. QED
    BY <2>1, <2>2 DEF GateCommits
<1>3. CASE Stops
  <2>1. pc' \notin GateCommits /\ pc \notin GateCommits /\ ~cut
    BY <1>3, StopsLogged DEF GateCommits
  <2>2. ObservedSinceStorm(kv.paused, kv.recovery)
    BY <2>1
  <2>3. ObservedSinceStorm(kv.paused, kv.recovery)'
    BY <1>3, <2>2, StopsLogged
  <2>4. QED
    BY <2>1, <2>3 DEF GateCommits
<1>4. CASE FetchNew
  <2>1. /\ pc = "fetch" /\ ~cut /\ (kv.recovery # 0 => kv.paused /\ stormAt <= kv.recovery)
        /\ stormAt <= cycle.now
    BY <1>4, Decision DEF GateCommits, GateTimes, InCycle
  <2>2. CASE pc' = "setPaused"
    <3>1. stormAt' = stormAt \/ cycle'.gate.paused
      BY <1>4, <2>2, Decision
    <3>2. CASE cycle'.gate.paused
      BY <1>4, <2>2, <3>2, Decision DEF GateCommits
    <3>3. CASE ~cycle'.gate.paused
      <4>1. /\ stormAt' = stormAt /\ cycle'.now = cycle.now /\ cycle'.gate.recovery = 0
            /\ kv.recovery # 0 /\ cycle.now - kv.recovery >= RecoveryWindow
        BY <1>4, <2>2, <3>3, Decision
      <4>2. cycle.now - stormAt >= RecoveryWindow
        BY <2>1, <4>1, GateAssumption DEF RecoveryWindow, GateAssumption
      <4>3. QED
        BY <2>2, <4>1, <4>2 DEF GateCommits
    <3>4. QED
      BY <3>2, <3>3
  <2>3. CASE pc' = "setRecovery"
    <3>1. cycle'.gate.recovery # 0
            => cycle'.gate.paused /\ stormAt' <= cycle'.gate.recovery
      BY <1>4, <2>1, <2>3, Decision
    <3>2. QED
      BY <2>3, <3>1 DEF GateCommits
  <2>4. CASE pc' = "setCandle"
    <3>1. kv' = kv /\ (stormAt' = stormAt \/ ~kv.paused \/ kv.recovery = 0)
      BY <1>4, <2>4, Decision
    <3>2. QED
      BY <2>1, <2>4, <3>1 DEF GateCommits
  <2>5. QED
    BY <1>4, <2>2, <2>3, <2>4, Decision DEF GateCommits
<1>5. CASE SetPaused
  BY <1>5, CommitsStep DEF GateCommits
<1>6. CASE SetRecovery
  <2>1. kv.paused = cycle.gate.paused
    BY <1>6, CommitsStep DEF GateRecorded
  <2>2. QED
    BY <1>6, <2>1, CommitsStep DEF GateCommits
<1>7. QED
  BY <1>1, <1>2, <1>3, <1>4, <1>5, <1>6, StepKinds

LEMMA PauseRememberedStep ==
  /\ TypeOK /\ GateRecorded /\ GateTimes /\ GateDecided /\ PauseRemembered
  /\ [Next]_vars
  => PauseRemembered'
<1> SUFFICES ASSUME TypeOK, GateRecorded, GateTimes, GateDecided, PauseRemembered,
                    [Next]_vars
             PROVE  PauseRemembered'
  OBVIOUS
<1> USE GateTyped DEF PauseRemembered, ObservedSincePause, Tearing
<1>1. CASE UNCHANGED vars
  BY <1>1 DEF vars, process, tables, history, gateLog
<1>2. CASE Elsewhere
  <2>1. pc # "setRecovery" /\ pc' # "setRecovery" /\ pc' # "setPaused" /\ pc' \notin GateCommits
    BY <1>2, ElsewhereStep DEF GateCommits
  <2>2. QED
    BY <1>2, <2>1, ElsewhereStep
<1>3. CASE Stops
  <2>1. /\ pc' \in {"down", "sleep"} /\ UNCHANGED <<kv, pausedAt>>
        /\ torn' = IF Tearing THEN torn + 1 ELSE torn
    BY <1>3, StopsLogged DEF GateCommits
  <2>2. ObservedSincePause(kv.paused, kv.recovery)'
    BY <2>1
  <2>3. QED
    BY <2>1, <2>2 DEF GateCommits
<1>4. CASE FetchNew
  <2>1. /\ pc = "fetch" /\ UNCHANGED <<kv, pausedAt, torn>> /\ pausedAt <= cycle.now
        /\ cycle'.wasPaused = kv.paused /\ cycle'.now = cycle.now
    BY <1>4, Decision DEF GateTimes, InCycle
  <2>2. ObservedSincePause(kv.paused, kv.recovery)
    BY <2>1
  <2>3. CASE pc' = "setPaused"
    <3>1. cycle'.gate.recovery = 0 /\ cycle'.gate.paused # kv.paused
      BY <1>4, <2>3, Decision
    <3>2. ~cycle'.gate.paused => kv.paused /\ kv.recovery # 0
                                 /\ cycle.now - kv.recovery >= RecoveryWindow
      BY <1>4, <2>3, Decision
    <3>3. ~cycle'.gate.paused => torn >= 2 \/ cycle.now - pausedAt >= RecoveryWindow
      <4>1. RecoveryWindow \in Nat
        BY GateAssumption DEF RecoveryWindow, GateAssumption
      <4>2. torn <= 1 /\ kv.paused /\ kv.recovery # 0 => pausedAt <= kv.recovery
        BY <2>2
      <4> HIDE DEF PauseRemembered, ObservedSincePause
      <4>3. QED
        BY <3>2, <4>1, <4>2
    <3>4. QED
      BY <2>1, <2>2, <2>3, <3>1, <3>3
  <2>4. CASE pc' = "setRecovery"
    <3>1. /\ cycle'.gate.paused = kv.paused
          /\ cycle'.gate.recovery # 0 => kv.paused /\ cycle'.gate.recovery = cycle.now
      BY <1>4, <2>4, Decision
    <3>2. QED
      BY <2>1, <2>2, <2>4, <3>1
  <2>5. CASE pc' = "setCandle"
    BY <2>1, <2>2, <2>5 DEF GateCommits
  <2>6. QED
    BY <1>4, <2>3, <2>4, <2>5, Decision DEF GateCommits
<1>5. CASE SetPaused
  <2>1. /\ pc = "setPaused" /\ pc' = "setRecovery" /\ UNCHANGED <<cycle, torn>>
        /\ kv'.paused = cycle.gate.paused /\ kv'.recovery = kv.recovery
        /\ pausedAt' = IF cycle.gate.paused THEN cycle.now ELSE pausedAt
    BY <1>5, CommitsStep
  <2>2. /\ kv.paused = cycle.wasPaused /\ cycle.gate.paused # kv.paused
        /\ cycle.gate.paused => cycle.gate.recovery = 0
    BY <2>1 DEF GateDecided
  <2>3. torn = 0 /\ cycle.gate.paused => kv.recovery = 0
    BY <2>1, <2>2
  <2>4. ObservedSincePause(cycle.gate.paused, cycle.gate.recovery)'
    BY <2>1, <2>2 DEF GateCommits
  <2>5. QED
    BY <2>1, <2>2, <2>3, <2>4
<1>6. CASE SetRecovery
  <2>1. kv.paused = cycle.gate.paused
    BY <1>6, CommitsStep DEF GateRecorded
  <2>2. QED
    BY <1>6, <2>1, CommitsStep DEF GateCommits
<1>7. QED
  BY <1>1, <1>2, <1>3, <1>4, <1>5, <1>6, StepKinds

GateInv == /\ TypeOK /\ GateRecorded /\ GateTimes /\ GateDecided
           /\ StormRemembered /\ PauseRemembered

LEMMA GateInvariance == Spec => []GateInv
<1> DEFINE Windows == GateRecorded /\ GateTimes /\ GateDecided
                        /\ StormRemembered /\ PauseRemembered
<1>1. Init => Windows
  BY MonitorAssumption
  DEF Init, GateRecorded, GateTimes, InCycle, GateDecided, StormRemembered,
      ObservedSinceStorm, PauseRemembered, ObservedSincePause, Tearing, GateCommits,
      MonitorAssumption
<1>2. TypeOK /\ Windows /\ [Next]_vars => Windows'
  BY GateRecordedStep, GateTimesStep, GateDecidedStep, StormRememberedStep,
     PauseRememberedStep
<1>3. TypeOK /\ Windows => GateInv
  BY DEF GateInv
<1> HIDE DEF Windows
<1>4. QED
  BY <1>1, <1>2, <1>3, TypeCorrect, PTL DEF Spec

(* Only the first commit of a recovery opens the gate.                     *)
LEMMA ResumesBySetPaused ==
  ASSUME TypeOK, GateRecorded, [Next]_vars, Resumes
  PROVE  pc = "setPaused" /\ ~cycle.gate.paused
<1> USE DEF Resumes
<1>1. CASE UNCHANGED vars \/ Stops
  BY <1>1, StopsLogged DEF vars, tables
<1>2. CASE Elsewhere
  BY <1>2, ElsewhereStep
<1>3. CASE FetchNew
  BY <1>3, Decision
<1>4. CASE SetPaused \/ SetRecovery
  BY <1>4, CommitsStep
<1>5. QED
  BY <1>1, <1>2, <1>3, <1>4, StepKinds

(* When no gate update was cut short, the gate reopens only a full         *)
(* recovery window after the last candle it measured that was not calm,    *)
(* for every clock and every missed cycle (safety.py:33-46).  The first    *)
(* candle of a process is not measured (monitor.py:43-48), and nothing is  *)
(* said of it.                                                             *)
THEOREM ReopensAfterCalmAlways == Spec => ReopensAfterCalm
<1>1. GateInv /\ [Next]_vars
        => [Resumes => cut \/ cycle.now - stormAt >= RecoveryWindow]_vars
  BY ResumesBySetPaused, GateTyped DEF GateInv, StormRemembered
<1>2. QED
  BY <1>1, GateInvariance, PTL DEF Spec, ReopensAfterCalm

(* A pause lasts the recovery window whatever the crashes and the failing  *)
(* commits, unless two gate updates were torn (safety.py:27-28, 40-41).    *)
THEOREM PauseLastsAlways == Spec => PauseLasts
<1>1. GateInv /\ [Next]_vars
        => [Resumes => torn >= 2 \/ cycle.now - pausedAt >= RecoveryWindow]_vars
  BY ResumesBySetPaused, GateTyped DEF GateInv, PauseRemembered
<1>2. QED
  BY <1>1, GateInvariance, PTL DEF Spec, PauseLasts
===============================================================================
