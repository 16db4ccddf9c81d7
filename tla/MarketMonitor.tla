---------------------------- MODULE MarketMonitor -----------------------------
(***************************************************************************)
(* MarketMonitor.cycle and run_forever of app/monitor.py, with the kv and  *)
(* sent_signals tables of app/database.py they keep their state in.        *)
(*                                                                         *)
(* One action per await or database commit.  Time passes, and the process  *)
(* is cancelled, only while the loop awaits (Tick); it may die anywhere    *)
(* (Crash), and any commit may raise (CommitFails).                        *)
(***************************************************************************)
EXTENDS AbnormalMoveGate, Sequences

CONSTANTS
  Recipients,      (* settings.wa_recipients                               *)
  WakeSlack,       (* seconds after the minute at which a cycle is planned *)
  MinDelay,        (* shortest sleep between two cycles                    *)
  FutureTolerance, (* how far ahead of the cycle a ticker may be stamped   *)
  MaxTickerAge,    (* how far behind the cycle a ticker may be stamped     *)
  Setups,          (* environment: conditions evaluate() may return        *)
  Movements,       (* environment: [move5, range1] of the closed candles   *)
  TickerLags,      (* environment: age of a ticker when it is answered     *)
  ClockLag,        (* environment: how far the wall clock may fall behind  *)
                   (*   the event loop's own clock during a sleep          *)
  StartTime,       (* environment: clock at the first start                *)
  Horizon          (* bound: the clock stops here                          *)

Directions == {"LONG", "SHORT"}
Conditions == Directions \cup {"NONE"}
RecipientSet == {Recipients[i] : i \in 1 .. Len(Recipients)}

ASSUME MonitorAssumption ==
  /\ Recipients \in Seq(STRING)
  /\ \A i, j \in 1 .. Len(Recipients) : Recipients[i] = Recipients[j] => i = j
  /\ WakeSlack \in Nat /\ MinDelay \in Nat
  /\ FutureTolerance \in Nat /\ MaxTickerAge \in Nat
  /\ Setups \subseteq Conditions
  /\ Movements \subseteq [move5 : Nat, range1 : Nat]
  /\ TickerLags \subseteq Int
  /\ ClockLag \in Nat
  /\ StartTime \in Nat /\ StartTime >= 2 * Minute /\ StartTime % Minute = 0
  /\ Horizon \in Nat

VARIABLES
  now,          (* the wall clock, whole seconds                           *)
  market,       (* the two candles that closed last                        *)
  kv,           (* kv table: the gate's two keys and the monitor's two     *)
  sentSignals,  (* sent_signals table: keys of the announced signals       *)
  pc,           (* where run_forever stands                                *)
  bootstrapped, (* MarketMonitor._bootstrapped                             *)
  cycle,        (* locals of the running cycle                             *)
  quote,        (* the ticker the cycle was answered                       *)
  pending,      (* recipients the cycle still has to try                   *)
  wakeAt,       (* when the sleep between cycles ends                      *)
  inbox,        (* inbox[r]: what reached r                                *)
  lastAlert,    (* history: the last announced alert                       *)
  rearmed,      (* history: a candle without its setup was seen since      *)
  startedAt,    (* history: when this process started                      *)
  pausedAt,     (* history: clock of the cycle that recorded the pause     *)
  stormAt,      (* history: clock of the last cycle whose gate measured a  *)
                (*   candle that was not calm                              *)
  sightedAt,    (* history: clock of the last cycle that looked at such a  *)
                (*   candle, measured or not                               *)
  cut,          (* history: a gate update was cut short                    *)
  torn          (* history: gate updates cut between two of their writes   *)

process == <<pc, bootstrapped, cycle, quote, pending, wakeAt>>
tables  == <<kv, sentSignals>>
alerts  == <<lastAlert, rearmed>>
gateLog == <<pausedAt, stormAt, cut, torn>>
history == <<alerts, startedAt, gateLog, sightedAt>>
vars    == <<now, market, process, tables, inbox, history>>

(* A closed candle: its open time, the condition evaluate() finds on it,   *)
(* the gate's measurements; history: the close of the first of the         *)
(* unbroken run of calm candles it ends (0 when it is not calm).           *)
Candle == [time : Nat, dir : Conditions, move5 : Nat, range1 : Nat, calmSince : Nat]

NoCandle == [time |-> 0, dir |-> "NONE", move5 |-> 0, range1 |-> 0, calmSince |-> 0]

(* now, latest and condition, the gate's decision, previous_condition;     *)
(* history: the gate's pause before the decision.                          *)
NoCycle == [now |-> 0, candle |-> NoCandle, gate |-> OpenGate,
            previous |-> "NONE", wasPaused |-> FALSE]

NoQuote == [time |-> 0, near |-> FALSE]

-------------------------------------------------------------------------------
(* The arithmetic and the tests of the cycle.                              *)

(* Open time of the last candle that is closed one second before t.        *)
LatestClosed(t) == ((t - 1) \div Minute) * Minute - Minute

(* The end of max(10, 60 - t % 60 + 2.5) seconds of sleep from t on.       *)
WakeTime(t) ==
  LET planned == (t \div Minute + 1) * Minute + WakeSlack
  IN  IF planned - t >= MinDelay THEN planned ELSE t + MinDelay

IsNew(c) == c.time > kv.candle

(* Mutant: "not signal" is not tested.                                     *)
IsChange(c) == cycle.previous # c.dir

(* Mutant: the condition alerts, not its edge.                             *)
IsLevel(c) == c.dir # "NONE"

IsEdge(c) == c.dir # "NONE" /\ cycle.previous # c.dir

TickerTimely == /\ cycle.now - quote.time >= -FutureTolerance
                /\ cycle.now - quote.time <= MaxTickerAge

(* INSERT OR IGNORE: the row count tells whether the key was new.          *)
MarkSignalSent(key) == sentSignals' = sentSignals \cup {key}

SignalKey(c) == <<c.time, c.dir>>

(* Leave the cycle, normally or by an exception run_forever logs.          *)
Sleep ==
  /\ pc' = "sleep"
  /\ wakeAt' = WakeTime(now)
  /\ cycle' = NoCycle
  /\ quote' = NoQuote
  /\ pending' = <<>>

Goto(label) == pc' = label /\ UNCHANGED <<quote, pending, wakeAt>>

-------------------------------------------------------------------------------
(* The environment: the clock, the exchange's candles, the host.           *)

(* The candle that opens at t, after the candle last.                      *)
ClosedCandle(t, last) ==
  LET calmSince(m) == CASE ~Calm(m)                      -> 0
                        [] Calm(m) /\ last.calmSince = 0 -> t + Minute
                        [] Calm(m) /\ last.calmSince # 0 -> last.calmSince
  IN  {[time |-> t, dir |-> d, move5 |-> m.move5, range1 |-> m.range1,
        calmSince |-> calmSince(m)] :
          d \in Setups, m \in Movements}

Init ==
  /\ now = StartTime
  /\ market = {[NoCandle EXCEPT !.time = t, !.calmSince = StartTime - Minute] :
                 t \in {StartTime - Minute, StartTime - 2 * Minute}}
  /\ kv = [paused |-> FALSE, recovery |-> 0, candle |-> 0, condition |-> "NONE"]
  /\ sentSignals = {}
  /\ pc = "down"
  /\ bootstrapped = FALSE
  /\ cycle = NoCycle
  /\ quote = NoQuote
  /\ pending = <<>>
  /\ wakeAt = 0
  /\ inbox = [r \in RecipientSet |-> <<>>]
  /\ lastAlert = [candle |-> 0, dir |-> "NONE"]
  /\ rearmed = FALSE
  /\ startedAt = 0
  /\ pausedAt = 0
  /\ stormAt = 0
  /\ sightedAt = 0
  /\ cut = FALSE
  /\ torn = 0

CloseCandle(t) ==
  \E last \in market :
    /\ last.time = t - Minute
    /\ \E c \in ClosedCandle(t, last) : market' = {last, c}

Awaiting == pc \in {"down", "sleep", "fetch", "ticker", "send"}

Tick ==
  /\ Awaiting
  /\ now < Horizon
  /\ now' = now + 1
  /\ IF now' % Minute = 0
     THEN CloseCandle(now' - Minute)
     ELSE UNCHANGED market
  /\ UNCHANGED <<process, tables, inbox, history>>

(* The host starts the service: lifespan creates the monitor's task.       *)
Start ==
  /\ pc = "down"
  /\ pc' = "sleep"
  /\ wakeAt' = now
  /\ startedAt' = now
  /\ UNCHANGED <<now, market, tables, bootstrapped, cycle, quote, pending, inbox,
                 alerts, gateLog, sightedAt>>

(* History of a gate update that does not finish: one that changes paused  *)
(* is two transactions, and is torn when only the first was committed.     *)
CutGate ==
  /\ cut' = (cut \/ pc \in {"setPaused", "setRecovery"})
  /\ torn' = IF pc = "setRecovery" /\ cycle.gate.paused # cycle.wasPaused
             THEN torn + 1 ELSE torn
  /\ UNCHANGED <<pausedAt, stormAt>>

(* The process dies, or is cancelled at an await, and loses its memory.    *)
Crash ==
  /\ pc # "down"
  /\ pc' = "down"
  /\ bootstrapped' = FALSE
  /\ cycle' = NoCycle
  /\ quote' = NoQuote
  /\ pending' = <<>>
  /\ wakeAt' = 0
  /\ CutGate
  /\ UNCHANGED <<now, market, tables, inbox, alerts, startedAt, sightedAt>>

-------------------------------------------------------------------------------
(* The cycle.                                                              *)

(* The sleep is measured by the loop's clock, what follows it by the wall  *)
(* clock, which is read once and fixes the candles the cycle asks for.     *)
Wake ==
  /\ pc = "sleep"
  /\ now + ClockLag >= wakeAt
  /\ \E c \in market :
       /\ c.time = LatestClosed(now)
       /\ cycle' = [NoCycle EXCEPT !.now = now, !.candle = c]
  /\ Goto("fetch")
  /\ UNCHANGED <<now, market, tables, bootstrapped, inbox, history>>

(* Mutant: an exception of the cycle ends the task.                        *)
FetchFailsUncaught ==
  /\ pc = "fetch"
  /\ pc' = "dead"
  /\ UNCHANGED <<now, market, tables, bootstrapped, cycle, quote, pending, wakeAt,
                 inbox, history>>

(* An API error, an incomplete batch, or too few candles.                  *)
FetchFails ==
  /\ pc = "fetch"
  /\ Sleep
  /\ UNCHANGED <<now, market, tables, bootstrapped, inbox, history>>

(* History: what looking at a candle tells of the last alert's episode and *)
(* of the movement.                                                        *)
Look(c) ==
  /\ rearmed' = (rearmed \/ c.dir # lastAlert.dir)
  /\ sightedAt' = IF Calm(c) THEN sightedAt ELSE cycle.now

(* First candle of this process: only its state will be recorded, the gate *)
(* does not measure it.                                                    *)
Bootstrap ==
  /\ pc = "fetch"
  /\ ~bootstrapped
  /\ Look(cycle.candle)
  /\ Goto("setCandle")
  /\ UNCHANGED <<now, market, tables, bootstrapped, cycle, inbox, lastAlert,
                 startedAt, gateLog>>

FetchNothingNew ==
  /\ pc = "fetch"
  /\ bootstrapped
  /\ ~IsNew(cycle.candle)
  /\ Look(cycle.candle)
  /\ Sleep
  /\ UNCHANGED <<now, market, tables, bootstrapped, inbox, lastAlert, startedAt,
                 gateLog>>

(* gate.update reads its keys and decides, previous_condition is read; the *)
(* commits follow one by one and nothing else runs until the next await.   *)
FetchNew ==
  /\ pc = "fetch"
  /\ bootstrapped
  /\ IsNew(cycle.candle)
  /\ Look(cycle.candle)
  /\ LET read    == [paused |-> kv.paused, recovery |-> kv.recovery]
         decided == GateUpdate(read, cycle.candle, cycle.now)
     IN  /\ cycle' = [cycle EXCEPT !.gate = decided, !.previous = kv.condition,
                                   !.wasPaused = kv.paused]
         /\ Goto(CASE decided.paused # read.paused -> "setPaused"
                   [] decided = read               -> "setCandle"
                   [] /\ decided.paused = read.paused
                      /\ decided # read            -> "setRecovery")
  /\ stormAt' = IF Calm(cycle.candle) THEN stormAt ELSE cycle.now
  /\ UNCHANGED <<now, market, tables, bootstrapped, inbox, lastAlert, startedAt,
                 pausedAt, cut, torn>>

SetPaused ==
  /\ pc = "setPaused"
  /\ kv' = [kv EXCEPT !.paused = cycle.gate.paused]
  /\ pausedAt' = IF cycle.gate.paused THEN cycle.now ELSE pausedAt
  /\ Goto("setRecovery")
  /\ UNCHANGED <<now, market, sentSignals, bootstrapped, cycle, inbox, alerts,
                 startedAt, stormAt, cut, torn, sightedAt>>

SetRecovery ==
  /\ pc = "setRecovery"
  /\ kv' = [kv EXCEPT !.recovery = cycle.gate.recovery]
  /\ Goto("setCandle")
  /\ UNCHANGED <<now, market, sentSignals, bootstrapped, cycle, inbox, history>>

SetCandle ==
  /\ pc = "setCandle"
  /\ kv' = [kv EXCEPT !.candle = cycle.candle.time]
  /\ Goto("setCondition")
  /\ UNCHANGED <<now, market, sentSignals, bootstrapped, cycle, inbox, history>>

(* Mutant: the first candle of a process is treated like every other.      *)
SetConditionAlertingAtStart ==
  /\ pc = "setCondition"
  /\ kv' = [kv EXCEPT !.condition = cycle.candle.dir]
  /\ bootstrapped' = TRUE
  /\ IF IsEdge(cycle.candle) /\ ~cycle.gate.paused
     THEN Goto("ticker") /\ UNCHANGED cycle
     ELSE Sleep
  /\ UNCHANGED <<now, market, sentSignals, inbox, history>>

(* Mutant: the verdict of the gate is not tested.                          *)
SetConditionIgnoringGate ==
  /\ pc = "setCondition"
  /\ kv' = [kv EXCEPT !.condition = cycle.candle.dir]
  /\ bootstrapped' = TRUE
  /\ IF bootstrapped /\ IsEdge(cycle.candle)
     THEN Goto("ticker") /\ UNCHANGED cycle
     ELSE Sleep
  /\ UNCHANGED <<now, market, sentSignals, inbox, history>>

(* The last commit, then the tests that need no further await.             *)
SetCondition ==
  /\ pc = "setCondition"
  /\ kv' = [kv EXCEPT !.condition = cycle.candle.dir]
  /\ bootstrapped' = TRUE
  /\ IF bootstrapped /\ IsEdge(cycle.candle) /\ ~cycle.gate.paused
     THEN Goto("ticker") /\ UNCHANGED cycle
     ELSE Sleep
  /\ UNCHANGED <<now, market, sentSignals, inbox, history>>

TickerFails ==
  /\ pc = "ticker"
  /\ Sleep
  /\ UNCHANGED <<now, market, tables, bootstrapped, inbox, history>>

TickerAnswers ==
  /\ pc = "ticker"
  /\ \E lag \in TickerLags, near \in BOOLEAN :
       quote' = [time |-> now - lag, near |-> near]
  /\ pc' = "judge"
  /\ UNCHANGED <<now, market, tables, bootstrapped, cycle, pending, wakeAt, inbox,
                 history>>

(* The ticker's stamp is compared with the clock read at the cycle's start.*)
Suppress ==
  /\ pc = "judge"
  /\ \/ ~TickerTimely \/ ~quote.near
     \/ Recipients = <<>>
     \/ SignalKey(cycle.candle) \in sentSignals
  /\ Sleep
  /\ UNCHANGED <<now, market, tables, bootstrapped, inbox, history>>

AnnounceSignal ==
  /\ pc = "judge"
  /\ TickerTimely /\ quote.near /\ Recipients # <<>>
  /\ SignalKey(cycle.candle) \notin sentSignals
  /\ MarkSignalSent(SignalKey(cycle.candle))
  /\ pending' = Recipients
  /\ lastAlert' = [candle |-> cycle.candle.time, dir |-> cycle.candle.dir]
  /\ rearmed' = FALSE
  /\ pc' = "send"
  /\ UNCHANGED <<now, market, kv, bootstrapped, cycle, quote, wakeAt, inbox,
                 startedAt, gateLog, sightedAt>>

(* Mutant: a send that raised is tried again.                              *)
SendNextRetrying ==
  /\ pc = "send"
  /\ pending # <<>>
  /\ \/ inbox' = [inbox EXCEPT ![Head(pending)] = Append(@, lastAlert)]
     \/ UNCHANGED inbox
  /\ pending' \in {pending, Tail(pending)}
  /\ UNCHANGED <<now, market, tables, pc, bootstrapped, cycle, quote, wakeAt, history>>

(* One recipient: what arrives and what the client reports are unrelated,  *)
(* an exception is logged, and the loop goes on with the next recipient.   *)
SendNext ==
  /\ pc = "send"
  /\ pending # <<>>
  /\ \/ inbox' = [inbox EXCEPT ![Head(pending)] = Append(@, lastAlert)]
     \/ UNCHANGED inbox
  /\ pending' = Tail(pending)
  /\ UNCHANGED <<now, market, tables, pc, bootstrapped, cycle, quote, wakeAt, history>>

SendDone ==
  /\ pc = "send"
  /\ pending = <<>>
  /\ Sleep
  /\ UNCHANGED <<now, market, tables, bootstrapped, inbox, history>>

(* A commit raises: the transaction is rolled back and the cycle is over.  *)
CommitFails ==
  /\ pc \in {"setPaused", "setRecovery", "setCandle", "setCondition", "judge"}
  /\ Sleep
  /\ CutGate
  /\ UNCHANGED <<now, market, tables, bootstrapped, inbox, alerts, startedAt, sightedAt>>

Cycle ==
  \/ Wake
  \/ FetchFails \/ Bootstrap \/ FetchNothingNew \/ FetchNew
  \/ SetPaused \/ SetRecovery \/ SetCandle \/ SetCondition
  \/ TickerFails \/ TickerAnswers \/ Suppress \/ AnnounceSignal
  \/ SendNext \/ SendDone
  \/ CommitFails

Next == Tick \/ Start \/ Crash \/ Cycle

Spec == Init /\ [][Next]_vars

(* Every await of the cycle is bounded by a timeout and the retries are    *)
(* counted, so a running cycle keeps stepping; nothing is assumed of the   *)
(* clock, of restarts, or of what the exchange and WhatsApp answer.        *)
FairSpec == Spec /\ WF_vars(Cycle)

-------------------------------------------------------------------------------
(* Properties.                                                             *)

Labels == {"down", "sleep", "fetch", "setPaused", "setRecovery", "setCandle",
           "setCondition", "ticker", "judge", "send"}

Cycles == [now : Nat, candle : Candle, gate : GateState, previous : Conditions,
           wasPaused : BOOLEAN]

(* Type invariant: the tables, the locals and the history hold what the    *)
(* code can put in them.                                                   *)
TypeOK ==
  /\ now \in Nat
  /\ market \subseteq Candle
  /\ kv \in [paused : BOOLEAN, recovery : Nat, candle : Nat, condition : Conditions]
  /\ sentSignals \subseteq (Nat \X Directions)
  /\ pc \in Labels
  /\ bootstrapped \in BOOLEAN
  /\ cycle \in Cycles
  /\ quote \in [time : Int, near : BOOLEAN]
  /\ pending \in Seq(RecipientSet)
  /\ wakeAt \in Nat
  /\ inbox \in [RecipientSet -> Seq([candle : Nat, dir : Conditions])]
  /\ lastAlert \in [candle : Nat, dir : Conditions]
  /\ rearmed \in BOOLEAN
  /\ startedAt \in Nat
  /\ pausedAt \in Nat
  /\ stormAt \in Nat
  /\ sightedAt \in Nat
  /\ cut \in BOOLEAN
  /\ torn \in Nat

(* The monitor implements the alert policy: across crashes, restarts and   *)
(* failed commits it announces in candle order, announces a direction      *)
(* again only after having looked at a candle without it, and tries every  *)
(* recipient at most once (monitor.py:49-103).                             *)
Policy == INSTANCE AlertPolicy WITH Candles <- Nat
PolicySpec == Policy!PolicySpec

(* Each recipient gets alerts in candle order, none of them twice, though  *)
(* a send that raised may have arrived (monitor.py:98-103).                *)
InOrderAtMostOnce == Policy!InOrderAtMostOnce

(* A started process never announces a candle that closed before it        *)
(* started (README, "It does not send missed/stale alerts").               *)
NoReplayAfterRestart ==
  [][lastAlert' # lastAlert => lastAlert'.candle + Minute >= startedAt]_vars

Resumes == kv.paused /\ ~kv'.paused

(* A recorded pause lasts at least the recovery window, whatever the       *)
(* crashes, as long as at most one gate update was torn between its two    *)
(* commits (safety.py:27-28 and 40-41).                                    *)
PauseLasts ==
  [][Resumes => torn >= 2 \/ cycle.now - pausedAt >= RecoveryWindow]_vars

(* When no gate update was cut short, the gate reopens only a full         *)
(* recovery window after the last candle it measured that was not calm,    *)
(* whatever cycles were missed and processes restarted in between          *)
(* (safety.py:33-46).  The first candle of a process is not measured.      *)
ReopensAfterCalm ==
  [][Resumes => cut \/ cycle.now - stormAt >= RecoveryWindow]_vars

(* No signal is announced while the recorded gate is closed, however long  *)
(* the ticker took (monitor.py:58).                                        *)
SilentWhilePaused == [][lastAlert' # lastAlert => ~kv.paused]_vars

(* A cycle that began ends: the loop comes back to its sleep, or the       *)
(* process is down (monitor.py:105-116).                                   *)
CycleReturns == pc \notin {"down", "sleep"} ~> pc \in {"down", "sleep"}
-------------------------------------------------------------------------------
(* What the README says of the monitor, as it is worded there.             *)

(* "Resume requires the 5-minute move to remain below 0.50% and the        *)
(* 1-minute range below 0.60% for 15 continuous minutes": every candle of  *)
(* the window was calm (README.md:39).                                     *)
ContinuousCalm ==
  [][Resumes => /\ cycle.candle.calmSince # 0
                /\ cycle.now - cycle.candle.calmSince >= RecoveryWindow]_vars

(* The same sentence, of the candles the monitor looked at alone: an       *)
(* uneasy one is not less than a window ago (README.md:39).                *)
CalmInSight ==
  [][Resumes => cut \/ cycle.now - sightedAt >= RecoveryWindow]_vars

(* "An alert is suppressed when ... the ticker timestamp is stale (older   *)
(* than 120 seconds)" (README.md:41).                                      *)
StaleTickerSuppressed ==
  [][lastAlert' # lastAlert => now - quote.time <= MaxTickerAge]_vars
===============================================================================
