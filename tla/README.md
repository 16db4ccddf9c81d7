# Verification of the BTCUSDT WhatsApp signal bot

TLA+ models of the service in `src/app`, the TLC runs that check them on small
instances, and TLAPS proofs of what matters most for every instance. The bot is
a single Python process: one monitor task that looks at every closed one-minute
candle and sends alerts, a webhook that answers commands and starts backtests,
and one SQLite file. Nothing trades. What can go wrong is therefore *which
alerts people get, which they miss, and whether a backtest says what the live
rules would have done*; the models are about that.

## 1. Inventory

| part | state | operations | talks to |
|---|---|---|---|
| live monitor (`monitor.py`) | `_bootstrapped`; kv keys `monitor_last_candle`, `monitor_last_condition` | `cycle`, `run_forever` | exchange client, gate, database, WhatsApp |
| abnormal-move gate (`safety.py`) | kv keys `abnormal_paused`, `recovery_start` (`abnormal_reason` is never read) | `update` | database |
| database (`database.py`) | tables `kv`, `processed_messages`, `sent_signals` | `get`, `set`, `mark_message_processed`, `mark_signal_sent`, each one transaction | SQLite |
| exchange client (`mexc.py`) | throttle lock, `_last_request_at` | `get_candle_batch`, `get_recent_closed_candles`, `get_ticker`, `get_contract_info`, `_get_json` with retries | MEXC |
| command service (`main.py`) | `backtest_lock`, `jobs`, the monitor's task | `receive_webhook`, `_run_backtest_job`, `lifespan` | database, backtest, WhatsApp |
| backtest (`backtest.py`) | none between calls | `_build_pause_flags`, `_run_variant`, `run_backtest` | exchange client |
| strategy, indicators, sizing | none | pure functions | |
| WhatsApp client (`whatsapp.py`) | none | `send_text`, `send_chunks`, parsing of payloads, signatures | Meta |
| configuration (`config.py`) | settings | `validate` | |

**Interaction.** The monitor and the jobs share the event loop, the exchange
client and the database. Python code interleaves only at an `await`; every
database call is synchronous and its own transaction, so a crash can fall
between two of them but no other task can. Meta repeats a payload until it is
answered with 200, and requests for the same payload may overlap. The webhook
reads keys the monitor writes (`/status`).

**What is hard.**
- *Time.* A cycle reads the clock once and then awaits downloads that can take
  longer than the minute; cycles are then missed, and comparisons use an old
  clock.
- *Crashes between commits.* A candle and its condition are two commits, a trip
  or a recovery of the gate two, a mark and the sending that follows it one and
  none.
- *Delivery.* A send that raised may have arrived; a webhook is repeated,
  concurrently too.
- *Locking.* `locked()` is asked in one task and the lock taken in another.
- *Stopping.* The monitor, the jobs and the clients end in a certain order.
- *Two versions of one rule.* Pauses, edges and the setup rule itself exist live
  and in the backtest; the live side has a past the backtest does not know, a gate
  that may be closed and averages with other seeds.
- *Sharing.* One throttle lets the requests of all tasks pass one by one; a task
  can be cancelled while it holds it or queues for it.
- *Off by one.* Segments, seeds of averages, the candle an entry or an exit belongs
  to, floors and ceilings to steps and ticks.

**What makes each part correct.** The monitor: alerts in candle order, once per
episode of a setup, once per recipient, none replayed after a restart, none during a
pause. The gate: a pause lasts its window from the last uneasy candle it measured.
The command service: a message handled at most once, never acknowledged unrecorded,
lost only by an interruption, backtests one at a time, an orderly end. The candle
download: what passes as complete is the range that was asked for. The requests:
spaced, in order, so many per call and no more, and every call ends. The replay:
what it does not know of the live side's past, and what the two judge differently,
leaves no trace in its pauses and edges. The backtest: it acts on its edges, each
once, one position at a time, and its counters add up. The strategy: no look-ahead,
the same rule in both texts, seeds that fade. The sizing: the most the budget and
the contract allow.

## 2. Modules

| module | models | abstracts |
|---|---|---|
| `AlertPolicy` | what recipients may rely on (abstract specification) | everything but announcements and tries |
| `AbnormalMoveGate` | `AbnormalMoveGate.update` as an operator on the two keys | a candle's measurements are two numbers |
| `MarketMonitor` | `cycle`, `run_forever`, the commits of the gate, the tables | the text of alerts, prices (a quote is near or not) |
| `SignalReplay` | `_build_pause_flags` and the edge loop, beside the live gate and edge rule | no missed cycles |
| `Backtest` | `run_backtest` for one variant: refusals, edges, the loop of `_run_variant`, counters | sums of money, averages, the report |
| `Sizing` | `floor_to_step`, `calculate_quantity` | decimals (whole multiples of a unit) |
| `Strategy` | `ema`, `rsi_wilder`, `evaluate`, `signal_at` | floats (exact fractions), the target price |
| `MexcRequests` | `_get_json`: throttle, attempts, pauses, cancellation | what an answer says |
| `CandleBatch` | `get_candle_batch`, `CandleBatch.complete` | prices (a row is valid or not) |
| `CommandService` | `receive_webhook`, `_run_backtest_job`, `lifespan` | texts, the contents of a backtest |

`MC*` modules only give constants their values. `*Proofs` modules hold theorems.
`MarketMonitor` extends `AbnormalMoveGate` and instantiates `AlertPolicy` with
its own variables; `SignalReplay` extends `AbnormalMoveGate`, so that the live
side of the comparison is the operator the monitor uses; `Backtest` extends
`SignalReplay` and `Sizing`, so that what it trades on are the edges of the one and
what it buys is the quantity of the other.

**MarketMonitor and the code.** `pc` is the place in `run_forever`: `sleep` (116),
`fetch` (29), `setPaused` and `setRecovery` (safety.py 27-28, 37, 40-41, 45),
`setCandle` and `setCondition` (44-45, 54-55), `ticker` (64), `judge` (68-97),
`send` (99-103), `down` when there is no process. `Tick` moves the clock, and only
while the loop awaits: a database call takes no time, and the clock is assumed never
to go back. A sleep is measured by another clock (the event loop's), so a cycle may
begin up to `ClockLag` seconds before the wall clock it was planned for; only then
can it find nothing new (monitor.py:49). `Crash` is the death of the process and
also its cancellation, which is the same to the monitor. `CommitFails` is any commit
that raises; the cycle ends in the `except` of `run_forever`. A torn update of the
gate is recorded by history variables (`cut`, `torn`), which only properties read;
so are `stormAt`, the clock of the last cycle whose gate measured an uneasy candle,
and `sightedAt`, that of the last cycle that looked at one, the first cycle of a
process included (it records the candle and leaves the gate alone, 43-48).
`kv.recovery` is 0 both for "0" and for an absent key, as `int(... or 0)` makes
them. `cycle.candle` is what the download returned for the clock the cycle read; an
incomplete batch is `FetchFails`.

**CommandService and the code.** A handler is a request being served (`todo`
is what is left of the loop at main.py:137, `sending` the await of an answer).
A job goes through `created` (main.py:176), `waiting` (103), `fetching` (105),
`reporting` (106) and `apologising` (112). The lock behaves as `asyncio.Lock`:
first come, first served, and a cancelled waiter leaves the queue. Requests that
are too large, unsigned or malformed (119-134) change nothing and are no action.
`Crash` may fall between the mark and what follows it. `sent` counts the parts the
client reported as sent, `accepted` those WhatsApp took: a part that raised may have
been taken. `Stop` is SIGTERM: uvicorn,
started without a limit for a graceful stop (Procfile, Dockerfile), lets running
requests end before `lifespan` resumes at line 49.

**CandleBatch and the code.** A step is a segment that is answered or fails
after its retries. Rows are collected in the order received; the sets of
lines 195-213 are operators on them.

**SignalReplay and the code.** A step is a candle. The live cycle looks at it
`phase` seconds after its close; the replay has the close alone. The live monitor was
there before the history: its gate begins in any state of `Gates`, while the flags
begin unpaused (backtest.py:147) and pass over the first `Lookback` candles, which the
live gate measures (150-152). `dir` is what `evaluate` finds over its window, `verdict`
what `signal_at` finds over the series: in the tested period they may differ, because
their averages have other seeds. History says when the two have come together: `met`,
both gates were in the same state once in candles both measure; `agreed`, the last
tested candles were judged alike.

**Backtest and the code.** `stage` is the place in `run_backtest`: `download`
(182-206, which may end in `refused`), `edges` (56-67, one candle a step), `loop`
(71-132), `report`. `i` is the code's `i`, `j` the index of the scan at line 103;
one iteration, or one candle scanned, is a step. `position` is open from the entry
(96-100) to the touch (116) or to the end, where it stays open as unresolved. A
candle's close, open, high and low are chosen when the loop reads them, which is
sound because none of them is read twice. `acted` and `covered` are
history: which setups were counted, which candles closed positions had been open in.
A target that should lie exactly on a tick may come out one further, because the
product is a float before it is rounded (`Products`).

**Strategy and the code.** A step is a close. `verdicts` is what `evaluate` said of
it when it was the last of the window the monitor downloads; `SignalAt` is asked
afterwards, over the whole series. The two texts of the rule are two operators,
`Direction` (strategy.py:32-45) and `DirectionAt` (70-82). List index `k` of the model
is `k - 1` in Python, and a fraction without a denominator is `None`. The comparison
has two halves. `SameRule`: given the same first candle, the two texts say the same of
every candle. `SeedsFade`: the monitor's first candle is that of its window, a
backtest's that of the series, so on every tested candle the averages have other
seeds; they differ by no more than the spread of the prices times
`((p-1)/(p+1))^(n-p)`, for a period `p` and a window of `n`. With the default periods
6, 12 and 21 and 120 candles that is less than one part in ten thousand of the spread,
enough to turn a comparison that is close to an equality. The averages inside
the RSI fade likewise, by `(p-1)/p` a candle; that bound is not checked.

**MexcRequests and the code.** `pc` is the await a task is in: `queued` (114),
`throttled` (117), `requesting` (119), `backoff` (141). `holder` and `waiters` are
`_throttle_lock`, with the fairness of `asyncio.Lock`: a task that finds the lock
free but others queued goes behind them. Time is what is left of a sleep and what has
passed since the last request; a sleep that is over may be noticed late. `Cancel` may
fall on every await. Two tasks call the client at a time at most, the monitor and the
job that holds `backtest_lock`; the run has a third, which only adds behaviours.

## 3. Runs

Instances: a minute has two seconds (three in `Backtest`), percentages are
levels (2 trips the gate, 1 keeps it closed, 0 is calm).

| run | shows | bounds |
|---|---|---|
| `MonitorAlerts` | the monitor implements the policy (`PolicySpec`), delivers in order at most once, replays nothing after a restart, is silent while paused; the loop comes back to its sleep, whatever fails (`CycleReturns`) | clock from 4 to 11: three candles close after the start, enough for an alert, a missed or calm candle, and the repeated alert, with restarts between them; both directions, trips, 2 recipients, tickers of age 0 and 5 against a limit of 4; 2.0 million states |
| `MonitorGate` | `PauseLasts`, `ReopensAfterCalm` | clock to 17, window of two minutes: a trip, an observation interrupted by an uneasy candle, a second observation and a recovery fit, as do restarts and two torn updates |
| `Commands` | one backtest at a time, no message handled twice, no acknowledgement of an unrecorded one, quiet at the close, no more commands lost than interruptions (`LostByInterruption`), the whole result or a notice (`WholeOrNotice`) | 2 overlapping requests, 2 payloads of 2 messages (two backtests, a status, a stranger), results of 2 parts, 2 interruptions; 1.8 million states |
| `CommandsProgress` | every message is recorded, every job ends | the same payloads, so that a mark or a status read that raises leaves a message over; 1 handler, results of 1 part, 2 interruptions; 99 thousand states |
| `CandleBatch` | segments tile the range; complete means exact; exact means complete | 5 candles, 3 segments (the last one cut short), answers of up to 2 rows among 8 |
| `Backtest` | the same pauses as live once the gates have met, and the same signals once two tested candles in a row were judged alike, as long as all cycles so far had one phase (`Steady`); never stricter than the live gate whatever the phases; every edge acted on once or passed over, positions disjoint, figures that add up, largest size | 11 candles of 3-second minutes: 2 that cannot be measured, 4 more of warm-up, 5 tested; a live gate that was open, closed, observing, or open with what a torn update left; one candle judged differently; two phases, 3 movements, 3 conditions, 4 prices, 3 contracts (a cap, limits no multiple of the step meets, a leverage that is not allowed); 4.9 million states |
| `MexcRequests` | spacing, order, budget of requests, every call ends | 3 tasks (one holds the throttle, two queue), 2 retries, spacing 2, pauses of up to 2: a request can fail until the call gives up while the others wait, retry or are cancelled |
| `Strategy` | both texts of the rule agree, different seeds fade, indicators stay in their ranges, setups do not go against the close, SHORT mirrors LONG | every series of up to 8 closes at 5 prices (with fewer, no lower close lies above a rising average); periods 2, 3, 4, RSI over 2 against 60 and 40, window 6, so that the last two closes lie beyond it; the longest average runs 4 steps beyond its seed, and both setups occur; 488 281 states |

Bounds are named constants: `Horizon` (the clock), `LastCandle` (the history),
`MaxInterruptions` (crashes, stops, failing commits and reads of the service),
`MaxPartings` (tested candles the two sides judge differently), `MaxCloses`
and `Top` (the series of closes and their prices), `MaxDelay` (the pauses, in the
code never more than eight seconds and a jitter), `Handlers` (requests served
together). `Backtest`, `Strategy` and `CandleBatch` end, so deadlock is not checked
there; the other models never stop: at the horizon a process can still be started,
stopped or go on, and the clock of `MexcRequests` can always tick.

### Where the documents and the code differ

Each of these runs checks one sentence of the repository and finds the behaviour
that contradicts it.

| run | sentence | behaviour |
|---|---|---|
| `DocContinuousCalm` | README.md:39, "for 15 continuous minutes" | a candle whose cycle was missed is never measured; the gate reopens although it was not calm |
| `DocCalmInSight` | README.md:39, the same | the first cycle of a process looks at a candle without measuring it (monitor.py:43-48); after a restart on an uneasy candle the gate reopens less than a window later |
| `DocStaleTicker` | README.md:41, "older than 120 seconds" | the age is taken from the clock before two downloads; an older ticker passes |
| `DocResultsFollow` | main.py:180, "Results will follow in WhatsApp" | a graceful stop cancels the job and tells nobody |

Other divergences of the same kind have no run of their own:

- README.md:34 says a signal "fires on a false-to-true directional setup edge". When
  the edge's own cycle was missed, the alert comes on a later candle of the setup
  (`AlertPolicy` allows it: one alert per episode, not one at its first candle).
- backtest.py:56 says "matching live false-to-true de-duplication". A setup older
  than the tested period counts as an edge at its first candle, because
  `previous_condition` starts as `None`; `SameSignals` therefore begins with the
  second of two tested candles.
- backtest.py:145 says "Deterministic historical equivalent of the live abnormal-move
  gate". The flags start unpaused whatever the live gate is at that time (147), and a
  shock in the first five candles pauses the live gate alone (150). Until both gates
  are in the same state the backtest takes signals the monitor suppressed; hence `met`
  in `SamePause`. A live gate that never opens again in the history is never met.
- The docstring's "equivalent", and "matching live" of line 56, also leave out that
  `signal_at` reads averages seeded at the start of the series and `evaluate` averages
  seeded at the start of its window: a candle can be a setup for one and not for the
  other. `SeedsFade` bounds the cause, `SameSignals` says the effect is over with two
  candles judged alike.
- The clock that lets an old ticker pass also refuses a present one as "in the
  future" when the downloads took longer than the tolerance of 5 seconds.
- The replay's pause equals the live one only as long as the live cycles keep one
  phase (hence `Steady`): the live window is measured between the clocks of two
  cycles, the replay's between closes, so a cycle that runs a second earlier in its
  minute than the one that began the observation keeps the live gate closed for one
  candle more.

### Fairness

`FairSpec` of `MarketMonitor` has weak fairness of the cycle alone: every await in
it has a timeout (`mexc_timeout_seconds`, 20 seconds for WhatsApp) and the
retries are counted, so a running cycle keeps stepping. Nothing is assumed of the
clock, of restarts or of answers. `CommandService` assumes weak fairness of each
handler, each job and the lifespan (the event loop runs ready tasks, the host
restarts the service), and strong fairness of the redelivery of a payload that was
not acknowledged: Meta repeats it, and finds a handler because handlers are made
for requests; only the model has a fixed number of them. Interruptions end
(`MaxInterruptions`). `MexcRequests` assumes that its clock goes on and weak
fairness of each task's steps: the loop runs every ready task and a request has a
timeout (`mexc_timeout_seconds`). Nothing is assumed of when a call begins or is
cancelled; `EveryCallEnds` needs the lock to be fair, which it is by its queue.

## 4. Proofs

All theorems hold for every value of the constants that satisfies the named
assumptions (`GateAssumption`, `MonitorAssumption`, `ReplayAssumption`,
`BacktestAssumption`, `ServiceAssumption`, `BatchAssumption`, `RequestsAssumption`,
`StrategyAssumption`; the theorem about `AlertPolicy` assumes `PolicyAssumption`):
periods and thresholds are positive as `validate()` demands, the recipients are
distinct, the clock starts on a minute, a price is larger than the slippage, a
target percentage is less than everything, the range of a download is not empty,
indicator periods are at least two and ordered, the RSI thresholds lie in order
between 0 and 100. `validate()` does not demand distinct recipients; a number listed
twice in `WA_RECIPIENTS` gets every alert twice.

- **`AlertPolicyProofs!PolicyInOrderAtMostOnce`.** Order alone is not inductive:
  the invariant adds that nothing received is newer than the last alert, that who
  is still to be tried has only older alerts, and that nobody is to be tried
  twice.
- **`MarketMonitorProofs!TypeCorrect`.** Types, strengthened by `Aimed`: only a
  candle with a setup reaches the ticker.
- **`MarketMonitorProofs!ImplementsPolicy`**: `Spec => PolicySpec`. The invariant
  `MonitorInv` has three more parts. `CandlesInOrder`: alert, recorded candle,
  candle of the cycle and clock never overtake each other, whatever was committed
  before a crash; it is what makes an announced candle newer than the last one.
  `EpisodeHeld`: until a candle without the last alert's setup was looked at, the
  recorded condition, and what a running cycle read of it, is that setup; it is
  what makes the edge test an episode test in spite of missed cycles and torn
  commits. `NothingPending`: recipients wait only while sending. Then every action
  is one of the policy's or a stutter (`StepImplements`).
- **`MarketMonitorProofs!InOrderAtMostOnceAlways`**: the theorem about the policy,
  carried over by the refinement; nothing about deliveries is proved twice.
- **`MarketMonitorProofs!SilentWhilePausedAlways`.** `GateRecorded`: from the
  gate's commits to the end of the cycle the recorded pause is the one the cycle
  decided, and only an open gate leads to the ticker.
- **`MarketMonitorProofs!NoReplayAfterRestartAlways`.** `SinceStart`: the first
  candle a process records is the last closed at its start or a later one, and a
  cycle that may announce looks at a newer candle than that; a newer candle closed
  at the start or after it.
- **`MarketMonitorProofs!ReopensAfterCalmAlways`, `PauseLastsAlways`.** The
  gate's invariant `GateInv` says what a recorded observation is worth.
  `StormRemembered`: without an update cut short it belongs to a pause and began
  after the last uneasy candle. `PauseRemembered`: with one torn update at most, an
  observation in a pause began in that pause; it counts the tears, because the first
  (an open gate with an old observation) is harmless until a second one (a trip that
  does not erase it). Both speak of the tables between updates and of the decision
  while one is committed.
- **`SignalReplayProofs!SamePauseWhenSteady`, `SameSignalsWhenSteady`.** The
  invariant `InStep` says that, once the gates have met and while all cycles so far ran
  equally long after the close, both are paused or neither is, and the two observations
  began that phase apart; it holds from the meeting on because an update of both sides
  by the same candle keeps it (`UpdatesInStep`). `SameCondition` says the last tested
  candle left the same condition on both sides when it was judged alike. Nothing is
  assumed of the live gate before the history or of earlier candles.
- **`SignalReplayProofs!ReplayNeverStricter`** assumes ordered thresholds
  (`Recovery5m <= Abnormal5m`, which `validate()` does not demand); whole minutes
  make a window that is over for the live clock over for the closes too.

- **`BacktestProofs!ReplaysLive`**: a backtest's pass over the candles refines the
  replay, so the theorems of `SignalReplayProofs` hold inside it.
- **`BacktestProofs!BacktestTypeCorrect`, `LargestSizeAlways`.** `Located`: where
  the loop stands relative to the open position and to everything already counted
  (`Placed`), and that an open position is what `Enter` bought (`PositionSized`);
  the rest is arithmetic of floors.
- **`BacktestProofs!FiguresAddUpAlways`, `HoldsDisjointAlways`,
  `EveryEdgeOnceAlways`.** `Ledger`: the counters equal each other's sums
  (`Balanced`) and the sizes of the sets of candles they stand for (`Tallied`), and
  every edge behind the loop was counted or covered (`EachEdgeOnce`).
- **`CommandServiceProofs`**: `TypeCorrect`, `OneAtATimeAlways`,
  `HandledOnceAlways`, `AckedIsMarkedAlways`, `ClosedIsQuietAlways`,
  `LostByInterruptionAlways`, `WholeOrNoticeAlways`, all from `ServiceInv`: what is
  left of a request's loop is a rest of its payload and what came before is in the
  table (`Reading`); a message that is not in the table has no history
  (`Untouched`); only the holder of the lock runs and there is one (`Serialized`); a
  job on its way has parts left and has not apologised, and WhatsApp took what was
  reported and no more until the job gives up (`Undecided`); the commands marked and
  never dispatched are no more than the interruptions (`LostFew`); a stop has let
  requests and jobs end before the next of its steps (`Drained`).
- **`CandleBatchProofs`**: `TypeCorrect`, `RequestsTileAlways` from `Downloading`
  (the last request ends a minute before the cursor); `ExactIsCompleteAlways` from
  `ExactSoFar` (the rows are the range up to the cursor); `CompleteIsExactAlways` from
  types alone: neighbours in order are all in order. That step would be an induction;
  it is an argument about the least counterexample instead, which lemma `Least`
  takes from the library's well-foundedness of the naturals.
- **`MexcRequestsProofs`**: `TypeCorrect`, `SpacedAlways`, `NobodyOvertakesAlways`,
  from `RequestsInv`: who pauses has an attempt left, the sleep of the one who holds
  the lock fills the spacing up (`SleepFillsSpacing`), and the queue holds the queued
  tasks, each knowing of all before it (`QueueInOrder`). `RequestBudgetAlways` from
  `InBudget`: `attempt` and the requests made are one apart exactly from a request to
  its repetition.

- **`StrategyProofs`**: `TypeCorrect`, `SameRuleAlways`, `SeedsFadeAlways`,
  `SetupsFollowTheCloseAlways`, `IndicatorsInRangeAlways`, `ShortIsInverseAlways`,
  for all periods, thresholds, prices and lengths. The state needs only
  `VerdictsRecorded` (each verdict is what `Evaluate` says of the window that ended
  there); the work is in the indicators, which are recursive functions. Two lemmas
  stand for the induction the provers lack: `Unfolds`, that a base and a step define
  a function on an interval, and `Climb`, that a set which has the first index and
  passes membership on has them all. Both come from the least counterexample
  (`LeastOfNat`). From them `TotalRuns`, `EmaRuns` and `AveragesRun` (the
  definitions satisfy their equations), then:
  - an indicator up to a candle depends on the closes up to it (`EmaLocal`,
    `RsiLocal`), and a verdict that `evaluate` refuses for a short series is one
    `signal_at` refuses for a missing indicator (`TooShort`), and the two texts decide
    alike (`SameText`): `SameRule`, for every candle of the series;
  - a step over the same close shrinks the distance of two averages by
    `(p-1)/(p+1)` (`ApartShrinks`), which begins as the spread of the prices at most
    (`ApartInRange`, `EmaNear`): `SeedsFade`;
  - without a gain the average gain fades by the factor the average loss does at
    least, so the RSI cannot grow (`NoGrowthWithoutGain`, `NoFallWithoutLoss`):
    `SetupsFollowTheClose`, which claims nothing of an unchanged close: there only the
    rounding of the floats decides whether the RSI moves (indicators.py:51-53);
  - an average of numbers within two bounds stays within them (`EmaStepBounded`):
    `IndicatorsInRange`;
  - mirroring the closes mirrors the averages (`EmaMirrored`) and swaps gains and
    losses (`AveragesMirrored`), so the RSI becomes its complement (`RsiMirrored`) and
    every comparison turns round (`FlipReverses`, `ComplementReverses`):
    `ShortIsInverse`.
- **`StrategyProofs!ShortWarmUpIsSilent`**: a `Window` shorter than the slowest
  indicator needs, which `validate()` accepts, makes every live verdict `"NONE"`. No
  run has such a window; the statement is only proved.

Every invariant and every safety property of a step that a run checks is stated by a
theorem. Only model-checked is liveness (`CycleReturns`, `EveryMessageMarked`,
`EveryJobEnds`, `EveryCallEnds`): the prover has neither fairness nor ENABLED.

## 5. Not modelled

The texts; the sums of money, averages and percentages of a backtest's report, which
nothing reads back; the target price `evaluate` puts into an alert; signatures,
parsing of payloads and of answers (a call answers or raises, metadata of another
symbol raise); `/`, `/healthz` and the verification challenge, which only read;
`initialize()`, which creates empty tables. `abnormal_reason` is written and never
read. How `send_chunks` splits a text: `CommandService` sends `Chunks` parts in
order, each of which may raise. Rounding of floats where two indicators are equal
but for it: fractions are exact in `Strategy`, so its properties hold of the code up
to that. The rounding of a target price is modelled (`Targets`) and has no property
of its own, since it would repeat the two lines of `round_price_to_tick`; thresholds
in an unusual order (`config.py` does not compare them) have theorems and no run.
What `validate()` accepts is in the assumptions; that `WARMUP_CANDLES` may be
shorter than `EMA_SLOW`, so that no setup is ever found, is the early return of
`Evaluate`: a theorem (`ShortWarmUpIsSilent`) and no property of a run, since no
text promises otherwise. Several processes on one database are outside the design
(QA_AUDIT.md, "single-instance").

## 6. Plan

What is left, in this order:

1. `send_chunks` as an operator against a reference definition (no character lost, no
   part too long).
2. Composition of `MarketMonitor` and `CommandService` for what they share: `/status`
   between two commits of a cycle, the order of a stop seen by a running cycle.
3. The reading of `get_recent_closed_candles` on top of `CandleBatch`: which candle
   the monitor takes for the latest when the exchange already reports the open one.
4. Liveness of `MexcRequests` with the monitor's own deadline: a bound on how long a
   cycle waits for the throttle behind a backtest.
5. The throttle of `MexcRequests` against an abstract queue that lets one request go
   per spacing, and the refinement proved.
