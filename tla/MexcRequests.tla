----------------------------- MODULE MexcRequests ------------------------------
(***************************************************************************)
(* MexcClient._get_json of app/mexc.py: the monitor and the backtest jobs  *)
(* share one client, whose throttle lets a request start only Spacing      *)
(* after the one before, and every call repeats a request that failed in   *)
(* passing, up to MaxRetries times.                                        *)
(*                                                                         *)
(* One action per stretch of code between two awaits.  Time is relative:   *)
(* age is the time since _last_request_at, as far as it matters.           *)
(***************************************************************************)
EXTENDS Integers, Sequences

CONSTANTS
  Tasks,      (* the tasks that call the client                            *)
  MaxRetries, (* settings.mexc_max_retries                                 *)
  Spacing,    (* the 0.12 seconds between two requests                     *)
  MaxDelay    (* the longest pause before a repetition                     *)

ASSUME RequestsAssumption ==
  /\ MaxRetries \in Nat
  /\ Spacing \in Nat
  /\ MaxDelay \in Nat

VARIABLES
  pc,      (* where each task is in _get_json; "idle" when it is not       *)
  attempt, (* attempt of the call a task is in                             *)
  timer,   (* time left of the sleep a task is in                          *)
  holder,  (* the task that holds _throttle_lock, if any                   *)
  waiters, (* the tasks queued for it                                      *)
  age,     (* time since _last_request_at, Spacing when it is longer ago   *)
  quiet,   (* history: the same since a request was last sent              *)
  made,    (* history: requests the call of a task has sent                *)
  spent,   (* history: requests sent by the calls that gave up             *)
  ahead    (* history: the tasks that asked for the lock before a waiter   *)

vars == <<pc, attempt, timer, holder, waiters, age, quiet, made, spent, ahead>>

Waiting(t) == pc[t] \in {"queued", "throttled"}

Init ==
  /\ pc = [t \in Tasks |-> "idle"]
  /\ attempt = [t \in Tasks |-> 0]
  /\ timer = [t \in Tasks |-> 0]
  /\ holder = {}
  /\ waiters = <<>>
  /\ age \in 0 .. Spacing
  /\ quiet = Spacing
  /\ made = [t \in Tasks |-> 0]
  /\ spent = {}
  /\ ahead = [t \in Tasks |-> {}]

-------------------------------------------------------------------------------
(* The throttle.                                                           *)

Move(t, place) == pc' = [pc EXCEPT ![t] = place]

(* The lock is given back and client.get is called, without an await       *)
(* between the two.                                                        *)
Send(t) ==
  /\ Move(t, "requesting")
  /\ holder' = {}
  /\ age' = 0
  /\ quiet' = 0
  /\ made' = [made EXCEPT ![t] = @ + 1]
  /\ ahead' = [u \in Tasks |-> IF u = t THEN {} ELSE ahead[u] \ {t}]
  /\ UNCHANGED timer

(* Mutant: the sleep is outside the lock.                                  *)
ThrottleWithoutLock(t) ==
  /\ Move(t, "throttled")
  /\ timer' = [timer EXCEPT ![t] = Spacing - age]
  /\ holder' = {}
  /\ UNCHANGED <<age, quiet, made, ahead>>

(* The rest of the spacing is slept with the lock held.                    *)
Throttle(t) ==
  /\ Move(t, "throttled")
  /\ timer' = [timer EXCEPT ![t] = Spacing - age]
  /\ holder' = {t}
  /\ UNCHANGED <<age, quiet, made, ahead>>

Enter(t) ==
  \/ age >= Spacing /\ Send(t)
  \/ age < Spacing /\ Throttle(t)

Queue(t) ==
  /\ Move(t, "queued")
  /\ waiters' = Append(waiters, t)
  /\ ahead' = [ahead EXCEPT ![t] = {u \in Tasks : Waiting(u)}]
  /\ UNCHANGED <<timer, holder, age, quiet, made>>

(* Mutant: a free lock goes to whoever asks first.                         *)
ApproachBarging(t) ==
  \/ holder = {} /\ Enter(t) /\ UNCHANGED waiters
  \/ holder # {} /\ Queue(t)

(* asyncio.Lock: a task that finds the lock free but others queued for it  *)
(* queues behind them.                                                     *)
Approach(t) ==
  \/ holder = {} /\ waiters = <<>> /\ Enter(t) /\ UNCHANGED waiters
  \/ (holder # {} \/ waiters # <<>>) /\ Queue(t)

-------------------------------------------------------------------------------
(* The steps of a call.                                                    *)

Call(t) ==
  /\ pc[t] = "idle"
  /\ Approach(t)
  /\ UNCHANGED <<attempt, spent>>

LockPassed(t) ==
  /\ pc[t] = "queued"
  /\ holder = {}
  /\ waiters # <<>> /\ t = Head(waiters)
  /\ waiters' = Tail(waiters)
  /\ Enter(t)
  /\ UNCHANGED <<attempt, spent>>

ThrottleEnds(t) ==
  /\ pc[t] = "throttled"
  /\ timer[t] = 0
  /\ Send(t)
  /\ UNCHANGED <<attempt, waiters, spent>>

EndCall(t) ==
  /\ Move(t, "idle")
  /\ attempt' = [attempt EXCEPT ![t] = 0]
  /\ made' = [made EXCEPT ![t] = 0]

(* A usable answer, or one that is not worth a repetition: a rejection     *)
(* (4xx) or a body that is not JSON.                                       *)
Answered(t) ==
  /\ pc[t] = "requesting"
  /\ EndCall(t)
  /\ UNCHANGED <<timer, holder, waiters, age, quiet, spent, ahead>>

(* Mutant: the last repetition is not made.                                *)
IsLastTooEarly(t) == attempt[t] + 1 >= MaxRetries

(* Mutant: one repetition too many.                                        *)
IsLastTooLate(t) == attempt[t] > MaxRetries

IsLast(t) == attempt[t] >= MaxRetries

(* 429, 5xx or a transport error: the call pauses, for as long as          *)
(* Retry-After says or doubling from half a second, never beyond eight     *)
(* seconds and a jitter.                                                   *)
BackOff(t) ==
  /\ pc[t] = "requesting"
  /\ ~IsLast(t)
  /\ Move(t, "backoff")
  /\ \E delay \in 0 .. MaxDelay : timer' = [timer EXCEPT ![t] = delay]
  /\ UNCHANGED <<attempt, holder, waiters, age, quiet, made, spent, ahead>>

(* The same failures after the last attempt: MexcAPIError.                 *)
GiveUp(t) ==
  /\ pc[t] = "requesting"
  /\ IsLast(t)
  /\ EndCall(t)
  /\ spent' = spent \cup {made[t]}
  /\ UNCHANGED <<timer, holder, waiters, age, quiet, ahead>>

Repeat(t) ==
  /\ pc[t] = "backoff"
  /\ timer[t] = 0
  /\ attempt' = [attempt EXCEPT ![t] = @ + 1]
  /\ Approach(t)
  /\ UNCHANGED spent

LeaveQueue(t) ==
  IF pc[t] = "queued"
  THEN \E i \in 1 .. Len(waiters) :
         /\ waiters[i] = t
         /\ waiters' = SubSeq(waiters, 1, i - 1) \o SubSeq(waiters, i + 1, Len(waiters))
  ELSE UNCHANGED waiters

(* Mutant: a cancelled task takes the lock with it.                        *)
CancelKeepingLock(t) ==
  /\ pc[t] # "idle"
  /\ EndCall(t)
  /\ timer' = [timer EXCEPT ![t] = 0]
  /\ LeaveQueue(t)
  /\ ahead' = [u \in Tasks |-> IF u = t THEN {} ELSE ahead[u] \ {t}]
  /\ UNCHANGED <<holder, age, quiet, spent>>

(* CancelledError surfaces at the await the task is in; the lock and the   *)
(* queue are left, _last_request_at is not touched.                        *)
Cancel(t) ==
  /\ pc[t] # "idle"
  /\ EndCall(t)
  /\ timer' = [timer EXCEPT ![t] = 0]
  /\ holder' = holder \ {t}
  /\ LeaveQueue(t)
  /\ ahead' = [u \in Tasks |-> IF u = t THEN {} ELSE ahead[u] \ {t}]
  /\ UNCHANGED <<age, quiet, spent>>

(* Time passes; a sleep that is over may be noticed late.                  *)
Older(a)   == IF a < Spacing THEN a + 1 ELSE a
Shorter(s) == IF s > 0 THEN s - 1 ELSE s

Tick ==
  /\ age' = Older(age)
  /\ quiet' = Older(quiet)
  /\ timer' = [t \in Tasks |-> Shorter(timer[t])]
  /\ UNCHANGED <<pc, attempt, holder, waiters, made, spent, ahead>>

-------------------------------------------------------------------------------
TaskStep(t) ==
  \/ LockPassed(t) \/ ThrottleEnds(t)
  \/ Answered(t) \/ BackOff(t) \/ GiveUp(t)
  \/ Repeat(t)

Next ==
  \/ \E t \in Tasks : Call(t) \/ TaskStep(t) \/ Cancel(t)
  \/ Tick

Spec == Init /\ [][Next]_vars

(* The clock goes on, the event loop runs every ready task, and every      *)
(* request has a timeout (mexc_timeout_seconds).                           *)
Fairness == WF_vars(Tick) /\ \A t \in Tasks : WF_vars(TaskStep(t))

FairSpec == Spec /\ Fairness

-------------------------------------------------------------------------------
(* Type invariant.                                                         *)
TypeOK ==
  /\ pc \in [Tasks -> {"idle", "queued", "throttled", "requesting", "backoff"}]
  /\ attempt \in [Tasks -> 0 .. MaxRetries]
  /\ timer \in [Tasks -> Nat]
  /\ holder \subseteq Tasks
  /\ waiters \in Seq(Tasks)
  /\ age \in 0 .. Spacing
  /\ quiet \in 0 .. Spacing
  /\ made \in [Tasks -> Nat]
  /\ spent \subseteq Nat
  /\ ahead \in [Tasks -> SUBSET Tasks]

Starts(t) == pc[t] # "requesting" /\ pc'[t] = "requesting"

(* Two requests are never sent within the spacing, whichever tasks send    *)
(* them and whoever is cancelled while it waits (mexc.py:114-118).         *)
Spaced == [][\A t \in Tasks : Starts(t) => quiet = Spacing]_vars

(* A request of the monitor does not wait for calls that came after its    *)
(* own: who waits is overtaken by nobody, the segments of a backtest and   *)
(* their repetitions included (mexc.py:114).                               *)
NobodyOvertakes ==
  [][\A t, u \in Tasks :
       t # u /\ Starts(u) /\ Waiting(t) => u \in ahead[t]]_vars

(* No call sends more than MaxRetries + 1 requests, and one that gives up  *)
(* has sent them all (mexc.py:112, 122, 139).                              *)
RequestBudget ==
  /\ \A t \in Tasks : made[t] <= MaxRetries + 1
  /\ spent \subseteq {MaxRetries + 1}

(* Every call ends: no cancelled, failing or retrying task leaves another  *)
(* waiting for the throttle for ever (mexc.py:109-142).                    *)
EveryCallEnds == \A t \in Tasks : pc[t] # "idle" ~> pc[t] = "idle"
===============================================================================
