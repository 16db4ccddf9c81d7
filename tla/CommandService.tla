---------------------------- MODULE CommandService ----------------------------
(***************************************************************************)
(* The command side of app/main.py: webhook requests, the processed        *)
(* messages table, the backtest jobs and their lock, and the start and     *)
(* stop of the service (lifespan).                                         *)
(*                                                                         *)
(* One action per stretch of code between two awaits; requests and jobs    *)
(* interleave only there.  Requests that are too large, wrongly signed or  *)
(* malformed change nothing (main.py:122-134) and have no action.  Meta,   *)
(* outside the program, repeats a payload until it is answered with 200,   *)
(* and may repeat it after that.                                           *)
(***************************************************************************)
EXTENDS Integers, FiniteSets, Sequences

CONSTANTS
  Messages,         (* environment: the text messages that are sent        *)
  Allowed,          (* those whose sender is in settings.authorized_wa_ids *)
  Kind,             (* what the text of each message asks for              *)
  Payloads,         (* environment: sequences of messages Meta posts       *)
  Handlers,         (* bound: requests served at the same time             *)
  Chunks,           (* parts a backtest result is sent in                  *)
  MaxInterruptions  (* bound: crashes, stops and failed database calls     *)

Kinds == {"help", "status", "backtest", "unknown"}

ASSUME ServiceAssumption ==
  /\ Allowed \subseteq Messages
  /\ Kind \in [Messages -> Kinds]
  /\ Payloads \subseteq (Seq(Messages) \ {<<>>})
  /\ Chunks \in Nat \ {0}
  /\ MaxInterruptions \in Nat

VARIABLES
  service,       (* where the process and its lifespan() stand             *)
  interruptions, (* how many there were                                    *)
  processed,     (* table processed_messages                               *)
  acked,         (* payloads Meta knows to be answered with 200            *)
  handler,       (* handler[h]: the request h serves                       *)
  job,           (* job[m]: the task created for message m                 *)
  cancelled,     (* tasks with a pending CancelledError                    *)
  holder,        (* the task that holds backtest_lock, if any              *)
  waiters,       (* the tasks queued for backtest_lock                     *)
  sent,          (* sent[m]: parts of m's result that were sent            *)
  accepted,      (* accepted[m]: parts of it that WhatsApp took            *)
  handled,       (* history: how often m was dispatched                    *)
  tried          (* history: outcomes of m's job that were tried to send   *)

memory  == <<handler, job, cancelled, holder, waiters, sent>>
lock    == <<holder, waiters>>
history == <<accepted, handled, tried>>
vars    == <<service, interruptions, processed, acked, memory, history>>

Idle == [payload |-> <<>>, todo |-> <<>>, sending |-> FALSE]

Running == {"fetching", "reporting", "apologising"}
Live    == Running \cup {"created", "waiting"}
Ended   == {"done", "cancelled", "lost"}

LiveJobs == {m \in Messages : job[m] \in Live}

Init ==
  /\ service = "down"
  /\ interruptions = 0
  /\ processed = {}
  /\ acked = {}
  /\ handler = [h \in Handlers |-> Idle]
  /\ job = [m \in Messages |-> "none"]
  /\ cancelled = {}
  /\ holder = {}
  /\ waiters = <<>>
  /\ sent = [m \in Messages |-> 0]
  /\ accepted = [m \in Messages |-> 0]
  /\ handled = [m \in Messages |-> 0]
  /\ tried = [m \in Messages |-> {}]

Interrupt ==
  /\ interruptions < MaxInterruptions
  /\ interruptions' = interruptions + 1

-------------------------------------------------------------------------------
(* receive_webhook.                                                        *)

Serving == service \in {"up", "draining"}

Deliver(p, h) ==
  /\ service = "up"
  /\ handler[h] = Idle
  /\ handler' = [handler EXCEPT ![h] = [payload |-> p, todo |-> p, sending |-> FALSE]]
  /\ UNCHANGED <<service, interruptions, processed, acked, job, cancelled, lock, sent,
                 history>>

(* Handler h is at the head of its loop with message m.                    *)
At(h, m) ==
  /\ Serving
  /\ handler[h].todo # <<>>
  /\ m = Head(handler[h].todo)
  /\ ~handler[h].sending

(* Mutant: INSERT OR REPLACE, whose row count is always one.               *)
IsNewReplacing(m) == TRUE

(* INSERT OR IGNORE: the row count tells whether the id was new.           *)
IsNew(m) == m \notin processed
Mark(m)  == processed' = processed \cup {m}

BacktestAsked(m) == Kind[m] = "backtest"

(* backtest_lock.locked()                                                  *)
Locked == holder # {}

(* Mutant: a backtest asked for while one is running is passed over.       *)
DroppedWhenBusy(m) ==
  ~IsNew(m) \/ m \notin Allowed \/ (BacktestAsked(m) /\ Locked)

Dropped(m) == ~IsNew(m) \/ m \notin Allowed

SkipMessage(h) ==
  \E m \in Messages :
    /\ At(h, m)
    /\ Dropped(m)
    /\ Mark(m)
    /\ handler' = [handler EXCEPT ![h].todo = Tail(@)]
    /\ UNCHANGED <<service, interruptions, acked, job, cancelled, lock, sent, history>>

(* /help, /status, an unknown command, or a backtest while one is running: *)
(* the answer is on its way.                                               *)
Answer(h) ==
  \E m \in Messages :
    /\ At(h, m)
    /\ ~Dropped(m)
    /\ BacktestAsked(m) => Locked
    /\ Mark(m)
    /\ handled' = [handled EXCEPT ![m] = @ + 1]
    /\ handler' = [handler EXCEPT ![h].sending = TRUE]
    /\ UNCHANGED <<service, interruptions, acked, job, cancelled, lock, sent, accepted,
                 tried>>

(* The lock was seen free: a task is created, "queued" is on its way.      *)
QueueBacktest(h) ==
  \E m \in Messages :
    /\ At(h, m)
    /\ ~Dropped(m)
    /\ BacktestAsked(m) /\ ~Locked
    /\ Mark(m)
    /\ handled' = [handled EXCEPT ![m] = @ + 1]
    /\ job' = [job EXCEPT ![m] = "created"]
    /\ handler' = [handler EXCEPT ![h].sending = TRUE]
    /\ UNCHANGED <<service, interruptions, acked, cancelled, lock, sent, accepted, tried>>

(* The answer was sent, or its exception was logged.                       *)
AnswerSent(h) ==
  /\ Serving
  /\ handler[h].sending
  /\ handler' = [handler EXCEPT ![h].sending = FALSE, ![h].todo = Tail(@)]
  /\ UNCHANGED <<service, interruptions, processed, acked, job, cancelled, lock, sent,
                 history>>

(* 200, which Meta may or may not receive.                                 *)
Respond(h) ==
  /\ Serving
  /\ handler[h] # Idle
  /\ handler[h].todo = <<>>
  /\ acked' \in {acked, acked \cup {handler[h].payload}}
  /\ handler' = [handler EXCEPT ![h] = Idle]
  /\ UNCHANGED <<service, interruptions, processed, job, cancelled, lock, sent, history>>

(* Mutant: the exception is logged and the loop goes on.                   *)
MarkFailsLogged(h) ==
  /\ Interrupt
  /\ \E m \in Messages : At(h, m)
  /\ handler' = [handler EXCEPT ![h].todo = Tail(@)]
  /\ UNCHANGED <<service, processed, acked, job, cancelled, lock, sent, history>>

(* mark_message_processed raises: the request ends with 500.               *)
MarkFails(h) ==
  /\ Interrupt
  /\ \E m \in Messages : At(h, m)
  /\ handler' = [handler EXCEPT ![h] = Idle]
  /\ UNCHANGED <<service, processed, acked, job, cancelled, lock, sent, history>>

(* A read for /status raises, after the message was marked: again a 500.   *)
StatusFails(h) ==
  /\ Interrupt
  /\ \E m \in Messages :
       /\ At(h, m)
       /\ ~Dropped(m)
       /\ Kind[m] = "status"
       /\ Mark(m)
  /\ handler' = [handler EXCEPT ![h] = Idle]
  /\ UNCHANGED <<service, acked, job, cancelled, lock, sent, history>>

-------------------------------------------------------------------------------
(* _run_backtest_job.                                                      *)

(* Mutant: locked() is taken for the lock.                                 *)
AcquireIfSeenFree(m) ==
  /\ holder' = {m}
  /\ job' = [job EXCEPT ![m] = "fetching"]
  /\ UNCHANGED waiters

(* asyncio.Lock hands itself to the first waiter: a task that finds the    *)
(* lock free but has others before it queues behind them.                  *)
Acquire(m) ==
  IF holder = {} /\ waiters = <<>>
  THEN /\ holder' = {m}
       /\ job' = [job EXCEPT ![m] = "fetching"]
       /\ UNCHANGED waiters
  ELSE /\ waiters' = Append(waiters, m)
       /\ job' = [job EXCEPT ![m] = "waiting"]
       /\ UNCHANGED holder

Runs(m) == service # "down" /\ m \notin cancelled

StartJob(m) ==
  /\ Runs(m)
  /\ job[m] = "created"
  /\ Acquire(m)
  /\ UNCHANGED <<service, interruptions, processed, acked, handler, cancelled, sent,
                 history>>

WakeJob(m) ==
  /\ Runs(m)
  /\ job[m] = "waiting"
  /\ holder = {}
  /\ waiters # <<>> /\ m = Head(waiters)
  /\ holder' = {m}
  /\ waiters' = Tail(waiters)
  /\ job' = [job EXCEPT ![m] = "fetching"]
  /\ UNCHANGED <<service, interruptions, processed, acked, handler, cancelled, sent,
                 history>>

(* run_backtest returns a text, or raises.                                 *)
FetchEnds(m) ==
  /\ Runs(m)
  /\ job[m] = "fetching"
  /\ \E outcome \in {"reporting", "apologising"} : job' = [job EXCEPT ![m] = outcome]
  /\ UNCHANGED <<service, interruptions, processed, acked, handler, cancelled, lock,
                 sent, history>>

Leave(m, how) ==
  /\ job' = [job EXCEPT ![m] = how]
  /\ holder' = holder \ {m}
  /\ cancelled' = cancelled \ {m}

Try(m, what) ==
  /\ tried' = [tried EXCEPT ![m] = @ \cup {what}]
  /\ UNCHANGED handled

(* Mutant: the last part is not recognised as the last.                    *)
SendChunkTooMany(m) ==
  /\ Runs(m)
  /\ job[m] = "reporting"
  /\ Try(m, "result")
  /\ sent' = [sent EXCEPT ![m] = @ + 1]
  /\ accepted' = [accepted EXCEPT ![m] = @ + 1]
  /\ IF sent[m] = Chunks
     THEN Leave(m, "done")
     ELSE UNCHANGED <<job, holder, cancelled>>
  /\ UNCHANGED <<service, interruptions, processed, acked, handler, waiters>>

(* One part of the result; after the last one the job is over.             *)
SendChunk(m) ==
  /\ Runs(m)
  /\ job[m] = "reporting"
  /\ Try(m, "result")
  /\ sent' = [sent EXCEPT ![m] = @ + 1]
  /\ accepted' = [accepted EXCEPT ![m] = @ + 1]
  /\ IF sent'[m] = Chunks
     THEN Leave(m, "done")
     ELSE UNCHANGED <<job, holder, cancelled>>
  /\ UNCHANGED <<service, interruptions, processed, acked, handler, waiters>>

(* A part that raised may have been taken all the same.                    *)
MayArrive(m) == accepted' \in {accepted, [accepted EXCEPT ![m] = @ + 1]}

(* Mutant: a part that fails ends the job.                                 *)
ChunkFailsQuietly(m) ==
  /\ Runs(m)
  /\ job[m] = "reporting"
  /\ Try(m, "result")
  /\ MayArrive(m)
  /\ Leave(m, "done")
  /\ UNCHANGED <<service, interruptions, processed, acked, handler, waiters, sent>>

(* A part raises, though it may have arrived; the rest is not sent.        *)
ChunkFails(m) ==
  /\ Runs(m)
  /\ job[m] = "reporting"
  /\ Try(m, "result")
  /\ MayArrive(m)
  /\ job' = [job EXCEPT ![m] = "apologising"]
  /\ UNCHANGED <<service, interruptions, processed, acked, handler, cancelled, lock,
                 sent>>

(* Mutant: the failure path does not give the lock back.                   *)
SendApologyKeepingLock(m) ==
  /\ Runs(m)
  /\ job[m] = "apologising"
  /\ Try(m, "apology")
  /\ job' = [job EXCEPT ![m] = "done"]
  /\ UNCHANGED <<service, interruptions, processed, acked, handler, cancelled, lock,
                 sent, accepted>>

SendApology(m) ==
  /\ Runs(m)
  /\ job[m] = "apologising"
  /\ Try(m, "apology")
  /\ Leave(m, "done")
  /\ UNCHANGED <<service, interruptions, processed, acked, handler, waiters, sent,
                 accepted>>

LeaveQueue(m) ==
  IF job[m] = "waiting"
  THEN \E i \in 1 .. Len(waiters) :
         /\ waiters[i] = m
         /\ waiters' = SubSeq(waiters, 1, i - 1) \o SubSeq(waiters, i + 1, Len(waiters))
  ELSE UNCHANGED waiters

(* CancelledError surfaces at the task's await; the task leaves the lock,  *)
(* or the queue for it.                                                    *)
CancelJob(m) ==
  /\ service # "down"
  /\ m \in cancelled
  /\ Leave(m, "cancelled")
  /\ LeaveQueue(m)
  /\ UNCHANGED <<service, interruptions, processed, acked, handler, sent, history>>

-------------------------------------------------------------------------------
(* The process and lifespan().                                             *)

Start ==
  /\ service = "down"
  /\ service' = "up"
  /\ UNCHANGED <<interruptions, processed, acked, memory, history>>

(* The end of the process: what was in memory is gone.                     *)
Forget ==
  /\ service' = "down"
  /\ handler' = [h \in Handlers |-> Idle]
  /\ job' = [m \in Messages |-> IF job[m] \in Live THEN "lost" ELSE job[m]]
  /\ cancelled' = {}
  /\ holder' = {}
  /\ waiters' = <<>>
  /\ sent' = [m \in Messages |-> 0]

(* The process dies, possibly after a message was marked and before it was *)
(* dispatched.                                                             *)
Crash ==
  /\ service # "down"
  /\ Interrupt
  /\ Forget
  /\ \/ UNCHANGED processed
     \/ \E h \in Handlers, m \in Messages : At(h, m) /\ Mark(m)
  /\ UNCHANGED <<acked, history>>

(* SIGTERM: uvicorn takes no new request and lets the running ones end.    *)
Stop ==
  /\ service = "up"
  /\ Interrupt
  /\ service' = "draining"
  /\ UNCHANGED <<processed, acked, memory, history>>

(* lifespan resumes after its yield; the monitor is cancelled first.       *)
StopMonitor ==
  /\ service = "draining"
  /\ \A h \in Handlers : handler[h] = Idle
  /\ service' = "stopMonitor"
  /\ UNCHANGED <<interruptions, processed, acked, memory, history>>

CancelJobs ==
  /\ service = "stopMonitor"
  /\ service' = "gather"
  /\ cancelled' = LiveJobs
  /\ UNCHANGED <<interruptions, processed, acked, handler, job, lock, sent, history>>

(* Mutant: the cancelled jobs are not awaited.                             *)
CloseClientsAtOnce ==
  /\ service = "gather"
  /\ service' = "closed"
  /\ UNCHANGED <<interruptions, processed, acked, memory, history>>

(* gather returned: mexc.aclose(), whatsapp.aclose().                      *)
CloseClients ==
  /\ service = "gather"
  /\ LiveJobs = {}
  /\ service' = "closed"
  /\ UNCHANGED <<interruptions, processed, acked, memory, history>>

Exit ==
  /\ service = "closed"
  /\ Forget
  /\ UNCHANGED <<interruptions, processed, acked, history>>

-------------------------------------------------------------------------------
HandlerStep(h) ==
  SkipMessage(h) \/ Answer(h) \/ QueueBacktest(h) \/ AnswerSent(h) \/ Respond(h)

JobStep(m) ==
  \/ StartJob(m) \/ WakeJob(m) \/ FetchEnds(m)
  \/ SendChunk(m) \/ ChunkFails(m) \/ SendApology(m)
  \/ CancelJob(m)

LifespanStep == Start \/ StopMonitor \/ CancelJobs \/ CloseClients \/ Exit

Next ==
  \/ \E p \in Payloads, h \in Handlers : Deliver(p, h)
  \/ \E h \in Handlers : HandlerStep(h) \/ MarkFails(h) \/ StatusFails(h)
  \/ \E m \in Messages : JobStep(m)
  \/ LifespanStep
  \/ Stop
  \/ Crash

Spec == Init /\ [][Next]_vars

Redeliver(p) == p \notin acked /\ \E h \in Handlers : Deliver(p, h)

(* The event loop runs every ready task, every await has a timeout, the    *)
(* host restarts the service, and Meta repeats what was not answered: a    *)
(* repeated request finds a handler because handlers are created for       *)
(* requests, only the model has a fixed number of them (hence SF).         *)
Fairness ==
  /\ \A h \in Handlers : WF_vars(HandlerStep(h))
  /\ \A m \in Messages : WF_vars(JobStep(m))
  /\ WF_vars(LifespanStep)
  /\ \A p \in Payloads : SF_vars(Redeliver(p))

FairSpec == Spec /\ Fairness

-------------------------------------------------------------------------------
(* Type invariant.                                                         *)
TypeOK ==
  /\ service \in {"down", "up", "draining", "stopMonitor", "gather", "closed"}
  /\ interruptions \in 0 .. MaxInterruptions
  /\ processed \subseteq Messages
  /\ acked \subseteq Payloads
  /\ handler \in [Handlers -> [payload : Payloads \cup {<<>>}, todo : Seq(Messages),
                               sending : BOOLEAN]]
  /\ job \in [Messages -> {"none"} \cup Live \cup Ended]
  /\ cancelled \subseteq Messages
  /\ holder \subseteq Messages
  /\ waiters \in Seq(Messages)
  /\ sent \in [Messages -> 0 .. Chunks]
  /\ accepted \in [Messages -> 0 .. Chunks]
  /\ handled \in [Messages -> Nat]
  /\ tried \in [Messages -> SUBSET {"result", "apology"}]

(* Backtests are serialized although the test of locked() and the          *)
(* acquisition are two steps of two tasks (main.py:103, 170-176;           *)
(* QA_AUDIT.md:19).                                                        *)
OneAtATime ==
  \A m, n \in Messages : job[m] \in Running /\ job[n] \in Running => m = n

(* A message is dispatched at most once, however often and through however *)
(* many concurrent requests it is delivered, crashes and restarts included *)
(* (main.py:139, "Duplicate inbound message IDs are ignored").             *)
HandledOnce == \A m \in Messages : handled[m] <= 1

(* Meta is told 200 only for payloads whose every message is in the table: *)
(* what it will not repeat needs no repetition (main.py:137-188).          *)
AckedIsMarked ==
  \A p \in acked : \A i \in 1 .. Len(p) : p[i] \in processed

(* When the HTTP clients are closed no job is left that could use them,    *)
(* nor any handler (main.py:57-62).                                        *)
ClosedIsQuiet ==
  service = "closed" => LiveJobs = {} /\ \A h \in Handlers : handler[h] = Idle

(* A command that was marked and never dispatched was lost by a crash, or  *)
(* by a read that raised, between the two: no command of an authorized     *)
(* sender is passed over without one (main.py:139-188).                    *)
LostByInterruption ==
  Cardinality({m \in processed \cap Allowed : handled[m] = 0}) <= interruptions

(* A job that runs to its end without the notice of a failure left the     *)
(* sender the whole result; the notice is tried only when a part was not   *)
(* reported as sent.  Such a part may have arrived, the last one too: the  *)
(* code does not promise that a notice means a part is missing             *)
(* (main.py:103-114).                                                      *)
WholeOrNotice ==
  [][\A m \in Messages :
       job[m] \in Live /\ job'[m] = "done" =>
         IF "apology" \in tried'[m]
         THEN sent'[m] < Chunks
         ELSE accepted'[m] = Chunks]_vars

(* Every message gets into the table in the end, whatever is redelivered,  *)
(* fails or restarts, as long as the interruptions end.                    *)
EveryMessageMarked ==
  \A p \in Payloads : \A i \in 1 .. Len(p) : <>(p[i] \in processed)

(* A job never stays on its way for ever: the lock is handed on whether    *)
(* the job before ends well, fails or is cancelled.                        *)
EveryJobEnds == \A m \in Messages : job[m] \in Live ~> job[m] \notin Live

-------------------------------------------------------------------------------
(* What the program tells its users, as it is worded there.                *)

(* "Backtest queued: ... Results will follow in WhatsApp" (main.py:180):   *)
(* a job that is over in an orderly way tried to send something.           *)
ResultsFollow ==
  \A m \in Messages : job[m] \in {"done", "cancelled"} => tried[m] # {}
===============================================================================
