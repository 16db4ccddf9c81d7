------------------------- MODULE CommandServiceProofs -------------------------
(***************************************************************************)
(* The command service for any messages, payloads, number of concurrent    *)
(* requests, parts of a result and interruptions.                          *)
(***************************************************************************)
EXTENDS CommandService, FiniteSetTheorems, SequenceTheorems, TLAPS

-------------------------------------------------------------------------------
(* A request, on its way through its payload.                              *)

Request == [payload : Payloads \cup {<<>>}, todo : Seq(Messages), sending : BOOLEAN]

Fresh(p) == [payload |-> p, todo |-> p, sending |-> FALSE]

(* What is left to do is the end of the payload, and all before it are in  *)
(* the table; so is the message whose answer is on its way.                *)
Behind(r) == Len(r.payload) - Len(r.todo)

ReadTo(r, marked) ==
  /\ Len(r.todo) <= Len(r.payload)
  /\ \A k \in 1 .. Len(r.todo) : r.todo[k] = r.payload[Behind(r) + k]
  /\ \A k \in 1 .. Behind(r) : r.payload[k] \in marked
  /\ r.sending => r.todo # <<>> /\ Head(r.todo) \in marked

LEMMA PayloadTyped == \A p \in Payloads \cup {<<>>} : p \in Seq(Messages)
<1>1. <<>> \in Seq(Messages)
  BY EmptySeq
<1>2. \A p \in Payloads : p \in Seq(Messages)
  BY ServiceAssumption DEF ServiceAssumption
<1>3. QED
  BY <1>1, <1>2

LEMMA IdleReadTo == \A marked : Idle \in Request /\ ReadTo(Idle, marked)
BY DEF Idle, Request, ReadTo, Behind

LEMMA FreshReadTo ==
  ASSUME NEW p \in Payloads, NEW marked
  PROVE  Fresh(p) \in Request /\ ReadTo(Fresh(p), marked)
<1>1. p \in Seq(Messages)
  BY PayloadTyped
<1>2. Fresh(p) \in Request
  BY <1>1 DEF Fresh, Request
<1>3. Fresh(p).payload = p /\ Fresh(p).todo = p /\ Fresh(p).sending = FALSE
  BY DEF Fresh
<1>4. Len(p) \in Nat
  BY <1>1
<1>5. QED
  BY <1>2, <1>3, <1>4 DEF ReadTo, Behind

LEMMA MarkedMore ==
  ASSUME NEW r, NEW marked, NEW more, marked \subseteq more, ReadTo(r, marked)
  PROVE  ReadTo(r, more)
BY DEF ReadTo

(* The message at the head was marked: its answer is sent ...              *)
LEMMA SendingReadTo ==
  ASSUME NEW r \in Request, NEW marked, ReadTo(r, marked),
         r.todo # <<>>, Head(r.todo) \in marked,
         NEW q \in Request, q.payload = r.payload, q.todo = r.todo
  PROVE  ReadTo(q, marked)
BY DEF ReadTo, Behind

(* ... or it is left behind.                                               *)
LEMMA PassedReadTo ==
  ASSUME NEW r \in Request, NEW marked, ReadTo(r, marked),
         r.todo # <<>>, Head(r.todo) \in marked,
         NEW q \in Request, q.payload = r.payload, q.todo = Tail(r.todo), ~q.sending
  PROVE  ReadTo(q, marked)
<1> DEFINE p == r.payload
           t == r.todo
           u == Tail(t)
<1>1. p \in Seq(Messages) /\ t \in Seq(Messages)
  BY PayloadTyped DEF Request
<1>2. /\ u \in Seq(Messages) /\ Len(u) = Len(t) - 1
      /\ \A k \in 1 .. Len(u) : u[k] = t[k + 1]
  BY <1>1, HeadTailProperties
<1>3. Len(t) \in Nat \ {0} /\ Len(p) \in Nat /\ Len(t) <= Len(p) /\ Head(t) = t[1]
  BY <1>1, EmptySeq, LenProperties DEF ReadTo
<1>4. \A k \in 1 .. Len(t) : t[k] = p[Len(p) - Len(t) + k]
  BY DEF ReadTo, Behind
<1>5. \A k \in 1 .. Len(p) - Len(t) : p[k] \in marked
  BY DEF ReadTo, Behind
<1>a. Head(t) \in marked
  OBVIOUS
<1> DEFINE lp == Len(p)
           lt == Len(t)
           lu == Len(u)
<1>b. lp \in Nat /\ lt \in Nat \ {0} /\ lt <= lp /\ lu = lt - 1
  BY <1>2, <1>3
<1> HIDE DEF p, t, u
<1>6. t[1] = p[lp - lt + 1] /\ t[1] \in marked
  <2>1. 1 \in 1 .. lt
    BY <1>b
  <2>2. QED
    BY <1>3, <1>4, <1>a, <2>1
<1>7. ASSUME NEW k \in 1 .. Len(p) - Len(u) PROVE p[k] \in marked
  <2>1. k \in 1 .. lp - lt \/ k = lp - lt + 1
    <3> HIDE DEF lp, lt, lu
    <3>1. k \in 1 .. lp - lu
      BY <1>7 DEF lp, lu
    <3>2. QED
      BY <1>b, <3>1
  <2>2. QED
    BY <1>5, <1>6, <2>1
<1>8. ASSUME NEW k \in 1 .. Len(u) PROVE u[k] = p[Len(p) - Len(u) + k]
  <2>1. u[k] = t[k + 1] /\ k + 1 \in 1 .. Len(t)
    BY <1>2, <1>3
  <2>2. t[k + 1] = p[Len(p) - Len(t) + (k + 1)]
    BY <1>4, <2>1
  <2>3. Len(p) - Len(t) + (k + 1) = Len(p) - Len(u) + k
    BY <1>2, <1>3
  <2>4. QED
    BY <2>1, <2>2, <2>3
<1>9. Len(u) <= Len(p)
  BY <1>2, <1>3
<1>10. q.payload = p /\ q.todo = u
  BY DEF p, t, u
<1>11. QED
  BY <1>7, <1>8, <1>9, <1>10 DEF ReadTo, Behind

(* All behind: the payload is in the table.                                *)
LEMMA AllRead ==
  ASSUME NEW r \in Request, NEW marked, ReadTo(r, marked), r.todo = <<>>
  PROVE  /\ \A k \in 1 .. Len(r.payload) : r.payload[k] \in marked
         /\ r # Idle => r.payload \in Payloads
<1>1. r.payload \in Seq(Messages) /\ Len(r.payload) \in Nat /\ Len(r.todo) = 0
  BY PayloadTyped DEF Request
<1>2. Behind(r) = Len(r.payload)
  BY <1>1 DEF Behind
<1>3. r.payload = <<>> => r = Idle
  <2>1. ~r.sending
    BY DEF ReadTo
  <2>2. QED
    BY <2>1 DEF Request, Idle
<1>4. QED
  BY <1>2, <1>3 DEF ReadTo, Request

-------------------------------------------------------------------------------
(* The requests and the table.                                             *)

Reading == \A h \in Handlers : ReadTo(handler[h], processed)

RequestsTyped ==
  /\ handler \in [Handlers -> Request]
  /\ processed \subseteq Messages

LEMMA OneRequest ==
  ASSUME RequestsTyped, Reading, processed \subseteq processed', processed' \subseteq Messages,
         NEW h \in Handlers, NEW q \in Request, ReadTo(q, processed'),
         handler' = [handler EXCEPT ![h] = q]
  PROVE  RequestsTyped' /\ Reading'
<1>1. RequestsTyped'
  BY DEF RequestsTyped
<1>2. ASSUME NEW g \in Handlers PROVE ReadTo(handler[g], processed)'
  <2>1. CASE g = h
    BY <2>1 DEF RequestsTyped
  <2>2. CASE g # h
    <3>1. handler'[g] = handler[g] /\ ReadTo(handler[g], processed)
      BY <2>2 DEF RequestsTyped, Reading
    <3>2. ReadTo(handler[g], processed')
      BY <3>1, MarkedMore
    <3>3. QED
      BY <3>1, <3>2
  <2>3. QED
    BY <2>1, <2>2
<1>3. QED
  BY <1>1, <1>2 DEF Reading

LEMMA UntouchedRequests ==
  ASSUME RequestsTyped, Reading, processed \subseteq processed', processed' \subseteq Messages,
         handler' = handler
  PROVE  RequestsTyped' /\ Reading'
<1>1. ASSUME NEW g \in Handlers PROVE ReadTo(handler[g], processed')
  BY MarkedMore DEF Reading
<1>2. QED
  BY <1>1 DEF RequestsTyped, Reading

(* The loop of a request leaves its head behind.                           *)
LEMMA HeadPassed ==
  ASSUME RequestsTyped, Reading, processed \subseteq processed', processed' \subseteq Messages,
         NEW h \in Handlers, handler[h].todo # <<>>, Head(handler[h].todo) \in processed',
         NEW q, q = [handler[h] EXCEPT !.todo = Tail(@), !.sending = FALSE]
  PROVE  q \in Request /\ ReadTo(q, processed')
<1> DEFINE r == handler[h]
<1>1. r \in Request /\ ReadTo(r, processed')
  BY MarkedMore DEF RequestsTyped, Reading
<1> HIDE DEF r
<1>2. r.todo \in Seq(Messages) /\ r.todo # <<>>
  BY <1>1 DEF Request, r
<1>3. Tail(r.todo) \in Seq(Messages)
  BY <1>2, HeadTailProperties
<1>4. q = [r EXCEPT !.todo = Tail(@), !.sending = FALSE]
  BY DEF r
<1>5. q \in Request /\ q.payload = r.payload /\ q.todo = Tail(r.todo) /\ ~q.sending
  BY <1>1, <1>3, <1>4 DEF Request
<1>6. Head(r.todo) \in processed'
  BY DEF r
<1>7. QED
  BY <1>1, <1>2, <1>5, <1>6, PassedReadTo

(* The answer to the head is on its way.                                   *)
LEMMA HeadAnswered ==
  ASSUME RequestsTyped, Reading, processed \subseteq processed', processed' \subseteq Messages,
         NEW h \in Handlers, handler[h].todo # <<>>, Head(handler[h].todo) \in processed',
         NEW q, q = [handler[h] EXCEPT !.sending = TRUE]
  PROVE  q \in Request /\ ReadTo(q, processed')
<1> DEFINE r == handler[h]
<1>1. r \in Request /\ ReadTo(r, processed')
  BY MarkedMore DEF RequestsTyped, Reading
<1> HIDE DEF r
<1>2. q \in Request /\ q.payload = r.payload /\ q.todo = r.todo
  BY <1>1 DEF Request, r
<1>3. r.todo # <<>> /\ Head(r.todo) \in processed'
  BY DEF r
<1>4. QED
  BY <1>1, <1>2, <1>3, SendingReadTo

LEMMA ReadingStep ==
  ASSUME RequestsTyped, Reading, [Next]_vars
  PROVE  RequestsTyped' /\ Reading' /\ processed \subseteq processed'
<1>1. \A h \in Handlers, m \in Messages :
        At(h, m) => /\ handler[h].todo # <<>> /\ m = Head(handler[h].todo)
                    /\ ~handler[h].sending
  BY DEF At
<1>2. \A m \in Messages : Mark(m) =>
        processed \subseteq processed' /\ processed' \subseteq Messages /\ m \in processed'
  BY DEF Mark, RequestsTyped
<1>3. processed \subseteq Messages
  BY DEF RequestsTyped
<1>4. ASSUME NEW p \in Payloads, NEW h \in Handlers, Deliver(p, h)
      PROVE  RequestsTyped' /\ Reading' /\ processed \subseteq processed'
  <2>1. processed' = processed /\ handler' = [handler EXCEPT ![h] = Fresh(p)]
    BY <1>4 DEF Deliver, Fresh
  <2>2. Fresh(p) \in Request /\ ReadTo(Fresh(p), processed')
    BY FreshReadTo
  <2>3. QED
    BY <1>3, <2>1, <2>2, OneRequest
<1>5. ASSUME NEW h \in Handlers, SkipMessage(h)
      PROVE  RequestsTyped' /\ Reading' /\ processed \subseteq processed'
  <2>1. PICK m \in Messages :
          At(h, m) /\ Mark(m) /\ handler' = [handler EXCEPT ![h].todo = Tail(@)]
    BY <1>5 DEF SkipMessage
  <2> DEFINE q == [handler[h] EXCEPT !.todo = Tail(@), !.sending = FALSE]
  <2>2. q \in Request /\ ReadTo(q, processed')
    BY <1>1, <1>2, <2>1, HeadPassed
  <2>3. q = [handler[h] EXCEPT !.todo = Tail(@)]
    <3>1. handler[h] \in Request /\ handler[h].sending = FALSE
      BY <1>1, <2>1 DEF RequestsTyped, Request
    <3>2. QED
      BY <3>1 DEF Request
  <2>4. handler' = [handler EXCEPT ![h] = q]
    BY <2>1, <2>3 DEF RequestsTyped
  <2> HIDE DEF q
  <2>5. QED
    BY <1>2, <2>1, <2>2, <2>4, OneRequest
<1>6. ASSUME NEW h \in Handlers, Answer(h) \/ QueueBacktest(h)
      PROVE  RequestsTyped' /\ Reading' /\ processed \subseteq processed'
  <2>1. PICK m \in Messages :
          At(h, m) /\ Mark(m) /\ handler' = [handler EXCEPT ![h].sending = TRUE]
    BY <1>6 DEF Answer, QueueBacktest
  <2> DEFINE q == [handler[h] EXCEPT !.sending = TRUE]
  <2>2. q \in Request /\ ReadTo(q, processed')
    BY <1>1, <1>2, <2>1, HeadAnswered
  <2>3. handler' = [handler EXCEPT ![h] = q]
    BY <2>1 DEF RequestsTyped
  <2> HIDE DEF q
  <2>4. QED
    BY <1>2, <2>1, <2>2, <2>3, OneRequest
<1>7. ASSUME NEW h \in Handlers, AnswerSent(h)
      PROVE  RequestsTyped' /\ Reading' /\ processed \subseteq processed'
  <2>1. /\ handler[h].sending /\ processed' = processed
        /\ handler' = [handler EXCEPT ![h].sending = FALSE, ![h].todo = Tail(@)]
    BY <1>7 DEF AnswerSent
  <2>2. handler[h].todo # <<>> /\ Head(handler[h].todo) \in processed'
    BY <2>1 DEF Reading, ReadTo
  <2> DEFINE q == [handler[h] EXCEPT !.todo = Tail(@), !.sending = FALSE]
  <2>3. q \in Request /\ ReadTo(q, processed')
    BY <1>3, <2>1, <2>2, HeadPassed
  <2>4. handler' = [handler EXCEPT ![h] = q]
    <3>1. handler[h] \in Request
      BY DEF RequestsTyped
    <3>2. QED
      BY <2>1, <3>1 DEF RequestsTyped, Request
  <2> HIDE DEF q
  <2>5. QED
    BY <1>3, <2>1, <2>3, <2>4, OneRequest
<1>8. ASSUME NEW h \in Handlers, Respond(h) \/ MarkFails(h) \/ StatusFails(h)
      PROVE  RequestsTyped' /\ Reading' /\ processed \subseteq processed'
  <2>1. /\ handler' = [handler EXCEPT ![h] = Idle]
        /\ processed' = processed \/ \E m \in Messages : Mark(m)
    BY <1>8 DEF Respond, MarkFails, StatusFails
  <2>2. processed \subseteq processed' /\ processed' \subseteq Messages
    BY <1>2, <1>3, <2>1
  <2>3. QED
    BY <2>1, <2>2, IdleReadTo, OneRequest
<1>9. ASSUME handler' = [h \in Handlers |-> Idle],
             processed' = processed \/ \E m \in Messages : Mark(m)
      PROVE  RequestsTyped' /\ Reading' /\ processed \subseteq processed'
  BY <1>2, <1>3, <1>9, IdleReadTo DEF RequestsTyped, Reading
<1>10. ASSUME UNCHANGED <<handler, processed>>
       PROVE  RequestsTyped' /\ Reading' /\ processed \subseteq processed'
  BY <1>3, <1>10, UntouchedRequests
<1>11. ASSUME NEW m \in Messages, JobStep(m) PROVE UNCHANGED <<handler, processed>>
  BY <1>11 DEF JobStep, StartJob, WakeJob, FetchEnds, SendChunk, ChunkFails, SendApology,
               CancelJob
<1>12. CASE LifespanStep \/ Stop
  BY <1>9, <1>10, <1>12
  DEF LifespanStep, Start, StopMonitor, CancelJobs, CloseClients, Exit, Forget, Stop, memory
<1>13. CASE Crash
  BY <1>9, <1>13 DEF Crash, Forget
<1>14. CASE UNCHANGED vars
  BY <1>10, <1>14 DEF vars, memory
<1>15. QED
  BY <1>4, <1>5, <1>6, <1>7, <1>8, <1>10, <1>11, <1>12, <1>13, <1>14 DEF Next, HandlerStep

-------------------------------------------------------------------------------
(* The jobs and their lock.                                                *)

States == {"none"} \cup Live \cup Ended

(* A message that is not in the table has no history.                      *)
Untouched ==
  \A m \in Messages : m \notin processed => job[m] = "none" /\ tried[m] = {} /\ handled[m] = 0

(* A job on its way has parts left, and has not given up on them; until it *)
(* does, WhatsApp took the parts that were sent and no other.              *)
Undecided ==
  \A m \in Messages :
    /\ job[m] = "none" => sent[m] = 0 /\ accepted[m] = 0
    /\ job[m] \in Live => sent[m] < Chunks
    /\ job[m] \in Live => "apology" \notin tried[m]
    /\ job[m] \in Live \ {"apologising"} => accepted[m] = sent[m]

JobsTyped ==
  /\ job \in [Messages -> States]
  /\ cancelled \subseteq Messages
  /\ holder \subseteq Messages
  /\ waiters \in Seq(Messages)
  /\ sent \in [Messages -> 0 .. Chunks]
  /\ accepted \in [Messages -> 0 .. Chunks]
  /\ handled \in [Messages -> Nat]
  /\ tried \in [Messages -> SUBSET {"result", "apology"}]

(* Only the holder of the lock runs, and there is one.                     *)
Serialized ==
  /\ \A m \in Messages : job[m] \in Running => m \in holder
  /\ \A m, n \in holder : m = n

(* Only jobs on their way are cancelled.                                   *)
Pending == \A m \in cancelled : job[m] \in Live

JobsInv == JobsTyped /\ Untouched /\ Undecided /\ Serialized /\ Pending

StillOnce == \A m \in Messages : handled[m] <= 1

LEMMA AcquireJobs ==
  ASSUME JobsTyped, Serialized, NEW m \in Messages, job[m] \in {"created", "waiting"}, Acquire(m)
  PROVE  /\ job' \in [Messages -> States] /\ holder' \subseteq Messages
         /\ waiters' \in Seq(Messages) /\ Serialized'
         /\ job'[m] \in Live /\ \A n \in Messages : n # m => job'[n] = job[n]
<1>1. CASE holder = {} /\ waiters = <<>>
  BY <1>1 DEF Acquire, JobsTyped, Serialized, States, Live, Running
<1>2. CASE ~(holder = {} /\ waiters = <<>>)
  <2>1. /\ waiters' = Append(waiters, m) /\ holder' = holder
        /\ job' = [job EXCEPT ![m] = "waiting"]
    BY <1>2 DEF Acquire
  <2>2. waiters' \in Seq(Messages)
    BY <2>1, AppendProperties DEF JobsTyped
  <2>3. QED
    BY <2>1, <2>2 DEF JobsTyped, Serialized, States, Live, Running
<1>3. QED
  BY <1>1, <1>2

LEMMA LeaveQueueTyped ==
  ASSUME JobsTyped, NEW m \in Messages, LeaveQueue(m)
  PROVE  waiters' \in Seq(Messages)
<1>1. CASE waiters' = waiters
  BY <1>1 DEF JobsTyped
<1>2. ASSUME NEW k \in 1 .. Len(waiters),
             waiters' = SubSeq(waiters, 1, k - 1) \o SubSeq(waiters, k + 1, Len(waiters))
      PROVE  waiters' \in Seq(Messages)
  <2>1. waiters \in Seq(Messages) /\ Len(waiters) \in Nat
    BY DEF JobsTyped
  <2>2. SubSeq(waiters, 1, k - 1) \in Seq(Messages)
    BY <2>1, SubSeqProperties
  <2>3. SubSeq(waiters, k + 1, Len(waiters)) \in Seq(Messages)
    BY <2>1, SubSeqProperties
  <2>4. QED
    BY <1>2, <2>2, <2>3, ConcatProperties
<1>3. QED
  BY <1>1, <1>2 DEF LeaveQueue

(* The steps of a job.                                                     *)
LEMMA JobStepInv ==
  ASSUME JobsInv, StillOnce, NEW m \in Messages, JobStep(m)
  PROVE  JobsInv' /\ StillOnce'
<1> USE ServiceAssumption DEF ServiceAssumption, JobsInv
<1>0. processed' = processed /\ handled' = handled /\ StillOnce'
  BY DEF JobStep, StartJob, WakeJob, FetchEnds, SendChunk, ChunkFails, SendApology, CancelJob,
         history, Try, StillOnce
<1>1. \A n \in Messages : job[n] \in Live => n \in processed
  BY DEF Untouched, Live, Running
<1>a. \A how \in {"done", "cancelled"} :
        how \notin Live \cup {"none"} /\ how \notin Running /\ how \in States
  BY DEF Live, Running, Ended, States
<1>b. "none" \notin Live /\ Running \subseteq Live
  BY DEF Live, Running
<1>2. CASE StartJob(m)
  <2>1. /\ job[m] = "created" /\ Acquire(m)
        /\ UNCHANGED <<cancelled, sent, history>>
    BY <1>2 DEF StartJob
  <2>2. QED
    BY <1>0, <1>1, <2>1, AcquireJobs
       DEF JobsTyped, Untouched, Undecided, Pending, Live, Running, history
<1>3. CASE WakeJob(m)
  <2>1. /\ job[m] = "waiting" /\ holder = {} /\ holder' = {m}
        /\ waiters # <<>> /\ waiters' = Tail(waiters)
        /\ job' = [job EXCEPT ![m] = "fetching"]
        /\ UNCHANGED <<cancelled, sent, history>>
    BY <1>3 DEF WakeJob
  <2>2. waiters' \in Seq(Messages)
    BY <2>1, HeadTailProperties DEF JobsTyped
  <2>3. JobsTyped'
    BY <1>0, <2>1, <2>2 DEF JobsTyped, States, Live, Running, history
  <2>4. Serialized'
    BY <2>1 DEF JobsTyped, Serialized, Running
  <2>5. QED
    BY <1>0, <1>1, <2>1, <2>3, <2>4
       DEF JobsTyped, Untouched, Undecided, Pending, Live, Running, history
<1>4. CASE FetchEnds(m)
  <2>1. PICK outcome \in {"reporting", "apologising"} :
          /\ job[m] = "fetching" /\ job' = [job EXCEPT ![m] = outcome]
          /\ UNCHANGED <<cancelled, lock, sent, history>>
    BY <1>4 DEF FetchEnds
  <2>2. QED
    BY <1>0, <1>1, <2>1
       DEF JobsTyped, Untouched, Undecided, Serialized, Pending, States, Live, Running, history,
           lock
<1>5. CASE SendChunk(m)
  <2>1. /\ job[m] = "reporting" /\ Try(m, "result") /\ waiters' = waiters
        /\ sent' = [sent EXCEPT ![m] = @ + 1]
        /\ accepted' = [accepted EXCEPT ![m] = @ + 1]
        /\ IF sent'[m] = Chunks THEN Leave(m, "done") ELSE UNCHANGED <<job, holder, cancelled>>
    BY <1>5 DEF SendChunk
  <2>2. /\ sent[m] < Chunks /\ sent[m] \in Nat /\ sent'[m] = sent[m] + 1
        /\ accepted[m] = sent[m] /\ accepted'[m] = sent'[m]
    BY <2>1 DEF JobsTyped, Undecided, Live, Running
  <2>3. CASE sent'[m] = Chunks
    <3>1. /\ job' = [job EXCEPT ![m] = "done"] /\ holder' = holder \ {m}
          /\ cancelled' = cancelled \ {m} /\ m \in processed
      BY <1>1, <2>1, <2>3 DEF Leave, Live, Running
    <3>2. JobsTyped'
      BY <1>0, <2>1, <2>2, <3>1 DEF JobsTyped, States, Ended, Try
    <3>3. Untouched' /\ Undecided'
      <4>1. \A n \in Messages :
              n # m => /\ job'[n] = job[n] /\ sent'[n] = sent[n]
                       /\ accepted'[n] = accepted[n] /\ tried'[n] = tried[n]
        BY <2>1, <3>1 DEF JobsTyped, Try
      <4>2. job'[m] = "done"
        BY <3>1 DEF JobsTyped
      <4>3. QED
        BY <1>0, <1>a, <3>1, <4>1, <4>2 DEF Untouched, Undecided
    <3>4. Serialized' /\ Pending'
      BY <3>1 DEF JobsTyped, Serialized, Pending, Live, Running
    <3>5. QED
      BY <1>0, <3>2, <3>3, <3>4
  <2>4. CASE sent'[m] # Chunks
    BY <1>0, <1>1, <2>1, <2>2, <2>4
       DEF JobsTyped, Untouched, Undecided, Serialized, Pending, States, Live, Running,
           Ended, Try
  <2>5. QED
    BY <2>3, <2>4
<1>6. CASE ChunkFails(m)
  <2>1. /\ job[m] = "reporting" /\ job' = [job EXCEPT ![m] = "apologising"]
        /\ Try(m, "result") /\ MayArrive(m) /\ UNCHANGED <<cancelled, lock, sent>>
    BY <1>6 DEF ChunkFails
  <2>2. sent[m] < Chunks /\ sent[m] \in Nat /\ accepted[m] = sent[m]
    BY <2>1 DEF JobsTyped, Undecided, Live, Running
  <2>3. /\ accepted' \in [Messages -> 0 .. Chunks]
        /\ \A n \in Messages : n # m => accepted'[n] = accepted[n]
    <3>1. accepted[m] + 1 \in 0 .. Chunks
      BY <2>2
    <3>2. CASE accepted' = accepted
      BY <3>2 DEF JobsTyped
    <3>3. CASE accepted' = [accepted EXCEPT ![m] = @ + 1]
      BY <3>1, <3>3 DEF JobsTyped
    <3>4. QED
      BY <2>1, <3>2, <3>3 DEF MayArrive
  <2>4. JobsTyped'
    BY <1>0, <2>1, <2>3 DEF JobsTyped, States, Live, Running, Try, lock
  <2>5. Untouched' /\ Serialized' /\ Pending'
    BY <1>0, <1>1, <2>1
       DEF JobsTyped, Untouched, Serialized, Pending, Live, Running, Try, lock
  <2>6. Undecided'
    BY <2>1, <2>2, <2>3 DEF JobsTyped, Undecided, Live, Running, Try
  <2>7. QED
    BY <1>0, <2>4, <2>5, <2>6
<1>7. CASE SendApology(m)
  BY <1>0, <1>1, <1>7
     DEF SendApology, JobsTyped, Untouched, Undecided, Serialized, Pending, States, Live, Running,
         Ended, Try, Leave
<1>8. CASE CancelJob(m)
  <2>1. waiters' \in Seq(Messages)
    BY <1>8, LeaveQueueTyped DEF CancelJob
  <2>2. /\ m \in cancelled /\ Leave(m, "cancelled") /\ UNCHANGED <<sent, history>>
    BY <1>8 DEF CancelJob
  <2>3. /\ job' = [job EXCEPT ![m] = "cancelled"] /\ holder' = holder \ {m}
        /\ cancelled' = cancelled \ {m} /\ m \in processed
    BY <1>1, <2>2 DEF Leave, Pending
  <2>4. JobsTyped'
    BY <1>0, <2>1, <2>2, <2>3 DEF JobsTyped, States, Ended, history
  <2>5. Untouched' /\ Undecided'
    <3>1. \A n \in Messages : n # m => job'[n] = job[n]
      BY <2>3 DEF JobsTyped
    <3>2. job'[m] = "cancelled" /\ sent' = sent /\ tried' = tried /\ accepted' = accepted
      BY <2>2, <2>3 DEF JobsTyped, history
    <3>3. QED
      BY <1>0, <1>a, <2>3, <3>1, <3>2 DEF Untouched, Undecided
  <2>6. Serialized' /\ Pending'
    BY <1>a, <2>3 DEF JobsTyped, Serialized, Pending
  <2>7. QED
    BY <1>0, <2>4, <2>5, <2>6
<1>9. QED
  BY <1>2, <1>3, <1>4, <1>5, <1>6, <1>7, <1>8 DEF JobStep

(* The steps of a request: only a message not yet in the table gets a job. *)
LEMMA HandlerStepInv ==
  ASSUME JobsInv, StillOnce, NEW h \in Handlers,
         HandlerStep(h) \/ MarkFails(h) \/ StatusFails(h)
  PROVE  JobsInv' /\ StillOnce'
<1> USE ServiceAssumption DEF ServiceAssumption, JobsInv
<1>1. ASSUME UNCHANGED <<job, cancelled, lock, sent, history>>, processed \subseteq processed'
      PROVE  JobsInv' /\ StillOnce'
  BY <1>1 DEF JobsTyped, Untouched, Undecided, Serialized, Pending, StillOnce, lock, history
<1>2. CASE SkipMessage(h) \/ AnswerSent(h) \/ Respond(h) \/ MarkFails(h) \/ StatusFails(h)
  BY <1>1, <1>2 DEF SkipMessage, AnswerSent, Respond, MarkFails, StatusFails, Mark
<1>3. CASE Answer(h)
  <2>1. PICK m \in Messages :
          /\ m \notin processed /\ processed' = processed \cup {m}
          /\ handled' = [handled EXCEPT ![m] = @ + 1]
          /\ UNCHANGED <<job, cancelled, lock, sent, accepted, tried>>
    BY <1>3 DEF Answer, Dropped, IsNew, Mark
  <2>2. handled[m] = 0 /\ handled' \in [Messages -> Nat] /\ handled'[m] = 1
    BY <2>1 DEF Untouched, JobsTyped
  <2>3. QED
    BY <2>1, <2>2
       DEF JobsTyped, Untouched, Undecided, Serialized, Pending, StillOnce, lock
<1>4. CASE QueueBacktest(h)
  <2>1. PICK m \in Messages :
          /\ m \notin processed /\ processed' = processed \cup {m}
          /\ handled' = [handled EXCEPT ![m] = @ + 1]
          /\ job' = [job EXCEPT ![m] = "created"]
          /\ UNCHANGED <<cancelled, lock, sent, accepted, tried>>
    BY <1>4 DEF QueueBacktest, Dropped, IsNew, Mark
  <2>2. handled[m] = 0 /\ handled' \in [Messages -> Nat] /\ handled'[m] = 1
    BY <2>1 DEF Untouched, JobsTyped
  <2>3. /\ job[m] = "none" /\ tried[m] = {} /\ sent[m] = 0 /\ accepted[m] = 0
        /\ job'[m] = "created" /\ \A n \in Messages : n # m => job'[n] = job[n]
    BY <2>1 DEF Untouched, Undecided, JobsTyped
  <2>4. "created" \in Live /\ "created" \notin Running /\ "created" \in States
    BY DEF Live, Running, States
  <2>5. JobsTyped' /\ Untouched' /\ StillOnce'
    BY <2>1, <2>2, <2>4 DEF JobsTyped, Untouched, StillOnce, lock
  <2>6. Undecided' /\ Serialized' /\ Pending'
    BY <2>1, <2>3, <2>4 DEF JobsTyped, Undecided, Serialized, Pending, lock
  <2>7. QED
    BY <2>5, <2>6
<1>5. QED
  BY <1>2, <1>3, <1>4 DEF HandlerStep

(* The end of the process.                                                 *)
LEMMA ForgetInv ==
  ASSUME JobsInv, StillOnce, Forget, processed \subseteq processed', UNCHANGED history
  PROVE  JobsInv' /\ StillOnce'
<1> USE ServiceAssumption DEF ServiceAssumption, JobsInv
<1>1. /\ job' = [m \in Messages |-> IF job[m] \in Live THEN "lost" ELSE job[m]]
      /\ cancelled' = {} /\ holder' = {} /\ waiters' = <<>>
      /\ sent' = [m \in Messages |-> 0]
      /\ handled' = handled /\ tried' = tried /\ accepted' = accepted
  BY DEF Forget, history
<1>2. /\ "lost" \notin Live \cup {"none"} /\ "lost" \in States
      /\ "none" \notin Live /\ Running \subseteq Live
  BY DEF Live, Running, Ended, States
<1>3. \A m \in Messages : job'[m] \notin Live /\ (job[m] = "none" => job'[m] = "none")
  BY <1>1, <1>2
<1>4. JobsTyped'
  <2>1. <<>> \in Seq(Messages)
    BY EmptySeq
  <2>2. job' \in [Messages -> States]
    BY <1>1, <1>2 DEF JobsTyped
  <2>3. QED
    BY <1>1, <2>1, <2>2 DEF JobsTyped
<1>5. Untouched' /\ StillOnce'
  BY <1>1, <1>3 DEF Untouched, StillOnce
<1>6. Undecided'
  BY <1>1, <1>3 DEF Undecided
<1>7. Serialized' /\ Pending'
  BY <1>1, <1>2, <1>3 DEF Serialized, Pending
<1>8. QED
  BY <1>4, <1>5, <1>6, <1>7

LEMMA JobsInvStep == JobsInv /\ StillOnce /\ [Next]_vars => JobsInv' /\ StillOnce'
<1> SUFFICES ASSUME JobsInv, StillOnce, [Next]_vars PROVE JobsInv' /\ StillOnce'
  OBVIOUS
<1>1. ASSUME UNCHANGED <<processed, job, cancelled, lock, sent, history>>
      PROVE  JobsInv' /\ StillOnce'
  BY <1>1 DEF JobsInv, JobsTyped, Untouched, Undecided, Serialized, Pending, StillOnce, lock,
              history
<1>2. ASSUME NEW p \in Payloads, NEW h \in Handlers, Deliver(p, h)
      PROVE  JobsInv' /\ StillOnce'
  BY <1>1, <1>2 DEF Deliver
<1>3. ASSUME NEW h \in Handlers, HandlerStep(h) \/ MarkFails(h) \/ StatusFails(h)
      PROVE  JobsInv' /\ StillOnce'
  BY <1>3, HandlerStepInv
<1>4. ASSUME NEW m \in Messages, JobStep(m) PROVE JobsInv' /\ StillOnce'
  BY <1>4, JobStepInv
<1>5. CASE CancelJobs
  BY <1>5 DEF CancelJobs, LiveJobs, JobsInv, JobsTyped, Untouched, Undecided, Serialized,
              Pending, StillOnce, lock, history
<1>6. CASE Start \/ StopMonitor \/ CloseClients \/ Stop
  BY <1>1, <1>6 DEF Start, StopMonitor, CloseClients, Stop, memory, lock
<1>7. CASE Exit \/ Crash
  <2>1. Forget /\ processed \subseteq processed' /\ UNCHANGED history
    BY <1>7 DEF Exit, Crash, Mark
  <2>2. QED
    BY <2>1, ForgetInv
<1>8. CASE UNCHANGED vars
  BY <1>1, <1>8 DEF vars, memory, lock
<1>9. QED
  BY <1>2, <1>3, <1>4, <1>5, <1>6, <1>7, <1>8 DEF Next, LifespanStep

-------------------------------------------------------------------------------
(* The service.                                                            *)

(* The requests are over before anything is cancelled, and the jobs before *)
(* the clients are closed.                                                 *)
Drained ==
  /\ service \in {"stopMonitor", "gather", "closed"} => \A h \in Handlers : handler[h] = Idle
  /\ service = "closed" => LiveJobs = {}

ServiceTyped ==
  /\ service \in {"down", "up", "draining", "stopMonitor", "gather", "closed"}
  /\ interruptions \in 0 .. MaxInterruptions
  /\ acked \subseteq Payloads

LEMMA ServiceStep ==
  ASSUME RequestsTyped, Reading, JobsTyped, ServiceTyped, Drained, AckedIsMarked,
         processed \subseteq processed', [Next]_vars
  PROVE  ServiceTyped' /\ Drained' /\ AckedIsMarked'
<1> USE ServiceAssumption DEF ServiceAssumption
<1>1. (acked' = acked \/ \E h \in Handlers : Respond(h)) => AckedIsMarked' /\ acked' \subseteq Payloads
  <2>1. SUFFICES ASSUME acked' = acked \/ \E h \in Handlers : Respond(h)
                 PROVE  \A p \in acked' : p \in Payloads /\ \A k \in 1 .. Len(p) : p[k] \in processed'
    BY DEF AckedIsMarked
  <2>2. \A p \in acked : p \in Payloads /\ \A k \in 1 .. Len(p) : p[k] \in processed'
    BY DEF AckedIsMarked, ServiceTyped
  <2>3. ASSUME NEW h \in Handlers, Respond(h)
        PROVE  \A p \in acked' : p \in Payloads /\ \A k \in 1 .. Len(p) : p[k] \in processed'
    <3> DEFINE r == handler[h]
    <3>1. r \in Request /\ ReadTo(r, processed)
      BY DEF RequestsTyped, Reading
    <3>2. r # Idle /\ r.todo = <<>> /\ acked' \subseteq acked \cup {r.payload}
      BY <2>3 DEF Respond
    <3> HIDE DEF r
    <3>3. r.payload \in Payloads /\ \A k \in 1 .. Len(r.payload) : r.payload[k] \in processed'
      BY <3>1, <3>2, AllRead
    <3>4. QED
      BY <2>2, <3>2, <3>3
  <2>4. QED
    BY <2>1, <2>2, <2>3
<1>2. ASSUME NEW p \in Payloads, NEW h \in Handlers, Deliver(p, h)
      PROVE  ServiceTyped' /\ Drained' /\ AckedIsMarked'
  BY <1>1, <1>2 DEF Deliver, ServiceTyped, Drained
<1>3. ASSUME NEW h \in Handlers, HandlerStep(h) \/ MarkFails(h) \/ StatusFails(h)
      PROVE  ServiceTyped' /\ Drained' /\ AckedIsMarked'
  <2>1. Serving /\ service' = service
    BY <1>3 DEF HandlerStep, SkipMessage, Answer, QueueBacktest, AnswerSent, Respond,
                MarkFails, StatusFails, At
  <2>2. acked' = acked \/ Respond(h)
    BY <1>3 DEF HandlerStep, SkipMessage, Answer, QueueBacktest, AnswerSent,
                MarkFails, StatusFails
  <2>3. interruptions' \in 0 .. MaxInterruptions
    BY <1>3 DEF HandlerStep, SkipMessage, Answer, QueueBacktest, AnswerSent, Respond,
                MarkFails, StatusFails, Interrupt, ServiceTyped
  <2>4. QED
    BY <1>1, <2>1, <2>2, <2>3 DEF Serving, ServiceTyped, Drained
<1>4. ASSUME NEW m \in Messages, JobStep(m)
      PROVE  ServiceTyped' /\ Drained' /\ AckedIsMarked'
  <2>1. UNCHANGED <<service, interruptions, acked, handler>>
    BY <1>4 DEF JobStep, StartJob, WakeJob, FetchEnds, SendChunk, ChunkFails, SendApology,
                CancelJob
  <2>2. LiveJobs = {} => LiveJobs' = {}
    <3>1. SUFFICES ASSUME LiveJobs = {} PROVE LiveJobs' = {}
      OBVIOUS
    <3>2. job[m] \notin Live
      BY <3>1 DEF LiveJobs
    <3>3. CancelJob(m)
      BY <1>4, <3>2 DEF JobStep, StartJob, WakeJob, FetchEnds, SendChunk, ChunkFails,
                        SendApology, Live, Running
    <3>4. job' = [job EXCEPT ![m] = "cancelled"]
      BY <3>3 DEF CancelJob, Leave
    <3>5. QED
      BY <3>1, <3>4 DEF LiveJobs, Live, Running, JobsTyped
  <2>3. QED
    BY <1>1, <2>1, <2>2 DEF ServiceTyped, Drained
<1>5. CASE LifespanStep \/ Stop \/ Crash
  <2>1. acked' = acked
    BY <1>5 DEF LifespanStep, Start, StopMonitor, CancelJobs, CloseClients, Exit, Stop, Crash
  <2>2. interruptions' \in 0 .. MaxInterruptions
    BY <1>5 DEF LifespanStep, Start, StopMonitor, CancelJobs, CloseClients, Exit, Stop, Crash,
                Interrupt, ServiceTyped
  <2>3. \/ service' \in {"down", "up", "draining"}
        \/ StopMonitor \/ CancelJobs \/ CloseClients
    BY <1>5 DEF LifespanStep, Start, Exit, Forget, Stop, Crash
  <2>4. Drained' /\ service' \in {"down", "up", "draining", "stopMonitor", "gather", "closed"}
    <3>1. CASE service' \in {"down", "up", "draining"}
      BY <3>1 DEF Drained
    <3>2. CASE StopMonitor
      BY <3>2 DEF StopMonitor, Drained, memory
    <3>3. CASE CancelJobs
      BY <3>3 DEF CancelJobs, Drained
    <3>4. CASE CloseClients
      BY <3>4 DEF CloseClients, Drained, memory, LiveJobs
    <3>5. QED
      BY <2>3, <3>1, <3>2, <3>3, <3>4
  <2>5. QED
    BY <1>1, <2>1, <2>2, <2>4 DEF ServiceTyped
<1>6. CASE UNCHANGED vars
  BY <1>1, <1>6 DEF vars, memory, ServiceTyped, Drained, LiveJobs
<1>7. QED
  BY <1>2, <1>3, <1>4, <1>5, <1>6 DEF Next

-------------------------------------------------------------------------------
(* What was lost.                                                          *)

Lost == {m \in processed \cap Allowed : handled[m] = 0}

LostFew == IsFiniteSet(Lost) /\ Cardinality(Lost) <= interruptions

LEMMA LostLess ==
  ASSUME LostFew, Lost' \subseteq Lost, interruptions' \in Nat, interruptions \in Nat,
         interruptions <= interruptions'
  PROVE  LostFew'
<1>1. IsFiniteSet(Lost') /\ Cardinality(Lost') <= Cardinality(Lost)
  BY FS_Subset DEF LostFew
<1>2. Cardinality(Lost') \in Nat /\ Cardinality(Lost) \in Nat
  BY <1>1, FS_CardinalityType DEF LostFew
<1> DEFINE before == Cardinality(Lost)
           after  == Cardinality(Lost)'
<1>3. after \in Nat /\ before \in Nat /\ after <= before /\ before <= interruptions
  BY <1>1, <1>2 DEF LostFew
<1> HIDE DEF before, after
<1>4. after <= interruptions'
  BY <1>3
<1>5. QED
  BY <1>1, <1>4 DEF LostFew, after

(* An interruption marks one message at most.                              *)
LEMMA OneLost ==
  ASSUME LostFew, NEW m \in Messages, processed' \subseteq processed \cup {m},
         handled' = handled, interruptions \in Nat, interruptions' = interruptions + 1
  PROVE  LostFew'
<1>1. /\ IsFiniteSet(Lost \cup {m})
      /\ Cardinality(Lost \cup {m}) = Cardinality(Lost)
           \/ Cardinality(Lost \cup {m}) = Cardinality(Lost) + 1
  BY FS_AddElement DEF LostFew
<1>2. Lost' \subseteq Lost \cup {m}
  BY DEF Lost
<1>3. IsFiniteSet(Lost') /\ Cardinality(Lost') <= Cardinality(Lost \cup {m})
  BY <1>1, <1>2, FS_Subset
<1>4. /\ Cardinality(Lost') \in Nat /\ Cardinality(Lost) \in Nat
      /\ Cardinality(Lost \cup {m}) \in Nat
  BY <1>1, <1>3, FS_CardinalityType DEF LostFew
<1> DEFINE before == Cardinality(Lost)
           with   == Cardinality(Lost \cup {m})
           after  == Cardinality(Lost)'
<1>5. /\ after \in Nat /\ before \in Nat /\ with \in Nat /\ after <= with
      /\ with = before \/ with = before + 1
      /\ before <= interruptions
  BY <1>1, <1>3, <1>4 DEF LostFew
<1> HIDE DEF before, with, after
<1>6. after <= interruptions'
  BY <1>5
<1>7. QED
  BY <1>3, <1>6 DEF LostFew, after

LEMMA LostStep ==
  ASSUME LostFew, handled \in [Messages -> Nat], processed \subseteq Messages,
         interruptions \in Nat, [Next]_vars
  PROVE  LostFew'
<1>1. ASSUME UNCHANGED <<processed, handled>>,
             interruptions' = interruptions \/ interruptions' = interruptions + 1
      PROVE  LostFew'
  BY <1>1, LostLess DEF Lost
<1>2. ASSUME NEW h \in Handlers, SkipMessage(h) PROVE LostFew'
  <2>1. PICK m \in Messages : Dropped(m) /\ processed' = processed \cup {m}
    BY <1>2 DEF SkipMessage, Mark
  <2>2. Lost' \subseteq Lost
    BY <1>2, <2>1 DEF SkipMessage, Dropped, IsNew, Lost, history
  <2>3. QED
    BY <1>2, <2>2, LostLess DEF SkipMessage
<1>3. ASSUME NEW h \in Handlers, Answer(h) \/ QueueBacktest(h) PROVE LostFew'
  <2>1. PICK m \in Messages : /\ processed' = processed \cup {m}
                              /\ handled' = [handled EXCEPT ![m] = @ + 1]
    BY <1>3 DEF Answer, QueueBacktest, Mark
  <2>2. handled'[m] # 0 /\ \A n \in Messages : n # m => handled'[n] = handled[n]
    BY <2>1
  <2>3. Lost' \subseteq Lost
    BY <2>1, <2>2 DEF Lost
  <2>4. QED
    BY <1>3, <2>3, LostLess DEF Answer, QueueBacktest
<1>4. ASSUME NEW h \in Handlers, StatusFails(h) PROVE LostFew'
  <2>1. PICK m \in Messages : processed' = processed \cup {m}
    BY <1>4 DEF StatusFails, Mark
  <2>2. QED
    BY <1>4, <2>1, OneLost DEF StatusFails, Interrupt, history
<1>5. CASE Crash
  <2>1. handled' = handled /\ interruptions' = interruptions + 1
    BY <1>5 DEF Crash, Interrupt, history
  <2>2. CASE processed' = processed
    BY <1>1, <2>1, <2>2
  <2>3. ASSUME NEW m \in Messages, Mark(m) PROVE LostFew'
    BY <2>1, <2>3, OneLost DEF Mark
  <2>4. QED
    BY <1>5, <2>2, <2>3 DEF Crash
<1>6. ASSUME NEW h \in Handlers, AnswerSent(h) \/ Respond(h) \/ MarkFails(h) PROVE LostFew'
  BY <1>1, <1>6 DEF AnswerSent, Respond, MarkFails, Interrupt, history
<1>7. ASSUME NEW p \in Payloads, NEW h \in Handlers, Deliver(p, h) PROVE LostFew'
  BY <1>1, <1>7 DEF Deliver, history
<1>8. ASSUME NEW m \in Messages, JobStep(m) PROVE LostFew'
  BY <1>1, <1>8
  DEF JobStep, StartJob, WakeJob, FetchEnds, SendChunk, ChunkFails, SendApology, CancelJob,
      Try, history
<1>9. CASE LifespanStep \/ Stop
  BY <1>1, <1>9
  DEF LifespanStep, Start, StopMonitor, CancelJobs, CloseClients, Exit, Stop, Interrupt,
      history
<1>10. CASE UNCHANGED vars
  BY <1>1, <1>10 DEF vars, history
<1>11. QED
  BY <1>2, <1>3, <1>4, <1>5, <1>6, <1>7, <1>8, <1>9, <1>10 DEF Next, HandlerStep

-------------------------------------------------------------------------------
ServiceInv ==
  /\ RequestsTyped /\ Reading
  /\ JobsInv /\ StillOnce
  /\ ServiceTyped /\ Drained /\ AckedIsMarked
  /\ LostFew

LEMMA ServiceInvariant == Spec => []ServiceInv
<1>1. Init => ServiceInv
  <2> SUFFICES ASSUME Init PROVE ServiceInv
    OBVIOUS
  <2> USE ServiceAssumption DEF ServiceAssumption, Init
  <2>1. RequestsTyped /\ Reading
    BY IdleReadTo DEF RequestsTyped, Reading
  <2>2. <<>> \in Seq(Messages)
    BY EmptySeq
  <2>3. "none" \notin Live /\ Running \subseteq Live /\ "none" \in States
    BY DEF Live, Running, States
  <2>4. JobsTyped
    BY <2>2, <2>3 DEF JobsTyped
  <2>5. Untouched /\ Undecided /\ Serialized /\ Pending /\ StillOnce
    BY <2>3 DEF Untouched, Undecided, Serialized, Pending, StillOnce
  <2>6. ServiceTyped /\ Drained /\ AckedIsMarked
    BY DEF ServiceTyped, Drained, AckedIsMarked
  <2>7. LostFew
    BY FS_EmptySet DEF Lost, LostFew
  <2>8. QED
    BY <2>1, <2>4, <2>5, <2>6, <2>7 DEF ServiceInv, JobsInv
<1>2. ServiceInv /\ [Next]_vars => ServiceInv'
  <2> SUFFICES ASSUME ServiceInv, [Next]_vars PROVE ServiceInv'
    OBVIOUS
  <2>1. RequestsTyped' /\ Reading' /\ processed \subseteq processed'
    BY ReadingStep DEF ServiceInv
  <2>2. JobsInv' /\ StillOnce'
    BY JobsInvStep DEF ServiceInv
  <2>3. ServiceTyped' /\ Drained' /\ AckedIsMarked'
    BY <2>1, ServiceStep DEF ServiceInv, JobsInv
  <2>4. LostFew'
    <3>1. interruptions \in Nat
      BY ServiceAssumption DEF ServiceInv, ServiceTyped, ServiceAssumption
    <3>2. QED
      BY <3>1, LostStep DEF ServiceInv, RequestsTyped, JobsInv, JobsTyped
  <2>5. QED
    BY <2>1, <2>2, <2>3, <2>4 DEF ServiceInv
<1>3. QED
  BY <1>1, <1>2, PTL DEF Spec

(* For any messages and payloads the service keeps its types: no job sends *)
(* more parts than its result has, and only payloads are acknowledged.     *)
THEOREM TypeCorrect == Spec => []TypeOK
<1>1. ServiceInv => TypeOK
  BY DEF ServiceInv, RequestsTyped, Request, JobsInv, JobsTyped, ServiceTyped, States, TypeOK
<1>2. QED
  BY <1>1, ServiceInvariant, PTL

(* However many requests ask for backtests at once, one runs at a time.    *)
THEOREM OneAtATimeAlways == Spec => []OneAtATime
<1>1. ServiceInv => OneAtATime
  BY DEF ServiceInv, JobsInv, Serialized, OneAtATime
<1>2. QED
  BY <1>1, ServiceInvariant, PTL

(* No message is dispatched twice, whatever Meta repeats, through however  *)
(* many requests and restarts.                                             *)
THEOREM HandledOnceAlways == Spec => []HandledOnce
<1>1. ServiceInv => HandledOnce
  BY DEF ServiceInv, StillOnce, HandledOnce
<1>2. QED
  BY <1>1, ServiceInvariant, PTL

(* What was answered with 200 is in the table, to the last message of it.  *)
THEOREM AckedIsMarkedAlways == Spec => []AckedIsMarked
<1>1. ServiceInv => AckedIsMarked
  BY DEF ServiceInv
<1>2. QED
  BY <1>1, ServiceInvariant, PTL

(* The clients are closed only when no job and no request could use them.  *)
THEOREM ClosedIsQuietAlways == Spec => []ClosedIsQuiet
<1>1. ServiceInv => ClosedIsQuiet
  BY DEF ServiceInv, Drained, ClosedIsQuiet
<1>2. QED
  BY <1>1, ServiceInvariant, PTL

(* Commands are lost one by one: as many as there were crashes, stops and  *)
(* failing database calls, at most, for any payloads and any number of     *)
(* concurrent requests.                                                    *)
THEOREM LostByInterruptionAlways == Spec => []LostByInterruption
<1>1. ServiceInv => LostByInterruption
  BY DEF ServiceInv, LostFew, Lost, LostByInterruption
<1>2. QED
  BY <1>1, ServiceInvariant, PTL

(* A job that runs to its end either left the sender the whole result, or  *)
(* tried the notice because a part was not reported as sent, for any       *)
(* number of parts.                                                        *)
THEOREM WholeOrNoticeAlways == Spec => WholeOrNotice
<1> DEFINE Step == \A m \in Messages :
                     job[m] \in Live /\ job'[m] = "done" =>
                       IF "apology" \in tried'[m]
                       THEN sent'[m] < Chunks
                       ELSE accepted'[m] = Chunks
<1>1. ServiceInv /\ ServiceInv' /\ [Next]_vars => [Step]_vars
  <2> SUFFICES ASSUME ServiceInv, Next, NEW n \in Messages, job[n] \in Live, job'[n] = "done"
               PROVE  IF "apology" \in tried'[n]
                      THEN sent'[n] < Chunks
                      ELSE accepted'[n] = Chunks
    OBVIOUS
  <2>1. JobsTyped /\ Undecided
    BY DEF ServiceInv, JobsInv
  <2>2. /\ sent[n] < Chunks /\ sent[n] \in Nat /\ "apology" \notin tried[n]
        /\ job[n] # "done" /\ (job[n] = "reporting" => accepted[n] = sent[n])
    BY <2>1 DEF JobsTyped, Undecided, Live, Running
  <2>3. PICK m \in Messages :
          \/ SendChunk(m) /\ Leave(m, "done") /\ sent'[m] = Chunks
          \/ SendApology(m)
    <3>1. ASSUME NEW h \in Handlers, HandlerStep(h) \/ MarkFails(h) \/ StatusFails(h)
          PROVE  FALSE
      BY <2>1, <2>2, <3>1
      DEF HandlerStep, SkipMessage, Answer, QueueBacktest, AnswerSent, Respond, MarkFails,
          StatusFails, JobsTyped
    <3>2. ASSUME NEW p \in Payloads, NEW h \in Handlers, Deliver(p, h) PROVE FALSE
      BY <2>2, <3>2 DEF Deliver
    <3>3. CASE LifespanStep \/ Stop \/ Crash
      BY <2>2, <3>3
      DEF LifespanStep, Start, StopMonitor, CancelJobs, CloseClients, Exit, Stop, Crash,
          Forget, memory
    <3>4. ASSUME NEW m \in Messages, JobStep(m)
          PROVE  \/ SendChunk(m) /\ Leave(m, "done") /\ sent'[m] = Chunks
                 \/ SendApology(m)
      BY <2>1, <2>2, <3>4
      DEF JobStep, StartJob, WakeJob, FetchEnds, SendChunk, ChunkFails, CancelJob, Leave,
          Acquire, JobsTyped
    <3>5. QED
      BY <3>1, <3>2, <3>3, <3>4 DEF Next
  <2>4. CASE SendChunk(m) /\ Leave(m, "done") /\ sent'[m] = Chunks
    <3>1. m = n
      BY <2>1, <2>2, <2>4 DEF Leave, JobsTyped
    <3>2. /\ tried'[n] = tried[n] \cup {"result"}
          /\ sent'[n] = sent[n] + 1 /\ accepted'[n] = accepted[n] + 1
          /\ job[n] = "reporting"
      BY <2>1, <2>4, <3>1 DEF SendChunk, Try, JobsTyped
    <3>3. QED
      BY <2>2, <2>4, <3>1, <3>2
  <2>5. CASE SendApology(m)
    <3>1. m = n
      BY <2>1, <2>2, <2>5 DEF SendApology, Leave, JobsTyped
    <3>2. "apology" \in tried'[n] /\ sent'[n] = sent[n]
      BY <2>1, <2>5, <3>1 DEF SendApology, Try, JobsTyped
    <3>3. QED
      BY <2>2, <3>2
  <2>6. QED
    BY <2>3, <2>4, <2>5
<1>2. Spec => [][Step]_vars
  BY <1>1, ServiceInvariant, PTL DEF Spec
<1>3. QED
  BY <1>2 DEF WholeOrNotice
===============================================================================
