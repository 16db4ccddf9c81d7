-------------------------- MODULE MexcRequestsProofs --------------------------
(***************************************************************************)
(* The throttle of the exchange client for any number of tasks, any        *)
(* spacing and any number of repetitions: requests keep their distance and *)
(* nobody is overtaken while it waits.                                     *)
(***************************************************************************)
EXTENDS MexcRequests, SequenceTheorems, TLAPS

Places == {"idle", "queued", "throttled", "requesting", "backoff"}

(* A call that pauses has an attempt left.                                 *)
AttemptLeft == \A t \in Tasks : pc[t] = "backoff" => attempt[t] < MaxRetries

(* The lock is held exactly through a sleep in the throttle, and that      *)
(* sleep fills the spacing up.                                             *)
SleepFillsSpacing ==
  /\ age <= quiet
  /\ \A t \in Tasks :
       pc[t] = "throttled" => holder = {t} /\ timer[t] + quiet >= Spacing

(* The queue holds the queued tasks, each once, and each of them knows of  *)
(* everybody before it.                                                    *)
OnlyQueued    == \A i \in 1 .. Len(waiters) : pc[waiters[i]] = "queued"
AllQueued     == \A t \in Tasks : pc[t] = "queued" =>
                   \E i \in 1 .. Len(waiters) : waiters[i] = t
Ordered       == \A i, j \in 1 .. Len(waiters) : i < j =>
                   waiters[i] # waiters[j] /\ waiters[i] \in ahead[waiters[j]]
HolderSleeps  == \A h \in holder : pc[h] = "throttled"
HolderIsAhead == \A i \in 1 .. Len(waiters) : holder \subseteq ahead[waiters[i]]

QueueInOrder ==
  OnlyQueued /\ AllQueued /\ Ordered /\ HolderSleeps /\ HolderIsAhead

(* Sending and throttling leave the rest of the state well typed.          *)
LEMMA EnterTypes ==
  ASSUME TypeOK, NEW t \in Tasks, Enter(t)
  PROVE  /\ pc' \in [Tasks -> Places]
         /\ timer' \in [Tasks -> Nat]
         /\ holder' \subseteq Tasks
         /\ age' \in 0 .. Spacing
         /\ quiet' \in 0 .. Spacing
         /\ made' \in [Tasks -> Nat]
         /\ ahead' \in [Tasks -> SUBSET Tasks]
<1> USE RequestsAssumption DEF RequestsAssumption, TypeOK, Places
<1>1. CASE age >= Spacing /\ Send(t)
  BY <1>1 DEF Send, Move
<1>2. CASE age < Spacing /\ Throttle(t)
  BY <1>2 DEF Throttle, Move
<1>3. QED
  BY <1>1, <1>2 DEF Enter

LEMMA ApproachTypes ==
  ASSUME TypeOK, NEW t \in Tasks, Approach(t)
  PROVE  /\ pc' \in [Tasks -> Places]
         /\ timer' \in [Tasks -> Nat]
         /\ holder' \subseteq Tasks
         /\ waiters' \in Seq(Tasks)
         /\ age' \in 0 .. Spacing
         /\ quiet' \in 0 .. Spacing
         /\ made' \in [Tasks -> Nat]
         /\ ahead' \in [Tasks -> SUBSET Tasks]
<1>1. CASE Enter(t) /\ UNCHANGED waiters
  BY <1>1, EnterTypes DEF TypeOK
<1>2. CASE Queue(t)
  BY <1>2 DEF Queue, Move, TypeOK, Places
<1>3. QED
  BY <1>1, <1>2 DEF Approach

(* Leaving the queue: the others keep their order.                         *)
WithoutAt(s, i) == SubSeq(s, 1, i - 1) \o SubSeq(s, i + 1, Len(s))

LEMMA Leaving ==
  ASSUME NEW s \in Seq(Tasks), NEW i \in 1 .. Len(s)
  PROVE  /\ WithoutAt(s, i) \in Seq(Tasks)
         /\ Len(WithoutAt(s, i)) = Len(s) - 1
         /\ \A k \in 1 .. Len(s) - 1 :
              WithoutAt(s, i)[k] = s[IF k < i THEN k ELSE k + 1]
<1> DEFINE front == SubSeq(s, 1, i - 1)
           back  == SubSeq(s, i + 1, Len(s))
           r     == WithoutAt(s, i)
<1>1. Len(s) \in Nat /\ i \in Int /\ 1 <= i /\ i <= Len(s)
  OBVIOUS
<1>2. /\ front \in Seq(Tasks)
      /\ Len(front) = i - 1
      /\ \A k \in 1 .. i - 1 : front[k] = s[k]
  <2>1. \A k \in 1 .. i - 1 : s[k] \in Tasks
    OBVIOUS
  <2>2. QED
    BY <2>1, SubSeqProperties
<1>3. /\ back \in Seq(Tasks)
      /\ Len(back) = Len(s) - i
      /\ \A k \in 1 .. Len(s) - i : back[k] = s[i + k]
  <2>1. \A k \in i + 1 .. Len(s) : s[k] \in Tasks
    OBVIOUS
  <2>2. QED
    BY <2>1, SubSeqProperties
<1>4. r = front \o back
  BY DEF WithoutAt
<1> HIDE DEF front, back, r
<1>5. /\ r \in Seq(Tasks)
      /\ Len(r) = Len(front) + Len(back)
      /\ \A k \in 1 .. Len(front) + Len(back) :
           r[k] = IF k <= Len(front) THEN front[k] ELSE back[k - Len(front)]
  BY <1>2, <1>3, <1>4, ConcatProperties
<1>6. Len(r) = Len(s) - 1
  BY <1>1, <1>2, <1>3, <1>5
<1>7. ASSUME NEW k \in 1 .. Len(s) - 1 PROVE r[k] = s[IF k < i THEN k ELSE k + 1]
  <2>0. k \in 1 .. Len(front) + Len(back)
    BY <1>1, <1>2, <1>3
  <2>1. CASE k < i
    <3>1. k <= Len(front) /\ k \in 1 .. i - 1
      BY <1>1, <1>2, <2>1
    <3>2. r[k] = front[k] /\ front[k] = s[k]
      BY <1>2, <1>5, <2>0, <3>1
    <3>3. QED
      BY <2>1, <3>2
  <2>2. CASE k >= i
    <3>0. ~(k <= Len(front)) /\ k - (i - 1) \in 1 .. Len(s) - i
      BY <1>1, <1>2, <2>2
    <3>1. r[k] = back[k - (i - 1)] /\ k - (i - 1) \in 1 .. Len(s) - i
      BY <1>2, <1>5, <2>0, <3>0
    <3>2. back[k - (i - 1)] = s[i + (k - (i - 1))] /\ i + (k - (i - 1)) = k + 1
      BY <1>1, <1>3, <3>1
    <3>3. QED
      BY <1>1, <2>2, <3>1, <3>2
  <2>3. QED
    BY <1>1, <2>1, <2>2
<1>8. QED
  BY <1>5, <1>6, <1>7 DEF r

LEMMA TypeCorrectStep == TypeOK /\ AttemptLeft /\ [Next]_vars => TypeOK'
<1> USE RequestsAssumption DEF RequestsAssumption, Places
<1> SUFFICES ASSUME TypeOK, AttemptLeft, [Next]_vars PROVE TypeOK'
  OBVIOUS
<1> USE DEF TypeOK
<1>1. CASE UNCHANGED vars
  BY <1>1 DEF vars
<1>2. ASSUME NEW t \in Tasks, Call(t) PROVE TypeOK'
  BY <1>2, ApproachTypes DEF Call
<1>3. ASSUME NEW t \in Tasks, LockPassed(t) PROVE TypeOK'
  <2>1. waiters' \in Seq(Tasks)
    BY <1>3 DEF LockPassed
  <2>2. QED
    BY <1>3, <2>1, EnterTypes DEF LockPassed
<1>4. ASSUME NEW t \in Tasks, ThrottleEnds(t) PROVE TypeOK'
  BY <1>4 DEF ThrottleEnds, Send, Move
<1>5. ASSUME NEW t \in Tasks, Answered(t) PROVE TypeOK'
  BY <1>5 DEF Answered, EndCall, Move
<1>6. ASSUME NEW t \in Tasks, BackOff(t) PROVE TypeOK'
  BY <1>6 DEF BackOff, Move
<1>7. ASSUME NEW t \in Tasks, GiveUp(t) PROVE TypeOK'
  <2>1. spent' \subseteq Nat
    BY <1>7 DEF GiveUp
  <2>2. QED
    BY <1>7, <2>1 DEF GiveUp, EndCall, Move
<1>8. ASSUME NEW t \in Tasks, Repeat(t) PROVE TypeOK'
  <2>1. attempt' \in [Tasks -> 0 .. MaxRetries]
    BY <1>8 DEF Repeat, AttemptLeft
  <2>2. QED
    BY <1>8, <2>1, ApproachTypes DEF Repeat
<1>9. ASSUME NEW t \in Tasks, Cancel(t) PROVE TypeOK'
  <2>1. waiters' \in Seq(Tasks)
    <3>1. CASE pc[t] = "queued"
      <4>1. PICK i \in 1 .. Len(waiters) : waiters' = WithoutAt(waiters, i)
        BY <1>9, <3>1 DEF Cancel, LeaveQueue, WithoutAt
      <4>2. QED
        BY <4>1, Leaving
    <3>2. CASE pc[t] # "queued"
      BY <1>9, <3>2 DEF Cancel, LeaveQueue
    <3>3. QED
      BY <3>1, <3>2
  <2>2. QED
    BY <1>9, <2>1 DEF Cancel, EndCall, Move
<1>10. CASE Tick
  BY <1>10 DEF Tick, Older, Shorter
<1>11. QED
  BY <1>1, <1>2, <1>3, <1>4, <1>5, <1>6, <1>7, <1>8, <1>9, <1>10
  DEF Next, TaskStep

LEMMA AttemptLeftStep ==
  TypeOK /\ AttemptLeft /\ [Next]_vars => AttemptLeft'
<1> USE RequestsAssumption DEF RequestsAssumption
<1> SUFFICES ASSUME TypeOK, AttemptLeft, [Next]_vars PROVE AttemptLeft'
  OBVIOUS
<1> USE DEF TypeOK, AttemptLeft
<1>1. CASE UNCHANGED vars \/ Tick
  BY <1>1 DEF vars, Tick
<1>2. ASSUME NEW t \in Tasks, Approach(t),
             \A u \in Tasks \ {t} : attempt'[u] = attempt[u]
      PROVE AttemptLeft'
  BY <1>2 DEF Approach, Enter, Send, Throttle, Queue, Move
<1>3. ASSUME NEW t \in Tasks, Call(t) \/ Repeat(t) PROVE AttemptLeft'
  BY <1>2, <1>3 DEF Call, Repeat
<1>4. ASSUME NEW t \in Tasks, LockPassed(t) \/ ThrottleEnds(t) PROVE AttemptLeft'
  BY <1>4 DEF LockPassed, ThrottleEnds, Enter, Send, Throttle, Move
<1>5. ASSUME NEW t \in Tasks, Answered(t) \/ GiveUp(t) \/ Cancel(t) PROVE AttemptLeft'
  BY <1>5 DEF Answered, GiveUp, Cancel, EndCall, Move
<1>6. ASSUME NEW t \in Tasks, BackOff(t) PROVE AttemptLeft'
  BY <1>6 DEF BackOff, IsLast, Move
<1>7. QED
  BY <1>1, <1>3, <1>4, <1>5, <1>6 DEF Next, TaskStep

(* While one task sleeps in the throttle nobody else sends, so its sleep   *)
(* and the time already passed reach the spacing together.                 *)
LEMMA SleepFillsSpacingStep ==
  TypeOK /\ SleepFillsSpacing /\ QueueInOrder /\ [Next]_vars => SleepFillsSpacing'
<1> USE RequestsAssumption DEF RequestsAssumption
<1> SUFFICES ASSUME TypeOK, SleepFillsSpacing, QueueInOrder, [Next]_vars
             PROVE  SleepFillsSpacing'
  OBVIOUS
<1>0. \A h \in holder : pc[h] = "throttled"
  BY DEF QueueInOrder, HolderSleeps
<1> USE DEF TypeOK, SleepFillsSpacing
<1>1. CASE UNCHANGED vars
  BY <1>1 DEF vars
<1>2. ASSUME NEW t \in Tasks, holder = {}, Enter(t) PROVE SleepFillsSpacing'
  BY <1>2 DEF Enter, Send, Throttle, Move
<1>3. ASSUME NEW t \in Tasks, pc[t] # "throttled", Approach(t) PROVE SleepFillsSpacing'
  <2>1. CASE Queue(t)
    BY <1>3, <2>1 DEF Queue, Move
  <2>2. QED
    BY <1>2, <1>3, <2>1 DEF Approach
<1>4. ASSUME NEW t \in Tasks, Call(t) \/ Repeat(t) PROVE SleepFillsSpacing'
  BY <1>3, <1>4 DEF Call, Repeat
<1>5. ASSUME NEW t \in Tasks, LockPassed(t) PROVE SleepFillsSpacing'
  BY <1>2, <1>5 DEF LockPassed
<1>6. ASSUME NEW t \in Tasks, ThrottleEnds(t) PROVE SleepFillsSpacing'
  <2>1. holder = {t} /\ holder' = {} /\ age' = 0 /\ quiet' = 0
    BY <1>6 DEF ThrottleEnds, Send
  <2>2. \A u \in Tasks : pc'[u] # "throttled"
    BY <1>6, <2>1 DEF ThrottleEnds, Send, Move
  <2>3. QED
    BY <2>1, <2>2
<1>7. ASSUME NEW t \in Tasks, Answered(t) \/ BackOff(t) \/ GiveUp(t)
      PROVE SleepFillsSpacing'
  BY <1>7 DEF Answered, BackOff, GiveUp, EndCall, Move
<1>8. ASSUME NEW t \in Tasks, Cancel(t) PROVE SleepFillsSpacing'
  BY <1>8 DEF Cancel, EndCall, Move
<1>9. CASE Tick
  BY <1>9 DEF Tick, Older, Shorter
<1>10. QED
  BY <1>1, <1>4, <1>5, <1>6, <1>7, <1>8, <1>9 DEF Next, TaskStep

(* The queue is served from its head and joined at its end.                *)
LEMMA Joining ==
  ASSUME TypeOK, QueueInOrder, NEW t \in Tasks,
         pc[t] \notin {"queued", "throttled"}, Queue(t)
  PROVE  QueueInOrder'
<1> USE DEF QueueInOrder
<1>1. /\ Len(waiters) \in Nat
      /\ Len(waiters') = Len(waiters) + 1
      /\ waiters'[Len(waiters) + 1] = t
      /\ \A i \in 1 .. Len(waiters) : waiters'[i] = waiters[i]
  BY DEF Queue, TypeOK
<1>2. /\ pc'[t] = "queued"
      /\ \A u \in Tasks \ {t} : pc'[u] = pc[u]
      /\ ahead'[t] = {u \in Tasks : Waiting(u)}
      /\ \A u \in Tasks \ {t} : ahead'[u] = ahead[u]
      /\ holder' = holder
  BY DEF Queue, Move, TypeOK
<1>3. \A i \in 1 .. Len(waiters) : waiters[i] \in Tasks \ {t} /\ waiters[i] \in ahead'[t]
  BY <1>2 DEF OnlyQueued, TypeOK, Waiting
<1>4. holder \subseteq ahead'[t] /\ t \notin holder
  BY <1>2 DEF HolderSleeps, TypeOK, Waiting
<1>5. \A i \in 1 .. Len(waiters') :
        \/ i \in 1 .. Len(waiters)
        \/ i = Len(waiters) + 1 /\ waiters'[i] = t
  BY <1>1
<1>6. OnlyQueued'
  BY <1>1, <1>2, <1>3, <1>5 DEF OnlyQueued
<1>7. AllQueued'
  <2> SUFFICES ASSUME NEW u \in Tasks, pc'[u] = "queued"
               PROVE \E i \in 1 .. Len(waiters') : waiters'[i] = u
    BY DEF AllQueued
  <2>1. CASE u = t
    BY <1>1, <2>1
  <2>2. CASE u # t
    BY <1>1, <1>2, <2>2 DEF AllQueued
  <2>3. QED
    BY <2>1, <2>2
<1>8. Ordered'
  <2> SUFFICES ASSUME NEW i \in 1 .. Len(waiters'), NEW j \in 1 .. Len(waiters'), i < j
               PROVE waiters'[i] # waiters'[j] /\ waiters'[i] \in ahead'[waiters'[j]]
    BY DEF Ordered
  <2>1. i \in 1 .. Len(waiters) /\ waiters'[i] = waiters[i]
    BY <1>1
  <2>2. CASE j \in 1 .. Len(waiters)
    BY <1>1, <1>2, <1>3, <2>1, <2>2 DEF Ordered
  <2>3. CASE j = Len(waiters) + 1
    BY <1>1, <1>3, <2>1, <2>3
  <2>4. QED
    BY <1>5, <2>2, <2>3
<1>9. HolderSleeps'
  BY <1>2, <1>4 DEF HolderSleeps, TypeOK
<1>10. HolderIsAhead'
  BY <1>1, <1>2, <1>3, <1>4, <1>5 DEF HolderIsAhead
<1>11. QED
  BY <1>6, <1>7, <1>8, <1>9, <1>10

(* The queue after a step is what t's leaving makes of it: f says where    *)
(* each place of it was before.                                            *)
LosesOnly(t, f) ==
  /\ Len(waiters') \in Nat
  /\ \A k \in 1 .. Len(waiters') : waiters'[k] # t
  /\ \A k \in 1 .. Len(waiters') :
       f[k] \in 1 .. Len(waiters) /\ waiters'[k] = waiters[f[k]]
  /\ \A k, l \in 1 .. Len(waiters') : k < l => f[k] < f[l]
  /\ \A i \in 1 .. Len(waiters) :
       waiters[i] # t => \E k \in 1 .. Len(waiters') : f[k] = i

(* The other tasks stay where they are and forget nobody but t.            *)
OthersStay(t) ==
  \A u \in Tasks \ {t} : pc'[u] = pc[u] /\ ahead[u] \ {t} \subseteq ahead'[u]

LEMMA Shrinking ==
  ASSUME TypeOK, QueueInOrder, NEW t \in Tasks, NEW f,
         OthersStay(t), LosesOnly(t, f), pc'[t] # "queued",
         HolderSleeps', HolderIsAhead'
  PROVE  QueueInOrder'
<1> USE DEF QueueInOrder, OthersStay, LosesOnly
<1>1. \A k \in 1 .. Len(waiters') : waiters'[k] \in Tasks \ {t}
  <2> SUFFICES ASSUME NEW k \in 1 .. Len(waiters') PROVE waiters'[k] \in Tasks \ {t}
    OBVIOUS
  <2>1. waiters[f[k]] \in Tasks
    BY DEF TypeOK
  <2>2. QED
    BY <2>1
<1>2. OnlyQueued'
  BY <1>1 DEF OnlyQueued
<1>3. AllQueued'
  <2> SUFFICES ASSUME NEW u \in Tasks, pc'[u] = "queued"
               PROVE \E k \in 1 .. Len(waiters') : waiters'[k] = u
    BY DEF AllQueued
  <2>1. u # t /\ pc[u] = "queued"
    OBVIOUS
  <2>2. PICK i \in 1 .. Len(waiters) : waiters[i] = u
    BY <2>1 DEF AllQueued
  <2>3. PICK k \in 1 .. Len(waiters') : f[k] = i
    BY <2>1, <2>2
  <2>4. QED
    BY <2>2, <2>3
<1>4. Ordered'
  <2> SUFFICES ASSUME NEW k \in 1 .. Len(waiters'), NEW l \in 1 .. Len(waiters'), k < l
               PROVE waiters'[k] # waiters'[l] /\ waiters'[k] \in ahead'[waiters'[l]]
    BY DEF Ordered
  <2>1. waiters[f[k]] # waiters[f[l]] /\ waiters[f[k]] \in ahead[waiters[f[l]]]
    BY DEF Ordered
  <2>2. QED
    BY <1>1, <2>1
<1>5. QED
  BY <1>2, <1>3, <1>4

LEMMA QueueInOrderStep ==
  TypeOK /\ SleepFillsSpacing /\ QueueInOrder /\ [Next]_vars => QueueInOrder'
<1> SUFFICES ASSUME TypeOK, SleepFillsSpacing, QueueInOrder, [Next]_vars
             PROVE  QueueInOrder'
  OBVIOUS
<1> USE DEF QueueInOrder
<1>1. CASE UNCHANGED vars \/ Tick
  BY <1>1 DEF vars, Tick, OnlyQueued, AllQueued, Ordered, HolderSleeps, HolderIsAhead
(* t is not in the queue before or after, and takes the lock or leaves it. *)
<1>2. ASSUME NEW t \in Tasks, waiters' = waiters,
             \A u \in Tasks \ {t} : pc'[u] = pc[u] /\ ahead[u] \ {t} \subseteq ahead'[u],
             pc[t] # "queued", pc'[t] # "queued",
             holder' \subseteq holder \ {t} \/ (holder' = holder /\ t \notin holder)
      PROVE  QueueInOrder'
  <2>1. \A k \in 1 .. Len(waiters) : waiters[k] \in Tasks \ {t}
    BY <1>2 DEF OnlyQueued, TypeOK
  <2>2. holder' \subseteq holder \ {t}
    BY <1>2
  <2>3. HolderSleeps'
    BY <1>2, <2>2 DEF HolderSleeps, TypeOK
  <2>4. HolderIsAhead'
    BY <1>2, <2>1, <2>2 DEF HolderIsAhead
  <2>5. OnlyQueued' /\ AllQueued'
    BY <1>2, <2>1 DEF OnlyQueued, AllQueued
  <2>6. Ordered'
    BY <1>2, <2>1 DEF Ordered
  <2>7. QED
    BY <2>3, <2>4, <2>5, <2>6
<1>3. ASSUME NEW t \in Tasks, pc[t] \notin {"queued", "throttled"},
             holder = {}, waiters = <<>>, Enter(t), UNCHANGED waiters
      PROVE  QueueInOrder'
  BY <1>3 DEF Enter, Send, Throttle, Move, TypeOK, OnlyQueued, AllQueued, Ordered,
              HolderSleeps, HolderIsAhead
<1>4. ASSUME NEW t \in Tasks, Call(t) \/ Repeat(t) PROVE QueueInOrder'
  <2>1. pc[t] \notin {"queued", "throttled"} /\ Approach(t)
    BY <1>4 DEF Call, Repeat
  <2>2. QED
    BY <1>3, <2>1, Joining DEF Approach
<1>5. ASSUME NEW t \in Tasks, LockPassed(t) PROVE QueueInOrder'
  <2> DEFINE f == [k \in 1 .. Len(waiters) - 1 |-> k + 1]
  <2>1. /\ holder = {} /\ t = waiters[1] /\ pc[t] = "queued"
        /\ Len(waiters) \in Nat \ {0}
        /\ Len(waiters') = Len(waiters) - 1
        /\ \A k \in 1 .. Len(waiters) - 1 : waiters'[k] = waiters[k + 1]
    BY <1>5 DEF LockPassed, TypeOK
  <2>2. \A k \in 1 .. Len(waiters) - 1 :
          waiters[k + 1] \in Tasks \ {t} /\ t \in ahead[waiters[k + 1]]
    <3> SUFFICES ASSUME NEW k \in 1 .. Len(waiters) - 1
                 PROVE waiters[k + 1] \in Tasks \ {t} /\ t \in ahead[waiters[k + 1]]
      OBVIOUS
    <3>1. 1 \in 1 .. Len(waiters) /\ k + 1 \in 1 .. Len(waiters) /\ 1 < k + 1
      BY <2>1
    <3>2. waiters[k + 1] \in Tasks
      BY <3>1 DEF TypeOK
    <3>3. waiters[1] # waiters[k + 1] /\ waiters[1] \in ahead[waiters[k + 1]]
      BY <3>1 DEF Ordered
    <3>4. QED
      BY <2>1, <3>2, <3>3
  <2>3. /\ \A u \in Tasks \ {t} : pc'[u] = pc[u] /\ ahead[u] \ {t} \subseteq ahead'[u]
        /\ pc'[t] # "queued"
        /\ HolderSleeps'
    BY <1>5, <2>1 DEF LockPassed, Enter, Send, Throttle, Move, TypeOK, HolderSleeps
  <2>4. HolderIsAhead'
    <3>1. CASE Send(t)
      BY <3>1 DEF Send, HolderIsAhead
    <3>2. CASE Throttle(t)
      BY <2>1, <2>2, <3>2 DEF Throttle, HolderIsAhead
    <3>3. QED
      BY <1>5, <3>1, <3>2 DEF LockPassed, Enter
  <2>5. /\ \A k \in 1 .. Len(waiters') : waiters'[k] # t
        /\ \A k \in 1 .. Len(waiters') :
             f[k] \in 1 .. Len(waiters) /\ waiters'[k] = waiters[f[k]]
        /\ \A k, l \in 1 .. Len(waiters') : k < l => f[k] < f[l]
        /\ Len(waiters') \in Nat
    BY <2>1, <2>2
  <2>6. \A i \in 1 .. Len(waiters) :
          waiters[i] # t => \E k \in 1 .. Len(waiters') : f[k] = i
    <3> SUFFICES ASSUME NEW i \in 1 .. Len(waiters), waiters[i] # t
                 PROVE \E k \in 1 .. Len(waiters') : f[k] = i
      OBVIOUS
    <3>1. i - 1 \in 1 .. Len(waiters') /\ f[i - 1] = i
      BY <2>1
    <3>2. QED
      BY <3>1
  <2> HIDE DEF f
  <2>7. LosesOnly(t, f) /\ OthersStay(t)
    BY <2>3, <2>5, <2>6 DEF LosesOnly, OthersStay
  <2> HIDE DEF QueueInOrder
  <2>8. QED
    BY <2>3, <2>4, <2>7, Shrinking
<1>6. ASSUME NEW t \in Tasks, ThrottleEnds(t) PROVE QueueInOrder'
  BY <1>2, <1>6 DEF ThrottleEnds, Send, Move, TypeOK
<1>7. ASSUME NEW t \in Tasks, Answered(t) \/ BackOff(t) \/ GiveUp(t)
      PROVE  QueueInOrder'
  <2>1. t \notin holder
    BY <1>7 DEF Answered, BackOff, GiveUp, HolderSleeps
  <2>2. QED
    BY <1>2, <1>7, <2>1 DEF Answered, BackOff, GiveUp, EndCall, Move, TypeOK
<1>8. ASSUME NEW t \in Tasks, Cancel(t) PROVE QueueInOrder'
  <2>1. /\ pc'[t] = "idle" /\ holder' = holder \ {t}
        /\ \A u \in Tasks \ {t} : pc'[u] = pc[u] /\ ahead[u] \ {t} \subseteq ahead'[u]
        /\ LeaveQueue(t)
    BY <1>8 DEF Cancel, EndCall, Move, TypeOK
  <2>2. CASE pc[t] # "queued"
    BY <1>2, <2>1, <2>2 DEF LeaveQueue
  <2>3. CASE pc[t] = "queued"
    <3>1. PICK i \in 1 .. Len(waiters) :
            /\ waiters[i] = t
            /\ waiters' = WithoutAt(waiters, i)
      BY <2>1, <2>3 DEF LeaveQueue, WithoutAt
    <3> DEFINE f == [k \in 1 .. Len(waiters) - 1 |-> IF k < i THEN k ELSE k + 1]
    <3>2. /\ Len(waiters) \in Nat
          /\ Len(waiters') = Len(waiters) - 1
          /\ \A k \in 1 .. Len(waiters) - 1 :
               waiters'[k] = waiters[IF k < i THEN k ELSE k + 1]
      <4>1. waiters \in Seq(Tasks)
        BY DEF TypeOK
      <4>2. Len(waiters) \in Nat
        BY <4>1
      <4> HIDE DEF QueueInOrder, f
      <4>3. Len(waiters') = Len(waiters) - 1
        BY <3>1, <4>1, Leaving
      <4>4. ASSUME NEW k \in 1 .. Len(waiters) - 1
            PROVE  waiters'[k] = waiters[IF k < i THEN k ELSE k + 1]
        BY <3>1, <4>1, Leaving
      <4>5. QED
        BY <4>2, <4>3, <4>4
    <3>3. /\ \A k \in 1 .. Len(waiters') :
               f[k] \in 1 .. Len(waiters) /\ f[k] # i /\ waiters'[k] = waiters[f[k]]
          /\ \A k, l \in 1 .. Len(waiters') : k < l => f[k] < f[l]
      BY <3>2
    <3>4. \A j \in 1 .. Len(waiters) :
            waiters[j] # t => \E k \in 1 .. Len(waiters') : f[k] = j
      <4> SUFFICES ASSUME NEW j \in 1 .. Len(waiters), waiters[j] # t
                   PROVE \E k \in 1 .. Len(waiters') : f[k] = j
        OBVIOUS
      <4>1. CASE j < i
        <5>1. j \in 1 .. Len(waiters') /\ f[j] = j
          BY <3>2, <4>1
        <5>2. QED
          BY <5>1
      <4>2. CASE j > i
        <5>1. j - 1 \in 1 .. Len(waiters') /\ f[j - 1] = j
          BY <3>2, <4>2
        <5>2. QED
          BY <5>1
      <4>3. j # i
        BY <3>1
      <4>4. i \in Int /\ j \in Int
        OBVIOUS
      <4>5. j < i \/ j > i
        BY <4>3, <4>4
      <4> HIDE DEF f
      <4>6. QED
        BY <4>1, <4>2, <4>5
    <3> HIDE DEF f
    <3>5. \A k \in 1 .. Len(waiters') : waiters'[k] # t
      BY <3>1, <3>3 DEF Ordered
    <3>6. HolderSleeps'
      BY <2>1 DEF HolderSleeps, TypeOK
    <3>7. HolderIsAhead'
      <4> SUFFICES ASSUME NEW k \in 1 .. Len(waiters')
                   PROVE holder' \subseteq ahead'[waiters'[k]]
        BY DEF HolderIsAhead
      <4>1. waiters'[k] = waiters[f[k]] /\ f[k] \in 1 .. Len(waiters)
        BY <3>3
      <4>2. waiters \in Seq(Tasks)
        BY DEF TypeOK
      <4>3. waiters[f[k]] \in Tasks
        BY <4>1, <4>2
      <4>4. holder \subseteq ahead[waiters[f[k]]]
        BY <4>1 DEF HolderIsAhead
      <4>5. QED
        BY <2>1, <3>5, <4>1, <4>3, <4>4
    <3>8. Len(waiters') \in Nat
      BY <3>1, <3>2
    <3>9. LosesOnly(t, f) /\ OthersStay(t)
      BY <2>1, <3>3, <3>4, <3>5, <3>8 DEF LosesOnly, OthersStay
    <3> HIDE DEF QueueInOrder
    <3>10. QED
      BY <2>1, <3>6, <3>7, <3>9, Shrinking
  <2>4. QED
    BY <2>2, <2>3
<1>9. QED
  BY <1>1, <1>4, <1>5, <1>6, <1>7, <1>8 DEF Next, TaskStep

RequestsInv == TypeOK /\ AttemptLeft /\ SleepFillsSpacing /\ QueueInOrder

LEMMA Invariance == Spec => []RequestsInv
<1>1. Init => RequestsInv
  BY RequestsAssumption
  DEF RequestsAssumption, Init, RequestsInv, TypeOK, AttemptLeft, SleepFillsSpacing,
      QueueInOrder, OnlyQueued, AllQueued, Ordered, HolderSleeps, HolderIsAhead
<1>2. RequestsInv /\ [Next]_vars => RequestsInv'
  BY TypeCorrectStep, AttemptLeftStep, SleepFillsSpacingStep, QueueInOrderStep
  DEF RequestsInv
<1>3. QED
  BY <1>1, <1>2, PTL DEF Spec

(* The state of the client keeps its types: no call makes more attempts    *)
(* than there are, the queue holds tasks.                                  *)
THEOREM TypeCorrect == Spec => []TypeOK
<1>1. RequestsInv => TypeOK
  BY DEF RequestsInv
<1>2. QED
  BY <1>1, Invariance, PTL

(* Who sends: a task that finds lock and queue empty, the head of the      *)
(* queue, or the task whose sleep in the throttle is over.                 *)
LEMMA Senders ==
  ASSUME RequestsInv, [Next]_vars, NEW u \in Tasks, Starts(u)
  PROVE  \/ (holder = {} /\ waiters = <<>> /\ age >= Spacing)
         \/ (holder = {} /\ waiters # <<>> /\ u = Head(waiters) /\ age >= Spacing)
         \/ (pc[u] = "throttled" /\ timer[u] = 0)
<1> USE DEF RequestsInv, TypeOK, Starts
<1>1. CASE UNCHANGED vars \/ Tick
  BY <1>1 DEF vars, Tick
<1>2. ASSUME NEW t \in Tasks, Call(t) \/ Repeat(t)
      PROVE  holder = {} /\ waiters = <<>> /\ age >= Spacing
  BY <1>2 DEF Call, Repeat, Approach, Enter, Send, Throttle, Queue, Move
<1>3. ASSUME NEW t \in Tasks, LockPassed(t)
      PROVE  holder = {} /\ waiters # <<>> /\ u = Head(waiters) /\ age >= Spacing
  BY <1>3 DEF LockPassed, Enter, Send, Throttle, Move
<1>4. ASSUME NEW t \in Tasks, ThrottleEnds(t)
      PROVE  pc[u] = "throttled" /\ timer[u] = 0
  BY <1>4 DEF ThrottleEnds, Send, Move
<1>5. ASSUME NEW t \in Tasks, Answered(t) \/ BackOff(t) \/ GiveUp(t) \/ Cancel(t)
      PROVE  FALSE
  BY <1>5 DEF Answered, BackOff, GiveUp, Cancel, EndCall, Move
<1>6. QED
  BY <1>1, <1>2, <1>3, <1>4, <1>5 DEF Next, TaskStep

(* For any number of tasks and any spacing, two requests are never sent    *)
(* within the spacing, whoever sends them and whoever is cancelled.        *)
THEOREM SpacedAlways == Spec => Spaced
<1>1. RequestsInv /\ [Next]_vars => [\A t \in Tasks : Starts(t) => quiet = Spacing]_vars
  <2> SUFFICES ASSUME RequestsInv, [Next]_vars, NEW t \in Tasks, Starts(t)
               PROVE  quiet = Spacing
    OBVIOUS
  <2>1. quiet >= Spacing
    <3> USE RequestsAssumption DEF RequestsAssumption, RequestsInv, TypeOK
    <3>1. CASE age >= Spacing
      BY <3>1 DEF SleepFillsSpacing
    <3>2. CASE pc[t] = "throttled" /\ timer[t] = 0
      BY <3>2 DEF SleepFillsSpacing
    <3>3. QED
      BY <3>1, <3>2, Senders
  <2>2. QED
    BY <2>1, RequestsAssumption DEF RequestsAssumption, RequestsInv, TypeOK
<1>2. QED
  BY <1>1, Invariance, PTL DEF Spec, Spaced

(* For any number of tasks, a request that waits for the throttle is       *)
(* overtaken by none that came after it.                                   *)
THEOREM NobodyOvertakesAlways == Spec => NobodyOvertakes
<1>1. RequestsInv /\ [Next]_vars =>
        [\A t, u \in Tasks :
           t # u /\ Starts(u) /\ Waiting(t) => u \in ahead[t]]_vars
  <2> SUFFICES ASSUME RequestsInv, [Next]_vars, NEW t \in Tasks, NEW u \in Tasks,
                      t # u, Starts(u), Waiting(t)
               PROVE  u \in ahead[t]
    OBVIOUS
  <2> USE DEF RequestsInv, QueueInOrder
  <2>1. CASE pc[t] = "throttled"
    <3>1. holder = {t}
      BY <2>1 DEF SleepFillsSpacing
    <3>2. pc[u] = "throttled"
      BY <3>1, Senders
    <3>3. QED
      BY <3>1, <3>2 DEF SleepFillsSpacing
  <2>2. CASE pc[t] = "queued"
    <3>1. PICK i \in 1 .. Len(waiters) : waiters[i] = t
      BY <2>2 DEF AllQueued
    <3>2. waiters # <<>>
      BY <3>1
    <3>3. CASE pc[u] = "throttled"
      <4>1. u \in holder
        BY <3>3 DEF SleepFillsSpacing
      <4>2. QED
        BY <3>1, <4>1 DEF HolderIsAhead
    <3>4. CASE u = Head(waiters)
      <4>1. u = waiters[1] /\ 1 \in 1 .. Len(waiters) /\ 1 < i
        BY <3>1, <3>2, <3>4 DEF TypeOK
      <4>2. QED
        BY <3>1, <4>1 DEF Ordered
    <3>5. QED
      BY <3>2, <3>3, <3>4, Senders
  <2>3. QED
    BY <2>1, <2>2 DEF Waiting
<1>2. QED
  BY <1>1, Invariance, PTL DEF Spec, NobodyOvertakes

-------------------------------------------------------------------------------
(* The two counts of a call, attempt in the code and made in the model,    *)
(* are one apart from the moment a request is sent until it is repeated.   *)
Counted(t) ==
  /\ pc[t] = "idle" => attempt[t] = 0 /\ made[t] = 0
  /\ Waiting(t) => made[t] = attempt[t]
  /\ pc[t] \in {"requesting", "backoff"} => made[t] = attempt[t] + 1

InBudget == (\A t \in Tasks : Counted(t)) /\ spent \subseteq {MaxRetries + 1}

(* A task that asks for the throttle sends, sleeps or queues; the others   *)
(* stay where they are.                                                    *)
LEMMA ApproachCounts ==
  ASSUME TypeOK, NEW t \in Tasks, Approach(t) \/ Enter(t)
  PROVE  /\ \/ pc'[t] = "requesting" /\ made'[t] = made[t] + 1
            \/ pc'[t] \in {"queued", "throttled"} /\ made'[t] = made[t]
         /\ \A u \in Tasks \ {t} : pc'[u] = pc[u] /\ made'[u] = made[u]
<1> USE DEF TypeOK, Move
<1>1. CASE Enter(t)
  BY <1>1 DEF Enter, Send, Throttle
<1>2. CASE Queue(t)
  BY <1>2 DEF Queue
<1>3. QED
  BY <1>1, <1>2 DEF Approach

LEMMA InBudgetStep == TypeOK /\ InBudget /\ [Next]_vars => InBudget'
<1> SUFFICES ASSUME TypeOK, InBudget, [Next]_vars PROVE InBudget'
  OBVIOUS
<1>0. \A u \in Tasks : Counted(u)
  BY DEF InBudget
<1>1. CASE UNCHANGED vars \/ Tick
  BY <1>1 DEF vars, Tick, InBudget, Counted, Waiting
<1>2. ASSUME NEW t \in Tasks, Call(t) \/ LockPassed(t) PROVE InBudget'
  <2>1. pc[t] \in {"idle", "queued"} /\ UNCHANGED <<attempt, spent>>
    BY <1>2 DEF Call, LockPassed
  <2>2. made[t] = attempt[t]
    BY <1>0, <2>1 DEF Counted, Waiting
  <2>3. Approach(t) \/ Enter(t)
    BY <1>2 DEF Call, LockPassed
  <2>4. ASSUME NEW u \in Tasks PROVE Counted(u)'
    BY <1>0, <2>1, <2>2, <2>3, ApproachCounts DEF Counted, Waiting
  <2>5. QED
    BY <2>1, <2>4 DEF InBudget
<1>3. ASSUME NEW t \in Tasks, Repeat(t) PROVE InBudget'
  <2>1. /\ pc[t] = "backoff"
        /\ attempt'[t] = attempt[t] + 1
        /\ \A u \in Tasks \ {t} : attempt'[u] = attempt[u]
        /\ UNCHANGED spent
    BY <1>3 DEF Repeat, TypeOK
  <2>2. made[t] = attempt'[t]
    BY <1>0, <2>1 DEF Counted
  <2>3. Approach(t)
    BY <1>3 DEF Repeat
  <2>4. ASSUME NEW u \in Tasks PROVE Counted(u)'
    BY <1>0, <2>1, <2>2, <2>3, ApproachCounts DEF Counted, Waiting
  <2>5. QED
    BY <2>1, <2>4 DEF InBudget
<1>4. ASSUME NEW t \in Tasks, ThrottleEnds(t) PROVE InBudget'
  <2>1. pc[t] = "throttled" /\ Send(t) /\ UNCHANGED <<attempt, spent>>
    BY <1>4 DEF ThrottleEnds
  <2>2. ASSUME NEW u \in Tasks PROVE Counted(u)'
    BY <1>0, <2>1 DEF Send, Move, Counted, Waiting, TypeOK
  <2>3. QED
    BY <2>1, <2>2 DEF InBudget
<1>5. ASSUME NEW t \in Tasks, Answered(t) \/ Cancel(t) PROVE InBudget'
  <2>1. EndCall(t) /\ UNCHANGED spent
    BY <1>5 DEF Answered, Cancel
  <2>2. ASSUME NEW u \in Tasks PROVE Counted(u)'
    BY <1>0, <2>1 DEF EndCall, Move, Counted, Waiting, TypeOK
  <2>3. QED
    BY <2>1, <2>2 DEF InBudget
<1>6. ASSUME NEW t \in Tasks, BackOff(t) PROVE InBudget'
  <2>1. pc[t] = "requesting" /\ Move(t, "backoff") /\ UNCHANGED <<attempt, made, spent>>
    BY <1>6 DEF BackOff
  <2>2. ASSUME NEW u \in Tasks PROVE Counted(u)'
    BY <1>0, <2>1 DEF Move, Counted, Waiting, TypeOK
  <2>3. QED
    BY <2>1, <2>2 DEF InBudget
<1>7. ASSUME NEW t \in Tasks, GiveUp(t) PROVE InBudget'
  <2>1. pc[t] = "requesting" /\ IsLast(t) /\ EndCall(t) /\ spent' = spent \cup {made[t]}
    BY <1>7 DEF GiveUp
  <2>2. made[t] = MaxRetries + 1
    BY <1>0, <2>1, RequestsAssumption DEF Counted, IsLast, RequestsAssumption, TypeOK
  <2>3. ASSUME NEW u \in Tasks PROVE Counted(u)'
    BY <1>0, <2>1 DEF EndCall, Move, Counted, Waiting, TypeOK
  <2>4. QED
    BY <2>1, <2>2, <2>3 DEF InBudget
<1>8. QED
  BY <1>1, <1>2, <1>3, <1>4, <1>5, <1>6, <1>7 DEF Next, TaskStep

(* For any number of repetitions: no call sends more requests than it may, *)
(* and one that gives up has sent every one of them.                       *)
THEOREM RequestBudgetAlways == Spec => []RequestBudget
<1>1. Init => InBudget
  BY DEF Init, InBudget, Counted, Waiting
<1>2. TypeOK /\ InBudget => RequestBudget
  <2> SUFFICES ASSUME TypeOK, InBudget, NEW t \in Tasks
               PROVE  made[t] <= MaxRetries + 1
    BY DEF RequestBudget, InBudget
  <2>1. attempt[t] \in 0 .. MaxRetries /\ Counted(t)
    BY DEF TypeOK, InBudget
  <2>2. QED
    BY <2>1, RequestsAssumption DEF Counted, Waiting, TypeOK, RequestsAssumption
<1>3. QED
  BY <1>1, <1>2, InBudgetStep, TypeCorrect, PTL DEF Spec
===============================================================================
