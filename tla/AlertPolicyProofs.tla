-------------------------- MODULE AlertPolicyProofs ---------------------------
(***************************************************************************)
(* The promise of AlertPolicy, for every list of recipients and every set  *)
(* of candles.                                                             *)
(***************************************************************************)
EXTENDS AlertPolicy, SequenceTheorems, TLAPS

(* What reached r is not about later candles than the last alert.          *)
Past == \A r \in RecipientSet : \A i \in 1 .. Len(inbox[r]) :
          inbox[r][i].candle <= lastAlert.candle

(* Who is still to be tried has not got the last alert yet.                *)
PendingIsUntried ==
  \A k \in 1 .. Len(pending) : \A i \in 1 .. Len(inbox[pending[k]]) :
    inbox[pending[k]][i].candle < lastAlert.candle

PendingIsDistinct ==
  \A k, l \in 1 .. Len(pending) : pending[k] = pending[l] => k = l

PolicyInv ==
  /\ PolicyTypeOK
  /\ Past
  /\ PendingIsUntried
  /\ PendingIsDistinct
  /\ InOrderAtMostOnce

LEMMA RecipientsTyped ==
  ASSUME PolicyAssumption
  PROVE  Recipients \in Seq(RecipientSet)
<1>1. Recipients \in Seq(STRING)
  BY DEF PolicyAssumption
<1>2. \A i \in 1 .. Len(Recipients) : Recipients[i] \in RecipientSet
  BY DEF RecipientSet
<1>3. QED
  BY <1>1, <1>2

LEMMA PolicyTypeStep ==
  ASSUME PolicyAssumption, PolicyTypeOK, [PolicyNext]_policyVars
  PROVE  PolicyTypeOK'
<1>1. CASE UNCHANGED policyVars
  BY <1>1 DEF policyVars, PolicyTypeOK
<1>2. CASE Rearm
  BY <1>2 DEF Rearm, PolicyTypeOK
<1>3. CASE Announce
  <2>1. lastAlert' \in Alert
    BY <1>3 DEF Announce, Alert, Conditions, PolicyAssumption
  <2>2. QED
    BY <1>3, <2>1, RecipientsTyped DEF Announce, PolicyTypeOK
<1>4. CASE Try
  <2>1. Head(pending) \in RecipientSet /\ Tail(pending) \in Seq(RecipientSet)
    BY <1>4, HeadTailProperties DEF Try, PolicyTypeOK
  <2>2. Append(inbox[Head(pending)], lastAlert) \in Seq(Alert)
    BY <2>1 DEF PolicyTypeOK
  <2>3. inbox' \in [RecipientSet -> Seq(Alert)]
    BY <1>4, <2>1, <2>2 DEF Try, PolicyTypeOK
  <2>4. QED
    BY <1>4, <2>1, <2>3 DEF Try, PolicyTypeOK
<1>5. CASE Abandon
  BY <1>5 DEF Abandon, PolicyTypeOK
<1>6. QED
  BY <1>1, <1>2, <1>3, <1>4, <1>5 DEF PolicyNext

(* A try moves the first pending recipient out of the list, and adds at    *)
(* most the last alert to what that recipient got.                         *)
LEMMA TryStep ==
  ASSUME PolicyInv, Try
  PROVE  Past' /\ PendingIsUntried' /\ PendingIsDistinct' /\ InOrderAtMostOnce'
<1> DEFINE r0 == Head(pending)
<1>1. /\ r0 \in RecipientSet /\ r0 = pending[1]
      /\ Len(pending) \in Nat \ {0}
      /\ Len(Tail(pending)) = Len(pending) - 1
      /\ \A k \in 1 .. Len(Tail(pending)) : Tail(pending)[k] = pending[k + 1]
  BY HeadTailProperties DEF Try, PolicyInv, PolicyTypeOK
<1>2. pending' = Tail(pending) /\ lastAlert' = lastAlert
  BY DEF Try
<1>3. \A k \in 1 .. Len(pending') :
        /\ k + 1 \in 1 .. Len(pending)
        /\ pending'[k] = pending[k + 1]
        /\ pending'[k] # r0
        /\ pending'[k] \in RecipientSet
  <2> SUFFICES ASSUME NEW k \in 1 .. Len(pending')
               PROVE  /\ k + 1 \in 1 .. Len(pending)
                      /\ pending'[k] = pending[k + 1]
                      /\ pending'[k] # r0
                      /\ pending'[k] \in RecipientSet
    OBVIOUS
  <2>1. k + 1 \in 1 .. Len(pending) /\ pending'[k] = pending[k + 1]
    BY <1>1, <1>2
  <2>2. pending'[k] # pending[1]
    BY <1>1, <2>1 DEF PolicyInv, PendingIsDistinct
  <2>3. pending[k + 1] \in RecipientSet
    BY <2>1, ElementOfSeq DEF PolicyInv, PolicyTypeOK
  <2>4. QED
    BY <1>1, <2>1, <2>2, <2>3
<1>4. \A r \in RecipientSet : r # r0 => inbox'[r] = inbox[r]
  BY <1>1 DEF Try, PolicyInv, PolicyTypeOK
<1>5. \/ inbox'[r0] = inbox[r0]
      \/ inbox'[r0] = Append(inbox[r0], lastAlert)
  BY <1>1 DEF Try, PolicyInv, PolicyTypeOK
<1>6. \A i \in 1 .. Len(inbox[r0]) : inbox[r0][i].candle < lastAlert.candle
  BY <1>1 DEF PolicyInv, PendingIsUntried
<1>7. inbox[r0] \in Seq(Alert) /\ lastAlert \in Alert /\ lastAlert.candle \in Nat
  BY <1>1 DEF PolicyInv, PolicyTypeOK, Alert
<1> HIDE DEF r0
<1>8. /\ \A i \in 1 .. Len(inbox'[r0]) : inbox'[r0][i].candle <= lastAlert.candle
      /\ \A i, j \in 1 .. Len(inbox'[r0]) :
           i < j => inbox'[r0][i].candle < inbox'[r0][j].candle
  <2>1. CASE inbox'[r0] = inbox[r0]
    BY <1>1, <2>1 DEF PolicyInv, Past, InOrderAtMostOnce
  <2>2. CASE inbox'[r0] = Append(inbox[r0], lastAlert)
    <3>1. /\ Len(inbox[r0]) \in Nat
          /\ Len(inbox'[r0]) = Len(inbox[r0]) + 1
          /\ inbox'[r0][Len(inbox[r0]) + 1] = lastAlert
          /\ \A i \in 1 .. Len(inbox[r0]) : inbox'[r0][i] = inbox[r0][i]
      BY <1>7, <2>2, AppendProperties
    <3>2. \A i \in 1 .. Len(inbox'[r0]) :
            i \in 1 .. Len(inbox[r0]) \/ i = Len(inbox[r0]) + 1
      BY <3>1
    <3>3. \A i, j \in 1 .. Len(inbox[r0]) :
            i < j => inbox[r0][i].candle < inbox[r0][j].candle
      BY <1>1 DEF PolicyInv, InOrderAtMostOnce
    <3>4. \A i \in 1 .. Len(inbox'[r0]) : inbox'[r0][i].candle <= lastAlert.candle
      <4> SUFFICES ASSUME NEW i \in 1 .. Len(inbox'[r0])
                   PROVE  inbox'[r0][i].candle <= lastAlert.candle
        OBVIOUS
      <4>1. CASE i \in 1 .. Len(inbox[r0])
        <5>1. inbox[r0][i] \in Alert
          BY <1>7, <4>1, ElementOfSeq
        <5>2. QED
          BY <1>6, <1>7, <3>1, <4>1, <5>1 DEF Alert
      <4>2. CASE i = Len(inbox[r0]) + 1
        BY <1>7, <3>1, <4>2
      <4>3. QED
        BY <3>2, <4>1, <4>2
    <3>5. ASSUME NEW i \in 1 .. Len(inbox'[r0]), NEW j \in 1 .. Len(inbox'[r0]), i < j
          PROVE  inbox'[r0][i].candle < inbox'[r0][j].candle
      <4>1. i \in 1 .. Len(inbox[r0])
        BY <3>1, <3>5
      <4>2. CASE j \in 1 .. Len(inbox[r0])
        BY <3>1, <3>3, <3>5, <4>1, <4>2
      <4>3. CASE j = Len(inbox[r0]) + 1
        BY <1>6, <3>1, <4>1, <4>3
      <4>4. QED
        BY <3>2, <4>2, <4>3
    <3>6. QED
      BY <3>4, <3>5
  <2>3. QED
    BY <1>5, <2>1, <2>2
<1>9. Past'
  BY <1>2, <1>4, <1>8 DEF PolicyInv, Past, RecipientSet
<1>10. InOrderAtMostOnce'
  BY <1>4, <1>8 DEF PolicyInv, InOrderAtMostOnce, RecipientSet
<1>11. PendingIsUntried'
  BY <1>2, <1>3, <1>4 DEF PolicyInv, PendingIsUntried
<1>12. PendingIsDistinct'
  <2>1. ASSUME NEW k \in 1 .. Len(pending'), NEW l \in 1 .. Len(pending'),
               pending'[k] = pending'[l]
        PROVE  k = l
    <3>1. k + 1 = l + 1
      BY <1>3, <2>1 DEF PolicyInv, PendingIsDistinct
    <3>2. QED
      BY <1>1, <1>2, <3>1
  <2>2. QED
    BY <2>1 DEF PendingIsDistinct
<1>13. QED
  BY <1>9, <1>10, <1>11, <1>12

(* Every recipient gets the alerts in candle order and none twice, however *)
(* often the process dies and whatever becomes of the sends                *)
(* (monitor.py:98-103).                                                    *)
THEOREM PolicyInOrderAtMostOnce ==
  ASSUME PolicyAssumption
  PROVE  PolicySpec => []InOrderAtMostOnce
<1>1. PolicyInit => PolicyInv
  <2> SUFFICES ASSUME PolicyInit PROVE PolicyInv
    OBVIOUS
  <2>1. PolicyTypeOK
    <3>1. lastAlert \in Alert
      BY DEF PolicyInit, Alert, Conditions
    <3>2. pending \in Seq(RecipientSet) /\ inbox \in [RecipientSet -> Seq(Alert)]
      BY EmptySeq DEF PolicyInit
    <3>3. QED
      BY <3>1, <3>2 DEF PolicyInit, PolicyTypeOK
  <2>2. Len(pending) = 0 /\ \A r \in RecipientSet : Len(inbox[r]) = 0
    BY DEF PolicyInit
  <2>3. QED
    BY <2>1, <2>2
       DEF PolicyInv, Past, PendingIsUntried, PendingIsDistinct, InOrderAtMostOnce
<1>2. PolicyInv /\ [PolicyNext]_policyVars => PolicyInv'
  <2> SUFFICES ASSUME PolicyInv, [PolicyNext]_policyVars PROVE PolicyInv'
    OBVIOUS
  <2>1. PolicyTypeOK'
    BY PolicyTypeStep DEF PolicyInv
  <2>2. CASE UNCHANGED policyVars
    BY <2>1, <2>2
       DEF policyVars, PolicyInv, Past, PendingIsUntried, PendingIsDistinct, InOrderAtMostOnce
  <2>3. CASE Rearm
    BY <2>1, <2>3
       DEF Rearm, PolicyInv, Past, PendingIsUntried, PendingIsDistinct, InOrderAtMostOnce
  <2>4. CASE Announce
    <3>1. inbox' = inbox /\ pending' = Recipients /\ lastAlert'.candle > lastAlert.candle
      BY <2>4 DEF Announce
    <3>2. lastAlert.candle \in Nat /\ lastAlert'.candle \in Nat
      BY <2>1 DEF PolicyInv, PolicyTypeOK, Alert
    <3>3. \A r \in RecipientSet : \A i \in 1 .. Len(inbox[r]) :
            inbox[r][i].candle \in Nat /\ inbox[r][i].candle < lastAlert'.candle
      <4> SUFFICES ASSUME NEW r \in RecipientSet, NEW i \in 1 .. Len(inbox[r])
                   PROVE  inbox[r][i].candle \in Nat /\ inbox[r][i].candle < lastAlert'.candle
        OBVIOUS
      <4>1. inbox[r] \in Seq(Alert)
        BY DEF PolicyInv, PolicyTypeOK
      <4>2. inbox[r][i] \in Alert
        BY <4>1, ElementOfSeq
      <4>3. inbox[r][i].candle <= lastAlert.candle
        BY DEF PolicyInv, Past
      <4>4. QED
        BY <3>1, <3>2, <4>2, <4>3 DEF Alert
    <3>4. Past'
      BY <3>1, <3>2, <3>3 DEF Past, RecipientSet
    <3>5. PendingIsUntried'
      BY <3>1, <3>3 DEF PendingIsUntried, RecipientSet
    <3>6. PendingIsDistinct'
      BY <3>1 DEF PendingIsDistinct, PolicyAssumption
    <3>7. InOrderAtMostOnce'
      BY <3>1 DEF PolicyInv, InOrderAtMostOnce
    <3>8. QED
      BY <2>1, <3>4, <3>5, <3>6, <3>7 DEF PolicyInv
  <2>5. CASE Try
    BY <2>1, <2>5, TryStep DEF PolicyInv
  <2>6. CASE Abandon
    <3>1. Len(pending') = 0 /\ inbox' = inbox /\ lastAlert' = lastAlert
      BY <2>6 DEF Abandon
    <3>2. QED
      BY <2>1, <3>1
         DEF PolicyInv, Past, PendingIsUntried, PendingIsDistinct, InOrderAtMostOnce
  <2>7. QED
    BY <2>2, <2>3, <2>4, <2>5, <2>6 DEF PolicyNext
<1>3. PolicyInv => InOrderAtMostOnce
  BY DEF PolicyInv
<1>4. QED
  BY <1>1, <1>2, <1>3, PTL DEF PolicySpec
===============================================================================
