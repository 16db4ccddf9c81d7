----------------------------- MODULE AlertPolicy ------------------------------
(***************************************************************************)
(* What the live monitor promises to the people who receive its alerts,    *)
(* without saying how: an alert belongs to one closed candle and one       *)
(* direction, alerts are announced in candle order, a direction that was   *)
(* announced is announced again only after some candle without that setup  *)
(* was looked at, and every recipient is tried at most once per alert.     *)
(* An announcement may be abandoned half way (the process died) and a try  *)
(* may be lost: nothing is ever tried again.                               *)
(***************************************************************************)
EXTENDS Integers, Sequences

CONSTANTS
  Recipients, (* settings.wa_recipients, in the order of the setting       *)
  Candles     (* the open times alerts may be about                        *)

(* What the promises need of the constants.                                *)
PolicyAssumption ==
  /\ Candles \subseteq Nat
  /\ Recipients \in Seq(STRING)
  /\ \A i, j \in 1 .. Len(Recipients) : Recipients[i] = Recipients[j] => i = j

VARIABLES
  lastAlert, (* the last announced alert                                   *)
  rearmed,   (* a candle without lastAlert's setup was seen since          *)
  pending,   (* recipients still to be tried for lastAlert                 *)
  inbox      (* inbox[r]: what reached r, oldest first                     *)

policyVars == <<lastAlert, rearmed, pending, inbox>>

Directions == {"LONG", "SHORT"}
Conditions == Directions \cup {"NONE"}
Alert == [candle : Nat, dir : Conditions]
RecipientSet == {Recipients[i] : i \in 1 .. Len(Recipients)}

PolicyInit ==
  /\ lastAlert = [candle |-> 0, dir |-> "NONE"]
  /\ rearmed = FALSE
  /\ pending = <<>>
  /\ inbox = [r \in RecipientSet |-> <<>>]

Rearm ==
  /\ rearmed' = TRUE
  /\ UNCHANGED <<lastAlert, pending, inbox>>

Announce ==
  /\ pending = <<>>
  /\ lastAlert' \in [candle : Candles, dir : Directions]
  /\ lastAlert'.candle > lastAlert.candle
  /\ rearmed \/ lastAlert'.dir # lastAlert.dir
  /\ rearmed' = FALSE
  /\ pending' = Recipients
  /\ UNCHANGED inbox

Try ==
  /\ pending # <<>>
  /\ pending' = Tail(pending)
  /\ \/ inbox' = [inbox EXCEPT ![Head(pending)] = Append(@, lastAlert)]
     \/ UNCHANGED inbox
  /\ UNCHANGED <<lastAlert, rearmed>>

Abandon ==
  /\ pending' = <<>>
  /\ UNCHANGED <<lastAlert, rearmed, inbox>>

PolicyNext ==
  \/ Rearm
  \/ Announce
  \/ Try
  \/ Abandon

PolicySpec == PolicyInit /\ [][PolicyNext]_policyVars

-------------------------------------------------------------------------------
(* Type invariant.                                                         *)
PolicyTypeOK ==
  /\ lastAlert \in Alert
  /\ rearmed \in BOOLEAN
  /\ pending \in Seq(RecipientSet)
  /\ inbox \in [RecipientSet -> Seq(Alert)]

(* Every recipient gets the alerts in candle order and none of them twice  *)
(* (monitor.py:98, "At-most-once delivery").                               *)
InOrderAtMostOnce ==
  \A r \in RecipientSet :
    \A i, j \in 1 .. Len(inbox[r]) :
      i < j => inbox[r][i].candle < inbox[r][j].candle
===============================================================================
