--------------------------- MODULE AbnormalMoveGate ---------------------------
(***************************************************************************)
(* The decision of app/safety.py: when abnormal price movement pauses the  *)
(* signals and when it lets them resume.  A closed candle is reduced to    *)
(* the two measurements the gate takes: move5, the absolute close-to-close *)
(* move over five minutes, and range1, the range of the last minute.  The  *)
(* gate itself is a record of the two values it keeps in the kv table:     *)
(* paused ("abnormal_paused") and recovery ("recovery_start", 0 when no    *)
(* observation is running).                                                *)
(***************************************************************************)
EXTENDS Integers

CONSTANTS
  Minute,          (* seconds in a minute                                  *)
  RecoveryMinutes, (* settings.recovery_minutes                            *)
  Abnormal5m,      (* settings.abnormal_5m_move_pct                        *)
  Abnormal1m,      (* settings.abnormal_1m_range_pct                       *)
  Recovery5m       (* settings.recovery_5m_move_pct                        *)

ASSUME GateAssumption ==
  /\ Minute          \in Nat \ {0}
  /\ RecoveryMinutes \in Nat \ {0}
  /\ Abnormal5m      \in Nat \ {0}
  /\ Abnormal1m      \in Nat \ {0}
  /\ Recovery5m      \in Nat \ {0}

GateState == [paused : BOOLEAN, recovery : Nat]

OpenGate == [paused |-> FALSE, recovery |-> 0]

RecoveryWindow == RecoveryMinutes * Minute

Shock(c) == c.move5 >= Abnormal5m \/ c.range1 >= Abnormal1m

Calm(c) == c.move5 < Recovery5m /\ c.range1 < Abnormal1m

(* The recovery window that began at start is over at t.                   *)
Elapsed(start, t) == t - start >= RecoveryWindow

(* Mutant: abnormal movement does not restart the observation.             *)
GateUpdateKeepingStart(g, c, now) ==
  CASE ~g.paused /\ Shock(c)  -> [paused |-> TRUE, recovery |-> 0]
    [] ~g.paused /\ ~Shock(c) -> g
    [] g.paused /\ ~Calm(c)   -> g
    [] g.paused /\ Calm(c) /\ g.recovery = 0 -> [g EXCEPT !.recovery = now]
    [] g.paused /\ Calm(c) /\ g.recovery # 0 /\ ~Elapsed(g.recovery, now) -> g
    [] g.paused /\ Calm(c) /\ g.recovery # 0 /\ Elapsed(g.recovery, now)  -> OpenGate

(* Mutant: neither a trip nor a recovery erases the last observation.      *)
GateUpdateKeepingLast(g, c, now) ==
  CASE ~g.paused /\ Shock(c)  -> [g EXCEPT !.paused = TRUE]
    [] ~g.paused /\ ~Shock(c) -> g
    [] g.paused /\ ~Calm(c)   -> [g EXCEPT !.recovery = 0]
    [] g.paused /\ Calm(c) /\ g.recovery = 0 -> [g EXCEPT !.recovery = now]
    [] g.paused /\ Calm(c) /\ g.recovery # 0 /\ ~Elapsed(g.recovery, now) -> g
    [] g.paused /\ Calm(c) /\ g.recovery # 0 /\ Elapsed(g.recovery, now)  ->
         [g EXCEPT !.paused = FALSE]

(* The values update() leaves in the kv table; the verdict it returns is   *)
(* the paused field of the result in every branch.  The branch for fewer   *)
(* than six candles cannot be taken: at least 100 are always supplied.     *)
GateUpdate(g, c, now) ==
  CASE ~g.paused /\ Shock(c)  -> [paused |-> TRUE, recovery |-> 0]
    [] ~g.paused /\ ~Shock(c) -> g
    [] g.paused /\ ~Calm(c)   -> [g EXCEPT !.recovery = 0]
    [] g.paused /\ Calm(c) /\ g.recovery = 0 -> [g EXCEPT !.recovery = now]
    [] g.paused /\ Calm(c) /\ g.recovery # 0 /\ ~Elapsed(g.recovery, now) -> g
    [] g.paused /\ Calm(c) /\ g.recovery # 0 /\ Elapsed(g.recovery, now)  -> OpenGate
===============================================================================
