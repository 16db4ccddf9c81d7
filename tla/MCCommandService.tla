-------------------------- MODULE MCCommandService ---------------------------
(***************************************************************************)
(* Small instances of CommandService: two backtest commands, a status      *)
(* command and a message of a stranger, in two payloads.                   *)
(***************************************************************************)
EXTENDS CommandService

AllMessages == {"b1", "b2", "s", "x"}
Known       == {"b1", "b2", "s"}

KindOf == [m \in AllMessages |->
            CASE m = "s" -> "status" [] m = "x" -> "help" [] OTHER -> "backtest"]

MixedPayloads == {<<"b1", "x">>, <<"b2", "s">>}
===============================================================================
