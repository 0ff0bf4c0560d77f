------------------------------- MODULE MCWrap -------------------------------
(***************************************************************************)
(* The command and two further pids, one of them used by two processes one *)
(* after the other: enough for a pid to come back below another parent,    *)
(* and with less CPU time, within one round.  prev[] is kept pid by pid,   *)
(* so one pid with CPU time to account for is enough.                      *)
(***************************************************************************)
EXTENDS Wrap, TLC

CONSTANTS child, pid1, pid2

Ticks == (child :> <<0>>) @@ (pid1 :> <<1, 0>>) @@ (pid2 :> <<0>>)
===============================================================================
