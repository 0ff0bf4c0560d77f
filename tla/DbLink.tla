-------------------------------- MODULE DbLink --------------------------------
(***************************************************************************)
(* The database connection that agentd and procwatch keep in a pw_db_buf_t *)
(* (src/src/db_buffer.c over db_connect and db_reconnect of db.c), and the *)
(* server behind it.  A session can end at any moment; the client learns   *)
(* of it only from the next statement it sends.                            *)
(***************************************************************************)
EXTENDS Naturals

CONSTANTS
  ReconnectInterval,  \* reconnect_interval_sec
  MaxLosses           \* bound: sessions, tables and servers lost

ASSUME LinkAssumption ==
  /\ ReconnectInterval \in Nat \ {0}
  /\ MaxLosses \in Nat

VARIABLES
  online,   \* pw_db_buf_t.online
  link,     \* PQstatus: "ok", "bad", or "none" for conn == NULL
  cool,     \* seconds until a reconnect may be tried again
  dbUp,     \* the server accepts connections
  alive,    \* the server session behind conn exists
  losses    \* losses so far

buffer == <<online, link, cool>>
linkVars == <<buffer, dbUp, alive, losses>>

LinkTypeOK ==
  /\ online \in {0, 1}
  /\ link \in {"ok", "bad", "none"}
  /\ cool \in 0..ReconnectInterval
  /\ dbUp \in {0, 1}
  /\ alive \in {0, 1}
  /\ losses \in 0..MaxLosses

LinkInit ==
  /\ online = 0 /\ link = "none" /\ cool = 0
  /\ dbUp \in {0, 1} /\ alive = 0
  /\ losses = 0

(* A connection attempt: a new session, or conn == NULL. *)
Connect ==
  /\ link' = IF dbUp = 1 THEN "ok" ELSE "none"
  /\ alive' = dbUp
  /\ online' = dbUp

(* pw_db_buf_init *)
Open ==
  /\ Connect
  /\ cool' = 0
  /\ UNCHANGED <<dbUp, losses>>

(* pw_db_buf_close, exit(): the connection goes with the process. *)
Closed ==
  /\ online' = 0 /\ link' = "none" /\ cool' = 0
  /\ alive' = 0
  /\ UNCHANGED <<dbUp, losses>>

(* Mutant of Ensure: a connection that looks live leaves online alone. *)
EnsureKeepsFlag ==
  /\ \/ /\ link = "ok"
        /\ UNCHANGED <<online, link, cool, alive>>
     \/ /\ link # "ok" /\ cool > 0
        /\ online' = 0
        /\ UNCHANGED <<link, cool, alive>>
     \/ /\ link # "ok" /\ cool = 0
        /\ Connect
        /\ cool' = ReconnectInterval
  /\ UNCHANGED <<dbUp, losses>>

(***************************************************************************)
(* pw_db_buf_ensure: a connection that looks live puts us online, even     *)
(* when its session is gone; otherwise reconnect, at most once per         *)
(* ReconnectInterval.                                                      *)
(***************************************************************************)
Ensure ==
  /\ \/ /\ link = "ok"
        /\ online' = 1
        /\ UNCHANGED <<link, cool, alive>>
     \/ /\ link # "ok" /\ cool > 0
        /\ online' = 0
        /\ UNCHANGED <<link, cool, alive>>
     \/ /\ link # "ok" /\ cool = 0
        /\ Connect
        /\ cool' = ReconnectInterval
  /\ UNCHANGED <<dbUp, losses>>

(* The step opens a new session. *)
Reopened == link # "ok" /\ link' = "ok"

(* What the client sees of a statement it sends. *)
Sent == link' = IF alive = 1 THEN link ELSE "bad"

(* Something is lost now. *)
Loss ==
  /\ losses < MaxLosses
  /\ losses' = losses + 1

ServerDown ==
  /\ dbUp = 1
  /\ Loss
  /\ dbUp' = 0 /\ alive' = 0
  /\ UNCHANGED buffer

ServerUp ==
  /\ dbUp = 0
  /\ dbUp' = 1
  /\ UNCHANGED <<buffer, alive, losses>>

SessionCut ==
  /\ alive = 1
  /\ Loss
  /\ alive' = 0
  /\ UNCHANGED <<buffer, dbUp>>
===============================================================================
