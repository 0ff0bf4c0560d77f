----------------------------- MODULE MCHttpServer -----------------------------
(***************************************************************************)
(* An instance of HttpServer for TLC: the scripts of two clients.          *)
(***************************************************************************)
EXTENDS HttpServer, TLC

R(kind, body, close) == [kind |-> kind, body |-> body, close |-> close]

One == {"c1"}

Two == {"c1", "c2"}

(* c1 pipelines, up to two requests behind another; c2 waits. *)
Mixed ==
  "c1" :> <<R("ok", 1, 0), R("unknown", 0, 0), R("toolarge", 0, 0)>> @@
  "c2" :> <<R("bad", 1, 0), R("malformed", 0, 0)>>
===============================================================================
