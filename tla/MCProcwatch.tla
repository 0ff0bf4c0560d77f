------------------------------ MODULE MCProcwatch -----------------------------
(***************************************************************************)
(* Instances of Procwatch for TLC.                                         *)
(***************************************************************************)
EXTENDS Procwatch

OneLabel == {"a"}

TwoLabels == {"a", "b"}
===============================================================================
