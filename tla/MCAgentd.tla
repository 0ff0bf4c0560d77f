------------------------------- MODULE MCAgentd -------------------------------
(***************************************************************************)
(* Instances of Agentd for TLC.                                            *)
(***************************************************************************)
EXTENDS Agentd, TLC

ReplayedKinds == {"span", "badspan"}

OtelOnly == {"otelmetric"}

MetricOnly == {"metric"}

AllButSpan == {"metric", "otelmetric", "badspan"}

OneLabel == {"a"}

TwoLabels == {"a", "b"}

(* Labels are only compared with each other; sound for the safety run. *)
LabelSymmetry == Permutations(Labels)
===============================================================================
