----------------------------- MODULE MCOtlpDecode -----------------------------
(***************************************************************************)
(* An instance of OtlpDecode for TLC.  Labels are only compared.           *)
(***************************************************************************)
EXTENDS OtlpDecode

LabelSymmetry == Permutations(Labels)
===============================================================================
