----------------------------- MODULE MCStream -----------------------------
(* Instances of Stream for TLC: the constants are numbers and model values. *)
EXTENDS Stream

===========================================================================
