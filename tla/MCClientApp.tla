---------------------------- MODULE MCClientApp ----------------------------
(* Instances of ClientApp for TLC: the constants are numbers. *)
EXTENDS ClientApp

=============================================================================
