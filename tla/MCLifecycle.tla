---------------------------- MODULE MCLifecycle ----------------------------
(* Instances of Lifecycle for TLC. *)
EXTENDS Lifecycle

\* The pool and the callers of stop() do not look at each other: one connection at
\* most waits for a worker once stop() has been called, and none after a second
\* signal.
Explored ==
  /\ stopping # NotStopping => tasks <= 1
  /\ stopping["second"] # "no" => tasks = 0 /\ acceptor = "accept"

=============================================================================
