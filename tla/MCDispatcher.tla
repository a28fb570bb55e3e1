--------------------------- MODULE MCDispatcher ---------------------------
(* Instances of Dispatcher for TLC. *)
EXTENDS Dispatcher, TLC

\* Users and links are interchangeable.
Symmetry == Permutations(Users) \cup Permutations(Links)

\* The safety run follows three SEND frames until two messages are settled, and the
\* heartbeat thread does not take clientsMutex in it: that changes no other variable
\* and enables no other step, so what can go wrong with it goes wrong without it.
Explored ==
  /\ \A l, m \in Links : l # m => sends[l] + sends[m] <= 3
  /\ Len(settled) <= 2
  /\ ~held

\* All but the counter totalMessagesReceived, on which no step depends.
Uncounted == <<clients, held, sends, wpc, req, from, rest, oks, messages, thread>>

===========================================================================
