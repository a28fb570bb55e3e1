------------------------------ MODULE Delivery ------------------------------
(***************************************************************************)
(* What the dispatcher promises a sender whose message it took: a queue of *)
(* bounded length, in which a message appears once, and whose messages are *)
(* settled one by one in the order in which they were taken.               *)
(***************************************************************************)
EXTENDS Naturals, Sequences, SequencesExt

CONSTANTS
  Message,   \* what can be sent
  Capacity,  \* messages the dispatcher holds at most
  Outcomes   \* how a message can be settled

VARIABLES
  pending,   \* messages taken and not settled, oldest first
  settled    \* messages settled, with the outcome, oldest first

vars == <<pending, settled>>

\* m was taken before.
Known(m) ==
  m \in Range(pending) \/ \E i \in 1..Len(settled) : settled[i].msg = m

Init == pending = <<>> /\ settled = <<>>

Take(m) ==
  /\ Len(pending) < Capacity /\ ~Known(m)
  /\ pending' = Append(pending, m)
  /\ UNCHANGED settled

Settle(how) ==
  /\ pending # <<>>
  /\ settled' = Append(settled, [msg |-> Head(pending), how |-> how])
  /\ pending' = Tail(pending)

Next == (\E m \in Message : Take(m)) \/ (\E how \in Outcomes : Settle(how))

Spec == Init /\ [][Next]_vars

=============================================================================
