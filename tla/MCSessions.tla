---------------------------- MODULE MCSessions ----------------------------
(* Instances of Sessions for TLC. *)
EXTENDS Sessions, TLC

\* Users, connections, descriptors and workers are interchangeable.
Symmetry ==
  UNION {Permutations(S) : S \in {Users, Conns, Fds, Workers}}

\* The same without SYMMETRY, which temporal properties do not allow: the first
\* connection, its number and its worker are fixed ones.
AnyOf(S) == CHOOSE x \in S : TRUE
Canonical ==
  LET first == AnyOf(Conns) IN
    /\ \A c \in Conns : peer[c] # "out" => peer[first] # "out"
    /\ \A f \in Fds : fdt[f] = first => f = AnyOf(Fds)
    /\ \A w \in Workers : conn[w] = first => conn[AnyOf(Workers)] = first

\* Where the flags are set the properties ask no more: such states are not
\* explored further.
Explored == Canonical /\ Clean

===========================================================================
