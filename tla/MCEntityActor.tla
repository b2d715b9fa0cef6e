---------------------------- MODULE MCEntityActor ----------------------------
(* Small instances of the entity actor for TLC: a request, its retry, and  *)
(* a command that reuses the key for other content or has none.            *)
EXTENDS EntityActor, TLC

CONSTANTS c1, c2, c3, k1

Choices == {[c \in Commands |-> k1], [c \in Commands |-> IF c = c3 THEN NoKey ELSE k1]}
Content == [c \in Commands |-> IF c = c3 THEN "fB" ELSE "fA"]

(* One failure, but none when commands with and without a key meet on the  *)
(* shared store.                                                           *)
MCInit ==
  /\ Init
  /\ faults = IF backend = "postgres" /\ ~Keyed(c3) THEN 0 ELSE MaxFaults
MCSpec == MCInit /\ [][Next]_vars

(* Nodes are interchangeable, and so are a request and its retry.          *)
Symmetry == Permutations(Nodes) \cup Permutations({c1, c2})
=============================================================================
