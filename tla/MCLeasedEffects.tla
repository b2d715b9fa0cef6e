--------------------------- MODULE MCLeasedEffects ---------------------------
(* LeasedEffects on small instances: effects that share an idempotency key *)
EXTENDS LeasedEffects, TLC

CONSTANTS e1, e2

OneEffect == {e1}
TwoEffects == {e1, e2}
OneKey == [e \in Effects |-> "key"]
SameContent == [e \in Effects |-> "content"]

(* Slow work, retention and failing calls are explored apart.              *)
Only(name) ==
  [slow |-> name = "slow", retention |-> name = "retention",
   faulty |-> name = "faulty"]
Apart == {Only("slow"), Only("retention"), Only("faulty")}

Symmetry == Permutations(Workers) \cup Permutations(Effects)
=============================================================================
