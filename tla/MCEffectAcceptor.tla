--------------------------- MODULE MCEffectAcceptor ---------------------------
(* A queue of one.  Caller a has a batch of two and b of one: both without *)
(* faults, a alone with one fault, and both with one fault Inline.         *)
EXTENDS EffectAcceptor

CONSTANTS a, b

MCCallers == {a, b}
MCBatchOf == [c \in MCCallers |-> IF c = a THEN 2 ELSE 1]
MCSettings ==
  {[mode |-> "Deferred", callers |-> {a, b}, faults |-> 0],
   [mode |-> "Deferred", callers |-> {a}, faults |-> 1],
   [mode |-> "Inline", callers |-> {a, b}, faults |-> 1]}
=============================================================================
