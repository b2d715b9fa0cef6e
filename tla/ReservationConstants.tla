------------------------ MODULE ReservationConstants ------------------------
(* The parameters every reservation store is used with, and what is        *)
(* assumed of them: the validated ReservationConfig and RetentionPolicy,   *)
(* the range of the token, and the model's bounds.                         *)
EXTENDS Integers

CONSTANTS
  Ops,             \* operation ids: tenant and operation key
  Owners,          \* owner processes, each with its own clock
  Fingerprints,    \* digests of the request's content
  LeaseLength,     \* ReservationConfig.lease
  RetentionWindow, \* RetentionPolicy.window
  MaxToken,        \* u64::MAX (i64::MAX in the SQL stores): the last token
  MaxClock,        \* bound on the clocks
  MaxIncarnation   \* bound on how often one key is reserved afresh

ASSUME LeaseAssumption == LeaseLength \in Nat \ {0}
ASSUME WindowAssumption == RetentionWindow \in Nat
ASSUME TokenAssumption == MaxToken \in Nat \ {0}
ASSUME BoundAssumption == MaxClock \in Nat /\ MaxIncarnation \in Nat

=============================================================================
