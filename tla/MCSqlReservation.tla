--------------------------- MODULE MCSqlReservation ---------------------------
(* Small instances of the SQL reservation stores for TLC.                  *)
EXTENDS SqlReservation, TLC

(* Neither callers nor owner processes are told apart by any action.       *)
Symmetry == Permutations(Callers) \cup Permutations(Owners)
=============================================================================
