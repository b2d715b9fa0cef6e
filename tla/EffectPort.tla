------------------------------ MODULE EffectPort ------------------------------
(***************************************************************************)
(* What the effect ports fix for every store and runner: the states of an  *)
(* effect, the reservation of an idempotency scope, and what a runner does *)
(* on each answer of reserve (crates/runtime/src/effects/store.rs,         *)
(* runner.rs).                                                             *)
(***************************************************************************)
EXTENDS Naturals

CONSTANTS
  Effects,        \* effects the application may hand over
  ScopeOf,        \* dedup scope of each effect: tenant, type and key
  FingerprintOf,  \* digest of each effect's payload and destination
  Registered      \* effects whose type has an executor

ASSUME ShapeAssumption ==
  /\ DOMAIN ScopeOf = Effects
  /\ DOMAIN FingerprintOf = Effects
  /\ Registered \subseteq Effects

Scopes == {ScopeOf[e] : e \in Effects}

Open == {"Pending", "RetryableFailed"}
Settled == {"Succeeded", "TerminalFailed"}

NoReservation == [effect_id |-> "none"]
Reservation(e) ==
  [effect_id |-> e, fingerprint |-> FingerprintOf[e], succeeded |-> FALSE]

Reserved(dedup, e) ==
  IF dedup[ScopeOf[e]] = NoReservation
  THEN [dedup EXCEPT ![ScopeOf[e]] = Reservation(e)] ELSE dedup

(* commit_success: an UPDATE that finds no row changes nothing.            *)
Committed(dedup, s) ==
  IF dedup[s] = NoReservation THEN dedup
  ELSE [dedup EXCEPT ![s].succeeded = TRUE]

(* claim_due ... LIMIT: all the rows that are due, or as many as fit.      *)
Batches(due, limit) ==
  LET picked(n) ==
        {{pick[i] : i \in 1 .. n} : pick \in
           {f \in [1 .. n -> due] : \A i, j \in 1 .. n : f[i] = f[j] => i = j}} IN
  {S \in UNION {picked(n) : n \in 1 .. limit} : S = due \/ S \in picked(limit)}

(* The match on DedupOutcome; executor lookup is part of the first case.   *)
(* Mutated forms: a reservation of the same content counts as a delivery;  *)
(* the owner of a reservation is not looked at.                            *)
AnswerDuplicate(e, r) ==
  IF r = NoReservation \/ r.effect_id = e
  THEN IF e \in Registered THEN "execute" ELSE "giveup"
  ELSE IF r.fingerprint # FingerprintOf[e] THEN "abandon" ELSE "satisfied"
AnswerAnyOwner(e, r) ==
  IF r # NoReservation /\ r.succeeded THEN "satisfied" ELSE "execute"
Answer(e, r) ==
  CASE r = NoReservation ->
         IF e \in Registered THEN "execute" ELSE "giveup"
    [] r # NoReservation /\ r.fingerprint # FingerprintOf[e] -> "abandon"
    [] r # NoReservation /\ r.fingerprint = FingerprintOf[e] ->
         IF r.succeeded THEN "satisfied"
         ELSE IF r.effect_id # e THEN "requeue"
         ELSE IF e \in Registered THEN "execute" ELSE "giveup"

=============================================================================
