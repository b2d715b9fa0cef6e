------------------------- MODULE InMemoryReservation -------------------------
(***************************************************************************)
(* InMemoryOperationReservationStore                                       *)
(* (crates/persistence-memory/src/operation/reservation.rs).               *)
(*                                                                         *)
(* One process, one clock, one mutex around the record map: every call is  *)
(* one step.  The clock is read inside the critical section, so a mutator  *)
(* judges the lease at the instant it writes.  `answer` is what the last   *)
(* call returned.                                                          *)
(***************************************************************************)
EXTENDS ReservationConstants

VARIABLES now, records, incarnation, grants, answer

vars == <<now, records, incarnation, grants, answer>>

Contract == INSTANCE ReservationContract
              WITH clock <- [o \in Owners |-> now], asked <- {}

NoAnswer == [kind |-> "none"]

Init ==
  /\ now = 0
  /\ records = [op \in Ops |-> Contract!Absent]
  /\ incarnation = [op \in Ops |-> 0]
  /\ grants = {}
  /\ answer = NoAnswer

Tick ==
  /\ now < MaxClock
  /\ now' = now + 1
  /\ UNCHANGED <<records, incarnation, grants, answer>>

LeaseOf(op, o, token, inc, f) ==
  [op |-> op, owner |-> o, token |-> token, inc |-> inc, fingerprint |-> f]

-----------------------------------------------------------------------------
(* reserve: one branch of the match per disjunct.                          *)

ReserveFresh(op, o, f, until) ==
  LET lease == LeaseOf(op, o, 1, incarnation[op] + 1, f) IN
  /\ records[op].state = "absent"
  /\ incarnation[op] < MaxIncarnation
  /\ records' = [records EXCEPT ![op] = Contract!InProgress(o, f, 1, until)]
  /\ incarnation' = [incarnation EXCEPT ![op] = @ + 1]
  /\ grants' = grants \cup {lease}
  /\ answer' = [kind |-> "Fresh", lease |-> lease]

ReserveConflict(op, f) ==
  /\ records[op].state # "absent"
  /\ records[op].fingerprint # f
  /\ answer' = [kind |-> "Conflict"]
  /\ UNCHANGED <<records, incarnation, grants>>

(* Mutated form of ReserveLapsed: a lapsed lease is respected for ever.    *)
ReserveLapsedRefused(op, o, f, until) ==
  /\ records[op].state = "in_progress"
  /\ records[op].fingerprint = f
  /\ now >= records[op].lease_until
  /\ answer' = [kind |-> "OtherInProgress"]
  /\ UNCHANGED <<records, incarnation, grants>>

ReserveLapsed(op, o, f, until) ==
  LET r == records[op]
      lease == LeaseOf(op, o, r.fencing_token + 1, incarnation[op], f) IN
  /\ r.state = "in_progress"
  /\ r.fingerprint = f
  /\ now >= r.lease_until
  /\ UNCHANGED incarnation
  /\ IF r.fencing_token = MaxToken
     THEN /\ answer' = [kind |-> "FencingExhausted"]
          /\ UNCHANGED <<records, grants>>
     ELSE /\ records' = [records EXCEPT ![op] =
                           Contract!InProgress(o, f, lease.token, until)]
          /\ grants' = grants \cup {lease}
          /\ answer' = [kind |-> "TakenOver", lease |-> lease]

ReserveHeld(op, o, f) ==
  LET r == records[op] IN
  /\ r.state = "in_progress"
  /\ r.fingerprint = f
  /\ now < r.lease_until
  /\ answer' = IF r.owner_id = o
               THEN [kind |-> "OwnedInProgress",
                     lease |-> LeaseOf(op, o, r.fencing_token,
                                       incarnation[op], f)]
               ELSE [kind |-> "OtherInProgress"]
  /\ UNCHANGED <<records, incarnation, grants>>

ReserveSucceeded(op, f) ==
  /\ records[op].state = "completed"
  /\ records[op].fingerprint = f
  /\ answer' = [kind |-> "Succeeded", response |-> records[op].response]
  /\ UNCHANGED <<records, incarnation, grants>>

reserve(op, o, f, until) ==
  /\ \/ ReserveFresh(op, o, f, until)
     \/ ReserveConflict(op, f)
     \/ ReserveLapsed(op, o, f, until)
     \/ ReserveHeld(op, o, f)
     \/ ReserveSucceeded(op, f)
  /\ UNCHANGED now

-----------------------------------------------------------------------------
(* The fence-verified mutators.                                            *)

Valid(fence) ==
  /\ Contract!FenceMatches(fence)
  /\ now < records[fence.op].lease_until

Mutate(fence, record) ==
  /\ IF Valid(fence)
     THEN /\ records' = [records EXCEPT ![fence.op] = record]
          /\ answer' = [kind |-> "Ok"]
     ELSE /\ answer' = [kind |-> "StaleOwner"]
          /\ UNCHANGED records
  /\ UNCHANGED <<now, incarnation, grants>>

renew(fence, until) ==
  Mutate(fence, [records[fence.op] EXCEPT !.lease_until = until])

complete(fence) ==
  Mutate(fence, Contract!Completed(records[fence.op].fingerprint, fence, now))

abandon(fence) == Mutate(fence, Contract!Absent)

(* purge_completed_before with the cutoff the retention worker computes,   *)
(* possibly a while before the call: any up to `batch` of the eligible.    *)
(* The mutated form also takes a row completed at the cutoff.              *)
EligibleAtCutoff(cutoff) ==
  {op \in Ops : /\ records[op].state = "completed"
                /\ records[op].completed_at <= cutoff}
Eligible(cutoff) ==
  {op \in Ops : /\ records[op].state = "completed"
                /\ records[op].completed_at < cutoff}

purge_completed_before(cutoff, S) ==
  /\ S \subseteq Eligible(cutoff)
  /\ records' = [op \in Ops |-> IF op \in S THEN Contract!Absent
                                            ELSE records[op]]
  /\ answer' = [kind |-> "Ok"]
  /\ UNCHANGED <<now, incarnation, grants>>

Next ==
  \/ Tick
  \/ \E op \in Ops, o \in Owners, f \in Fingerprints, asked \in 0 .. now :
       reserve(op, o, f, asked + LeaseLength)
  \/ \E g \in grants, asked \in 0 .. now : renew(g, asked + LeaseLength)
  \/ \E g \in grants : complete(g)
  \/ \E g \in grants : abandon(g)
  \/ \E cutoff \in 0 .. now - RetentionWindow, S \in SUBSET Ops :
       purge_completed_before(cutoff, S)

Spec == Init /\ [][Next]_vars

-----------------------------------------------------------------------------

(* The store implements the port's contract.                               *)
ImplementsContract == Contract!Spec

=============================================================================
