---------------------------- MODULE SqlReservation ----------------------------
(***************************************************************************)
(* The PostgreSQL and Stoolap reservation stores at statement granularity  *)
(* (crates/persistence/src/postgres/reservation.rs,                        *)
(* crates/persistence-stoolap/src/operation/reservation.rs).               *)
(*                                                                         *)
(* A call runs several statements; each statement is atomic, and other     *)
(* callers' statements, of this and of other processes, run in between.    *)
(* The UPDATE and DELETE statements re-evaluate their WHERE clause on the  *)
(* row they lock, so their guards read the table when they execute.  The   *)
(* time they compare with is the caller's clock.now(), sampled before the  *)
(* statement is sent.                                                      *)
(***************************************************************************)
EXTENDS ReservationState  \* records is the table operation_reservations

CONSTANT Callers  \* concurrent calls into the store

VARIABLE calls  \* where each caller is in its call

vars == <<clock, records, incarnation, grants, calls>>

Idle == [pc |-> "idle"]

(* A completed row keeps its owner, token and lease columns.               *)
Completed(row, response, at) ==
  [state |-> "completed", fingerprint |-> row.fingerprint,
   owner_id |-> row.owner_id, fencing_token |-> row.fencing_token,
   lease_until |-> row.lease_until, response |-> response,
   completed_at |-> at]

RecordOf(row) ==
  IF row.state = "completed"
  THEN [state |-> "completed", fingerprint |-> row.fingerprint,
        response |-> row.response, completed_at |-> row.completed_at]
  ELSE row

Mutators == {"renew", "complete", "abandon"}

Contract == INSTANCE ReservationContract
              WITH records <- [op \in Ops |-> RecordOf(records[op])],
                   asked <- {[fence |-> calls[c].fence, at |-> calls[c].now] :
                             c \in {d \in Callers : calls[d].pc \in Mutators}}

Init ==
  /\ clock = [o \in Owners |-> 0]
  /\ records = [op \in Ops |-> Contract!Absent]
  /\ incarnation = [op \in Ops |-> 0]
  /\ grants = {}
  /\ calls = [c \in Callers |-> Idle]

LeaseOf(op, o, token, inc, f) ==
  [op |-> op, owner |-> o, token |-> token, inc |-> inc, fingerprint |-> f]

Goto(c, state) == calls' = [calls EXCEPT ![c] = state]

(* The call returns with an outcome or an error.                           *)
Return(c) == Goto(c, Idle)

Tick(o) ==
  /\ clock[o] < MaxClock
  /\ clock' = [clock EXCEPT ![o] = @ + 1]
  /\ UNCHANGED <<records, incarnation, grants, calls>>

-----------------------------------------------------------------------------
(* reserve                                                                 *)

(* The runtime computes the lease bound before it calls the store.         *)
BeginReserve(c, op, o, f) ==
  /\ calls[c].pc = "idle"
  /\ Goto(c, [pc |-> "insert", op |-> op, owner |-> o, fingerprint |-> f,
              until |-> clock[o] + LeaseLength])
  /\ UNCHANGED <<clock, records, incarnation, grants>>

(* INSERT ... ON CONFLICT DO NOTHING                                       *)
InsertRow(c) ==
  LET call == calls[c]
      lease == LeaseOf(call.op, call.owner, 1, incarnation[call.op] + 1,
                       call.fingerprint) IN
  /\ call.pc = "insert"
  /\ UNCHANGED clock
  /\ \/ /\ records[call.op].state = "absent"
        /\ incarnation[call.op] < MaxIncarnation
        /\ records' = [records EXCEPT ![call.op] =
             Contract!InProgress(call.owner, call.fingerprint, 1, call.until)]
        /\ incarnation' = [incarnation EXCEPT ![call.op] = @ + 1]
        /\ grants' = grants \cup {lease}
        /\ Return(c)
     \/ /\ records[call.op].state # "absent"
        /\ Goto(c, [call EXCEPT !.pc = "read"])
        /\ UNCHANGED <<records, incarnation, grants>>

(* SELECT the row.  Only a row in progress with the same fingerprint leads *)
(* on; a completed one is replayed, other content is a conflict.           *)
ReadRow(c) ==
  LET call == calls[c]
      row == records[call.op] IN
  /\ call.pc = "read"
  /\ IF row.state = "in_progress" /\ row.fingerprint = call.fingerprint
     THEN Goto(c, [pc |-> "decide", op |-> call.op, owner |-> call.owner,
                   fingerprint |-> call.fingerprint, until |-> call.until,
                   seen |-> row])
     ELSE Return(c)
  /\ UNCHANGED <<clock, records, incarnation, grants>>

(* Samples the clock and judges the row that was read by it.               *)
Decide(c) ==
  LET call == calls[c]
      now == clock[call.owner] IN
  /\ call.pc = "decide"
  /\ IF now >= call.seen.lease_until /\ call.seen.fencing_token < MaxToken
     THEN Goto(c, [pc |-> "takeover", op |-> call.op, owner |-> call.owner,
                   until |-> call.until, fingerprint |-> call.fingerprint,
                   now |-> now, displaced |-> call.seen.fencing_token])
     ELSE Return(c)
  /\ UNCHANGED <<clock, records, incarnation, grants>>

(* The takeover; a lost race re-reads the row and answers that somebody    *)
(* holds it.  The WHERE clause of the UPDATE, and a mutated form of it     *)
(* without the compare-and-swap on the token.                              *)
LeaseStillLapsed(call) ==
  /\ records[call.op].state = "in_progress"
  /\ records[call.op].lease_until <= call.now

MayTakeOver(call) ==
  /\ records[call.op].state = "in_progress"
  /\ records[call.op].fencing_token = call.displaced
  /\ records[call.op].lease_until <= call.now

(* The SET clause of the takeover.                                         *)
Seized(row, call) ==
  [row EXCEPT !.owner_id = call.owner, !.lease_until = call.until,
              !.fencing_token = call.displaced + 1]

TakeOver(c) ==
  LET call == calls[c]
      token == call.displaced + 1 IN
  /\ call.pc = "takeover"
  /\ UNCHANGED <<clock, incarnation>>
  /\ IF MayTakeOver(call)
     THEN /\ records' = [records EXCEPT ![call.op] = Seized(@, call)]
          /\ grants' = grants \cup
               {LeaseOf(call.op, call.owner, token, incarnation[call.op],
                        call.fingerprint)}
          /\ Return(c)
     ELSE Return(c) /\ UNCHANGED <<records, grants>>

-----------------------------------------------------------------------------
(* renew, complete and abandon: mutate_owned                               *)

(* A renewal carries the bound its caller asks for.                        *)
BeginMutate(c, fence, kind, until) ==
  /\ calls[c].pc = "idle"
  /\ Goto(c, [pc |-> kind, op |-> fence.op, fence |-> fence,
              now |-> clock[fence.owner], until |-> until])
  /\ UNCHANGED <<clock, records, incarnation, grants>>

(* Mutated form of Valid: the fence's token is not in the WHERE clause.    *)
ValidOwner(call) ==
  LET row == records[call.op] IN
  /\ row.state = "in_progress"
  /\ row.owner_id = call.fence.owner
  /\ row.lease_until > call.now

Valid(call) ==
  LET row == records[call.op] IN
  /\ row.state = "in_progress"
  /\ row.owner_id = call.fence.owner
  /\ row.fencing_token = call.fence.token
  /\ row.lease_until > call.now

Mutated(call) ==
  LET row == records[call.op] IN
  CASE call.pc = "renew" ->
         [row EXCEPT !.lease_until = call.until]
    [] call.pc = "complete" -> Completed(row, call.fence, call.now)
    [] call.pc = "abandon" -> Contract!Absent

Mutate(c) ==
  LET call == calls[c] IN
  /\ call.pc \in Mutators
  /\ IF Valid(call)
     THEN /\ records' = [records EXCEPT ![call.op] = Mutated(call)]
          /\ Return(c)
     ELSE Return(c) /\ UNCHANGED records
  /\ UNCHANGED <<clock, incarnation, grants>>

-----------------------------------------------------------------------------
(* purge_completed_before                                                  *)

Eligible(op, cutoff) ==
  /\ records[op].state = "completed"
  /\ records[op].completed_at < cutoff

DeleteIfEligible(op, cutoff) ==
  records' = [records EXCEPT ![op] =
             IF Eligible(op, cutoff) THEN Contract!Absent ELSE @]

(* PostgreSQL: one DELETE; a locked row may be skipped.  It does what the  *)
(* two-step purge does when nothing runs in between.                       *)
PurgeStatement(o) ==
  /\ \E cutoff \in 0 .. clock[o] - RetentionWindow :
       \E S \in SUBSET {op \in Ops : Eligible(op, cutoff)} :
         records' = [op \in Ops |-> IF op \in S THEN Contract!Absent
                                               ELSE records[op]]
  /\ UNCHANGED <<clock, incarnation, grants, calls>>

(* Stoolap: select the candidates, then delete them one by one.            *)
SelectCandidates(c, o, S) ==
  /\ calls[c].pc = "idle"
  /\ \E cutoff \in 0 .. clock[o] - RetentionWindow :
       /\ \A op \in S : Eligible(op, cutoff)
       /\ Goto(c, [pc |-> "purge", cutoff |-> cutoff, candidates |-> S])
  /\ UNCHANGED <<clock, records, incarnation, grants>>

DeleteCandidate(c) ==
  LET call == calls[c] IN
  /\ call.pc = "purge"
  /\ \E op \in call.candidates :
       /\ DeleteIfEligible(op, call.cutoff)
       /\ Goto(c, IF call.candidates = {op} THEN Idle
                  ELSE [call EXCEPT !.candidates = @ \ {op}])
  /\ UNCHANGED <<clock, incarnation, grants>>

(* A statement fails, or the caller's future is dropped, or its process    *)
(* dies: the call stops where it is.                                       *)
CallStops(c) ==
  /\ calls[c].pc # "idle"
  /\ Goto(c, Idle)
  /\ UNCHANGED <<clock, records, incarnation, grants>>

Next ==
  \/ \E o \in Owners : Tick(o) \/ PurgeStatement(o)
  \/ \E c \in Callers, op \in Ops, o \in Owners, f \in Fingerprints :
       BeginReserve(c, op, o, f)
  \/ \E c \in Callers, g \in grants :
       \/ \E kind \in {"complete", "abandon"} : BeginMutate(c, g, kind, 0)
       \/ \E until \in Contract!LeaseBounds(g.owner) :
            BeginMutate(c, g, "renew", until)
  \/ \E c \in Callers, o \in Owners, S \in SUBSET Ops \ {{}} :
       SelectCandidates(c, o, S)
  \/ \E c \in Callers :
       \/ InsertRow(c) \/ ReadRow(c) \/ Decide(c) \/ TakeOver(c)
       \/ Mutate(c) \/ DeleteCandidate(c) \/ CallStops(c)

Spec == Init /\ [][Next]_vars

-----------------------------------------------------------------------------

(* The statements together implement the port's contract: in particular a  *)
(* lease is taken over only when it lapsed, and a held row never purged.   *)
ImplementsContract == Contract!Spec

(* The doc of Conflict: another fingerprint under the same key is "a       *)
(* permanent conflict, never a silent dedupe": no lease is handed out for  *)
(* other content than the row's.                                           *)
LeaseIsForTheRowsContent ==
  [][\A g \in grants' \ grants :
       g.fingerprint = records'[g.op].fingerprint]_vars

=============================================================================
