------------------------- MODULE IdempotentDispatch -------------------------
(***************************************************************************)
(* The life of a keyed request in generated dispatch: reserve, run the     *)
(* handler's durable steps, complete, answer                               *)
(* (crates/service-sdk/src/runtime/{idempotency,runtime_builder}.rs and    *)
(* the slot and epilogue crates/service-sdk-macros/src/lib.rs generates),  *)
(* composed with the reservation store.                                    *)
(*                                                                         *)
(* A request first passes the guards (DispatchGuards); they read nothing   *)
(* that changes, so a retry passes them again in the same step.            *)
(*                                                                         *)
(* A dispatch stands for a client's request and its retries: a client      *)
(* refused for contention, or cut off by a failure, sends the request      *)
(* again, to any runtime.  A handler writes to the aggregates 1 .. Steps   *)
(* in turn.  An aggregate gates a write by its receipt for the operation   *)
(* key and applies it at most once (EntityActor).                          *)
(***************************************************************************)
EXTENDS InMemoryReservation, DispatchGuards

CONSTANTS
  Dispatches,  \* requests of clients
  Plans,       \* a sequence: what is asked, of which deployment, how many failures
  Steps        \* the number of aggregates the handler writes to

VARIABLES
  plan,      \* which plan this behaviour follows
  dispatch,  \* where each request stands
  receipts,  \* per operation, the fingerprint each aggregate has a receipt for
  faults     \* crashes, handler errors and store failures left to inject

all == <<now, records, incarnation, grants, answer,
         plan, dispatch, receipts, faults>>

Waiting == [at |-> "waiting"]
Handling(lease, i) == [at |-> "handling", lease |-> lease, step |-> i]
Answered(r) == [at |-> "answered", reply |-> r]
Replayed(response) == [at |-> "answered", reply |-> "Replay", of |-> response]

InitDispatch ==
  /\ Init
  /\ plan \in DOMAIN Plans
  /\ dispatch = [d \in Dispatches |-> Waiting]
  /\ receipts = [op \in Ops |-> [i \in 1 .. Steps |-> "none"]]
  /\ faults = Plans[plan].faults

Becomes(d, state) == dispatch' = [dispatch EXCEPT ![d] = state]

Fault == faults > 0 /\ faults' = faults - 1

ContentOf(d) == Plans[plan].requests[d].content

Admissions ==
  [p \in DOMAIN Plans |-> [d \in Dispatches |->
     Admission(Plans[p].requests[d], Plans[p].deployment)]]
Admitted(d) == Admissions[plan][d]

-----------------------------------------------------------------------------
(* The guards: a refusal answers the request before anything is reserved.  *)

Refuse(d) ==
  /\ dispatch[d] = Waiting
  /\ Failed(Admitted(d))
  /\ Becomes(d, Answered(Admitted(d).err))
  /\ UNCHANGED <<vars, plan, receipts, faults>>

(* Nothing to reserve: the handler runs without a permit.                  *)
Proceed(d) ==
  /\ dispatch[d] = Waiting
  /\ Admitted(d) = Ok(Unreserved)
  /\ Becomes(d, Handling(None, 1))
  /\ UNCHANGED <<vars, plan, receipts, faults>>

(* The slot: what reserve's answer makes of the request.  Mutated form: a  *)
(* lease already held by this owner is taken for permission to run.        *)
DecideOwned(d) ==
  Becomes(d,
    CASE answer'.kind \in {"Fresh", "TakenOver", "OwnedInProgress"} ->
           Handling(answer'.lease, 1)
      [] answer'.kind = "Succeeded" -> Replayed(answer'.response)
      [] answer'.kind = "Conflict" -> Answered("FingerprintConflict")
      [] answer'.kind = "FencingExhausted" -> Answered("StoreUnavailable")
      [] OTHER -> Waiting)

Decide(d) ==
  Becomes(d,
    CASE answer'.kind \in {"Fresh", "TakenOver"} -> Handling(answer'.lease, 1)
      [] answer'.kind = "Succeeded" -> Replayed(answer'.response)
      [] answer'.kind = "Conflict" -> Answered("FingerprintConflict")
      [] answer'.kind = "FencingExhausted" -> Answered("StoreUnavailable")
      [] OTHER -> Waiting)

Asks(d, o) ==
  /\ dispatch[d] = Waiting
  /\ ~Failed(Admitted(d)) /\ Admitted(d).ok.reserved
  /\ reserve(Admitted(d).ok.op, o, ContentOf(d), now + LeaseLength)

reserve_idempotent_operation(d, o) ==
  /\ Asks(d, o)
  /\ Decide(d)
  /\ UNCHANGED <<plan, receipts, faults>>

(* The store applied the reservation but its answer was lost: the request  *)
(* is refused as StoreUnavailable and nobody holds the permit.             *)
ReserveAnswerLost(d, o) ==
  /\ Asks(d, o)
  /\ Fault
  /\ UNCHANGED <<plan, dispatch, receipts>>

(* The stored response does not decode as what this method returns.        *)
decode_stored_response(d, o) ==
  /\ Asks(d, o)
  /\ answer'.kind = "Succeeded"
  /\ Fault
  /\ Becomes(d, Answered("StoredResponseIncompatible"))
  /\ UNCHANGED <<plan, receipts>>

(* One durable step of the handler, through the aggregate's receipt gate.  *)
(* A command that reserved nothing has no identity and passes ungated.     *)
HandlerStep(d) ==
  LET i == dispatch[d].step
      lease == dispatch[d].lease IN
  /\ dispatch[d].at = "handling" /\ i <= Steps
  /\ IF lease = None \/ receipts[lease.op][i] \in {"none", ContentOf(d)}
     THEN /\ receipts' = IF lease = None THEN receipts
                         ELSE [receipts EXCEPT ![lease.op][i] = ContentOf(d)]
          /\ Becomes(d, Handling(lease, i + 1))
     ELSE /\ Becomes(d, Answered("OperationConflict"))
          /\ UNCHANGED receipts
  /\ UNCHANGED <<vars, plan, faults>>

(* The handler returned Err, or its runtime died: nothing is completed and *)
(* nothing abandoned, the reservation stays leased until it lapses.        *)
HandlerFails(d) ==
  /\ dispatch[d].at = "handling"
  /\ Becomes(d, Waiting)
  /\ Fault
  /\ UNCHANGED <<vars, plan, receipts>>

(* The epilogue: record the response under the permit's fence; whatever    *)
(* the store says, the caller gets its Ok.  Mutated form: the reservation  *)
(* is completed while a step is still to be done.                          *)
Epilogue(d) ==
  /\ IF dispatch[d].lease = None THEN UNCHANGED vars
                                 ELSE complete(dispatch[d].lease)
  /\ Becomes(d, Answered("Ok"))
  /\ UNCHANGED <<plan, receipts, faults>>

CompleteEarly(d) ==
  /\ dispatch[d].at = "handling" /\ dispatch[d].step >= Steps
  /\ Epilogue(d)

complete_idempotent_operation(d) ==
  /\ dispatch[d].at = "handling" /\ dispatch[d].step > Steps
  /\ Epilogue(d)

(* The completion is lost: the response does not encode, the store fails,  *)
(* or the runtime was dropped meanwhile.                                   *)
record_completion_lost(d) ==
  /\ dispatch[d].at = "handling" /\ dispatch[d].step > Steps
  /\ Becomes(d, Answered("Ok"))
  /\ Fault
  /\ UNCHANGED <<vars, plan, receipts>>

-----------------------------------------------------------------------------
(* The store's other callers: retention, and a host that holds the store   *)
(* and renews or abandons a lease.  The runtime itself does neither.       *)

Reusable == {op \in Ops : incarnation[op] < MaxIncarnation}

Retention ==
  /\ \E cutoff \in 0 .. now - RetentionWindow, S \in SUBSET Reusable :
       purge_completed_before(cutoff, S)
  /\ UNCHANGED <<plan, dispatch, receipts, faults>>

HostRenews(g) ==
  /\ renew(g, now + LeaseLength)
  /\ UNCHANGED <<plan, dispatch, receipts, faults>>

HostAbandons(g) ==
  /\ g.op \in Reusable
  /\ abandon(g)
  /\ UNCHANGED <<plan, dispatch, receipts, faults>>

Passes == Tick /\ UNCHANGED <<plan, dispatch, receipts, faults>>

DispatchStep(d) ==
  \/ Refuse(d) \/ Proceed(d)
  \/ \E o \in Owners : reserve_idempotent_operation(d, o)
  \/ HandlerStep(d)
  \/ complete_idempotent_operation(d)

NextDispatch ==
  \/ Passes
  \/ \E d \in Dispatches : DispatchStep(d) \/ HandlerFails(d)
                             \/ record_completion_lost(d)
  \/ \E d \in Dispatches, o \in Owners :
       ReserveAnswerLost(d, o) \/ decode_stored_response(d, o)
  \/ Retention
  \/ \E g \in grants : HostRenews(g) \/ HostAbandons(g)

(* Time passes, clients retry, and running handlers run on.                *)
DispatchSpec ==
  /\ InitDispatch /\ [][NextDispatch]_all
  /\ WF_all(Passes)
  /\ \A d \in Dispatches : WF_all(DispatchStep(d))

-----------------------------------------------------------------------------

(* A keyed request answered Ok, and a response kept for replay, stand for  *)
(* an operation every durable step of which is applied, with that content. *)
SuccessMeansApplied ==
  /\ \A d \in Dispatches :
       dispatch[d] = Answered("Ok") /\ Admitted(d).ok.reserved =>
         \A i \in 1 .. Steps : receipts[Admitted(d).ok.op][i] = ContentOf(d)
  /\ \A op \in Ops : records[op].state = "completed" =>
       \A i \in 1 .. Steps :
         receipts[op][i] = records[op].response.fingerprint

(* Two requests never run their handlers under one permit: in an           *)
(* incarnation of the key, the later of two runs fenced out the earlier.   *)
NoSharedPermit ==
  \A d, e \in Dispatches :
    /\ d # e
    /\ dispatch[d].at = "handling" /\ dispatch[e].at = "handling"
    /\ dispatch[d].lease # None
    => dispatch[d].lease # dispatch[e].lease

(* Tenants that present one key have one operation each: whatever a        *)
(* request reserves, runs under or is answered from is of a tenant its     *)
(* principal, or the grant it carries, may act for; and a replay answers   *)
(* the content asked about, unless the response was produced under an      *)
(* earlier incarnation of the key than the one on record.                  *)
OwnOperationOnly ==
  \A d \in Dispatches :
    LET mine == Entitled(Plans[plan].requests[d], Plans[plan].deployment)
        at == dispatch[d] IN
    /\ at.at = "handling" /\ at.lease # None => at.lease.op[1] \in mine
    /\ at.at = "answered" /\ at.reply = "Replay" =>
         /\ at.of.op[1] \in mine
         /\ at.of.inc = incarnation[at.of.op] =>
              at.of.fingerprint = ContentOf(d)

(* Whatever failed, a client that keeps retrying is eventually answered    *)
(* for good: a lease its owner left behind lapses and is taken over.  The  *)
(* exception is the model's: a lease beyond the bound on the clock.        *)
NeverLapses(op) ==
  records[op].state = "in_progress" /\ records[op].lease_until > MaxClock
EveryRequestConcluded ==
  <>[](\/ \A d \in Dispatches : dispatch[d].at = "answered"
       \/ \E op \in Ops : NeverLapses(op))

=============================================================================
