------------------------- MODULE ReservationContract -------------------------
(***************************************************************************)
(* What the port OperationReservationStore promises, whatever store is     *)
(* behind it (crates/persistence-api/src/operation/reservation.rs).        *)
(*                                                                         *)
(* A reservation is keyed by an operation.  Every owner process reads its  *)
(* own clock, so clocks may drift apart.  A lease that lapsed on the       *)
(* taker's clock may be taken over with a greater fencing token.           *)
(*                                                                         *)
(* Two history variables record what no store keeps: `incarnation` counts  *)
(* how often a key was reserved afresh, `grants` holds every lease ever    *)
(* handed out.  A holder may present its fence at any later time, so the   *)
(* mutators quantify over all grants ever made.  A stored response is      *)
(* abstracted to the grant whose execution produced it.                    *)
(*                                                                         *)
(* A mutator rejects a lease that has expired, judged by the holder's      *)
(* clock when the call was made or at any time since: `asked` holds the    *)
(* calls under way with the time each was made.                            *)
(***************************************************************************)
EXTENDS ReservationState

VARIABLE asked  \* mutator calls under way

vars == <<clock, records, incarnation, grants, asked>>

Tokens == 1 .. MaxToken
Incarnations == 0 .. MaxIncarnation

Grant == [op: Ops, owner: Owners, token: Tokens,
          inc: Incarnations, fingerprint: Fingerprints]

Request == [fence: Grant, at: Nat]

Absent == [state |-> "absent"]

InProgress(o, f, token, until) ==
  [state |-> "in_progress", fingerprint |-> f, owner_id |-> o,
   fencing_token |-> token, lease_until |-> until]

Completed(f, response, at) ==
  [state |-> "completed", fingerprint |-> f,
   response |-> response, completed_at |-> at]

InProgressRecord ==
  [state: {"in_progress"}, fingerprint: Fingerprints, owner_id: Owners,
   fencing_token: Tokens, lease_until: Nat]

CompletedRecord ==
  [state: {"completed"}, fingerprint: Fingerprints,
   response: Grant, completed_at: Nat]

(* The lease bounds a request of o may carry: computed from o's clock when *)
(* the request was made, which may be long before the store acts on it.    *)
LeaseBounds(o) == LeaseLength .. clock[o] + LeaseLength

Init ==
  /\ clock = [o \in Owners |-> 0]
  /\ records = [op \in Ops |-> Absent]
  /\ incarnation = [op \in Ops |-> 0]
  /\ grants = {}
  /\ asked = {}

-----------------------------------------------------------------------------

Tick ==
  /\ clock' \in [Owners -> 0 .. MaxClock]
  /\ \A o \in Owners : clock'[o] >= clock[o]
  /\ UNCHANGED <<records, incarnation, grants, asked>>

Fresh(op, o, f, until) ==
  /\ records[op].state = "absent"
  /\ incarnation[op] < MaxIncarnation
  /\ records' = [records EXCEPT ![op] = InProgress(o, f, 1, until)]
  /\ incarnation' = [incarnation EXCEPT ![op] = @ + 1]
  /\ grants' = grants \cup
       {[op |-> op, owner |-> o, token |-> 1,
         inc |-> incarnation[op] + 1, fingerprint |-> f]}
  /\ UNCHANGED <<clock, asked>>

(* Hands the reservation of op to o under the given token, and records the *)
(* lease.                                                                  *)
Seize(op, o, f, until, token) ==
  /\ records' = [records EXCEPT ![op] = InProgress(o, f, token, until)]
  /\ grants' = grants \cup
       {[op |-> op, owner |-> o, token |-> token,
         inc |-> incarnation[op], fingerprint |-> f]}
  /\ UNCHANGED <<clock, incarnation, asked>>

Lapsed(op, o) ==
  /\ records[op].state = "in_progress"
  /\ records[op].lease_until <= clock[o]

TakeOver(op, o, f, until) ==
  /\ Lapsed(op, o)
  /\ records[op].fingerprint = f
  /\ records[op].fencing_token < MaxToken
  /\ Seize(op, o, f, until, records[op].fencing_token + 1)

(* The fence triple of grant g: operation, owner and token.  The           *)
(* incarnation is not part of it.                                          *)
FenceMatches(g) ==
  /\ records[g.op].state = "in_progress"
  /\ records[g.op].owner_id = g.owner
  /\ records[g.op].fencing_token = g.token

(* A mutator call of g's holder begins; any call under way may end.        *)
Ask(g) ==
  /\ asked' = asked \cup {[fence |-> g, at |-> clock[g.owner]]}
  /\ UNCHANGED <<clock, records, incarnation, grants>>

Answer ==
  /\ asked' \in SUBSET asked
  /\ UNCHANGED <<clock, records, incarnation, grants>>

(* The readings of the holder's clock that a call may judge the lease by.  *)
Readings(g) ==
  {clock[g.owner]} \cup {r.at : r \in {q \in asked : q.fence = g}}

(* The full fence matches and the lease has not expired.                   *)
Owned(g, at) ==
  /\ FenceMatches(g)
  /\ records[g.op].lease_until > at

Mutate(g, record) ==
  /\ records' = [records EXCEPT ![g.op] = record]
  /\ asked' \in SUBSET asked
  /\ UNCHANGED <<clock, incarnation, grants>>

Renew(g, at, until) ==
  /\ Owned(g, at)
  /\ Mutate(g, [records[g.op] EXCEPT !.lease_until = until])

Complete(g, at) ==
  /\ Owned(g, at)
  /\ Mutate(g, Completed(records[g.op].fingerprint, g, at))

Abandon(g, at) ==
  /\ Owned(g, at)
  /\ Mutate(g, Absent)

PurgeEligible(o, op) ==
  /\ records[op].state = "completed"
  /\ records[op].completed_at + RetentionWindow < clock[o]

Purge(S) ==
  /\ \E o \in Owners : \A op \in S : PurgeEligible(o, op)
  /\ records' = [op \in Ops |-> IF op \in S THEN Absent ELSE records[op]]
  /\ UNCHANGED <<clock, incarnation, grants, asked>>

Next ==
  \/ Tick
  \/ \E op \in Ops, o \in Owners, f \in Fingerprints :
       \E until \in LeaseBounds(o) :
         Fresh(op, o, f, until) \/ TakeOver(op, o, f, until)
  \/ Answer
  \/ \E g \in grants :
       \/ Ask(g)
       \/ \E at \in Readings(g) :
            \/ \E until \in LeaseBounds(g.owner) : Renew(g, at, until)
            \/ Complete(g, at) \/ Abandon(g, at)
  \/ \E S \in SUBSET Ops : Purge(S)

Spec == Init /\ [][Next]_vars

-----------------------------------------------------------------------------

(* The variables keep their shape: a key is absent, held or completed.     *)
TypeOK ==
  /\ clock \in [Owners -> Nat]
  /\ records \in [Ops -> {Absent} \cup InProgressRecord \cup CompletedRecord]
  /\ incarnation \in [Ops -> Incarnations]
  /\ grants \subseteq Grant
  /\ asked \subseteq Request

(* The fence a reservation carries was handed to its owner, for this very  *)
(* incarnation and this very request content.                              *)
HolderWasGranted ==
  \A op \in Ops :
    LET r == records[op] IN
    r.state = "in_progress" =>
      [op |-> op, owner |-> r.owner_id, token |-> r.fencing_token,
       inc |-> incarnation[op], fingerprint |-> r.fingerprint] \in grants

(* Tokens grow: no lease of the current incarnation carries a greater      *)
(* token than the reservation does, and none carries a later incarnation.  *)
HolderIsNewest ==
  \A g \in grants :
    LET r == records[g.op] IN
    /\ g.inc <= incarnation[g.op]
    /\ g.inc = incarnation[g.op] /\ r.state = "in_progress" =>
         g.token <= r.fencing_token

(* Fencing: within one incarnation a token names one lease.  A takeover    *)
(* that reused a token would give two processes the same fence.            *)
FenceIsUnique ==
  \A g, h \in grants :
    g.op = h.op /\ g.inc = h.inc /\ g.token = h.token => g = h

(* A takeover never changes what was asked: all leases of an incarnation,  *)
(* and the record itself, carry one fingerprint.                           *)
OneRequestPerIncarnation ==
  \A g \in grants :
    LET r == records[g.op] IN
    g.inc = incarnation[g.op] /\ r.state # "absent" =>
      g.fingerprint = r.fingerprint

(* A key leaves "completed" only by a purge that found it old enough, and  *)
(* until then the stored response never changes.                           *)
CompletedIsStable ==
  [][\A op \in Ops :
       records[op].state = "completed" /\ records'[op] # records[op] =>
         /\ records'[op] = Absent
         /\ \E o \in Owners : PurgeEligible(o, op)]_vars

=============================================================================
