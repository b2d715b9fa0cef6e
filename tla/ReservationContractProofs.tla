---------------------- MODULE ReservationContractProofs ----------------------
(***************************************************************************)
(* Proofs about the reservation contract, for every set of operations,     *)
(* owners and fingerprints and every value of the bounds.                  *)
(*                                                                         *)
(* The invariants TLC checks are inductive only together: a fresh grant is *)
(* new because no grant has a later incarnation, a takeover's grant is new *)
(* because no grant of the incarnation has a greater token, and the        *)
(* published response is the newest lease's because the holder is.         *)
(***************************************************************************)
EXTENDS ReservationContract, TLAPS

(* The conjunction the induction carries.                                  *)
IInv ==
  /\ TypeOK
  /\ HolderWasGranted
  /\ HolderIsNewest
  /\ FenceIsUnique
  /\ OneRequestPerIncarnation
  /\ DisplacedNeverPublishes

(* The records the actions build have the shape the invariant names.       *)
LEMMA RecordShapes ==
  /\ \A o \in Owners, f \in Fingerprints, token \in Tokens, until \in Nat :
       InProgress(o, f, token, until) \in InProgressRecord
  /\ \A f \in Fingerprints, g \in Grant, at \in Nat :
       Completed(f, g, at) \in CompletedRecord
BY Zenon DEF InProgress, Completed, InProgressRecord, CompletedRecord

(* The state field tells the three shapes apart.                           *)
LEMMA StateTells ==
  ASSUME TypeOK, NEW op \in Ops
  PROVE  /\ records[op].state = "absent" => records[op] = Absent
         /\ records[op].state = "in_progress" =>
              records[op] \in InProgressRecord
         /\ records[op].state = "completed" =>
              records[op] \in CompletedRecord
         /\ records[op].state \in {"absent", "in_progress", "completed"}
BY DEF TypeOK, Absent, InProgressRecord, CompletedRecord

(* Lease bounds are natural numbers.                                       *)
LEMMA LeaseBoundsNat ==
  ASSUME TypeOK, NEW o \in Owners
  PROVE  LeaseBounds(o) \subseteq Nat
BY LeaseAssumption DEF LeaseBounds, TypeOK

(* The initial state satisfies the invariant.                              *)
LEMMA InitIInv == Init => IInv
<1> SUFFICES ASSUME Init PROVE IInv
    BY Zenon
<1>1. TypeOK
  BY BoundAssumption DEF Init, TypeOK, Incarnations
<1>2. \A op \in Ops : records[op].state = "absent"
  BY Zenon DEF Init, Absent
<1>3. QED
  BY <1>1, <1>2, Zenon DEF Init, IInv, HolderWasGranted, HolderIsNewest,
     FenceIsUnique, OneRequestPerIncarnation, DisplacedNeverPublishes

(* Advancing the clocks disturbs nothing.                                  *)
LEMMA TickIInv == IInv /\ Tick => IInv'
BY BoundAssumption
   DEF Tick, IInv, TypeOK, HolderWasGranted, HolderIsNewest, FenceIsUnique,
       OneRequestPerIncarnation, DisplacedNeverPublishes

(* Nor do mutator calls that begin or end.                                 *)
LEMMA AskIInv ==
  ASSUME IInv, asked' \subseteq Request,
         UNCHANGED <<clock, records, incarnation, grants>>
  PROVE  IInv'
BY ZenonT(40) DEF IInv, TypeOK, HolderWasGranted, HolderIsNewest, FenceIsUnique,
   OneRequestPerIncarnation, DisplacedNeverPublishes

(* The readings a lease is judged by are natural numbers.                  *)
LEMMA ReadingsNat ==
  ASSUME TypeOK, NEW g \in grants
  PROVE  Readings(g) \subseteq Nat
BY Zenon DEF Readings, TypeOK, Grant, Request

(* A fresh reservation starts an incarnation no earlier grant belongs to.  *)
LEMMA FreshIInv ==
  ASSUME IInv, NEW op \in Ops, NEW o \in Owners, NEW f \in Fingerprints,
         NEW until \in LeaseBounds(o), Fresh(op, o, f, until)
  PROVE  IInv'
<1> DEFINE new == [op |-> op, owner |-> o, token |-> 1,
                   inc |-> incarnation[op] + 1, fingerprint |-> f]
<1>1. /\ new \in Grant
      /\ 1 \in Tokens
      /\ until \in Nat
      /\ incarnation[op] \in Nat
      /\ incarnation[op] + 1 \in Incarnations
  BY TokenAssumption, BoundAssumption, LeaseBoundsNat
     DEF IInv, TypeOK, Fresh, Grant, Tokens, Incarnations
<1>2. InProgress(o, f, 1, until) \in InProgressRecord
  BY <1>1, RecordShapes, Zenon
<1>3. TypeOK'
  BY <1>1, <1>2, Zenon DEF IInv, TypeOK, Fresh
<1>4. \A g \in grants : g.op = op => g.inc < new.inc
  BY <1>1 DEF IInv, TypeOK, HolderIsNewest, Grant, Incarnations
<1>5. HolderWasGranted'
  BY Zenon DEF IInv, TypeOK, HolderWasGranted, Fresh, InProgress
<1>6. HolderIsNewest'
  BY <1>1, <1>4 DEF IInv, TypeOK, HolderIsNewest, Fresh, InProgress, Grant,
     Incarnations
<1>7. FenceIsUnique'
  BY <1>1, <1>4 DEF IInv, TypeOK, FenceIsUnique, Fresh, Grant, Incarnations
<1>8. OneRequestPerIncarnation'
  BY <1>1, <1>4 DEF IInv, TypeOK, OneRequestPerIncarnation, Fresh, InProgress,
     Grant, Incarnations
<1>9. DisplacedNeverPublishes'
  BY <1>1, <1>4 DEF IInv, TypeOK, DisplacedNeverPublishes, Fresh, InProgress,
     Grant, Incarnations
<1>10. QED
  BY <1>3, <1>5, <1>6, <1>7, <1>8, <1>9, Zenon DEF IInv

(* A takeover's token is greater than every token of the incarnation.      *)
LEMMA TakeOverIInv ==
  ASSUME IInv, NEW op \in Ops, NEW o \in Owners, NEW f \in Fingerprints,
         NEW until \in LeaseBounds(o), TakeOver(op, o, f, until)
  PROVE  IInv'
<1> DEFINE token == records[op].fencing_token + 1
           new == [op |-> op, owner |-> o, token |-> token,
                   inc |-> incarnation[op], fingerprint |-> f]
<1>0. records[op] \in InProgressRecord
  BY StateTells, Zenon DEF IInv, TakeOver, Lapsed
<1>1. /\ token \in Tokens
      /\ until \in Nat
      /\ new \in Grant
      /\ records[op].fencing_token \in Nat
  BY <1>0, TokenAssumption, LeaseBoundsNat
     DEF IInv, TypeOK, TakeOver, Grant, Tokens, InProgressRecord
<1>2. InProgress(o, f, token, until) \in InProgressRecord
  BY <1>1, RecordShapes, Zenon
<1>a. /\ records' = [records EXCEPT ![op] = InProgress(o, f, token, until)]
      /\ grants' = grants \cup {new}
      /\ clock' = clock /\ incarnation' = incarnation /\ asked' = asked
      /\ records[op].state = "in_progress"
      /\ records[op].fingerprint = f
  BY Zenon DEF TakeOver, Lapsed, Seize
<1>3. TypeOK'
  BY <1>1, <1>2, <1>a, Zenon DEF IInv, TypeOK
<1>4. \A g \in grants : g.op = op /\ g.inc = new.inc => g.token < token
  BY <1>1, <1>a DEF IInv, TypeOK, HolderIsNewest, Grant, Tokens
<1>5. HolderWasGranted'
  BY <1>a, Zenon DEF IInv, TypeOK, HolderWasGranted, InProgress
<1>6. HolderIsNewest'
  BY <1>1, <1>4, <1>a DEF IInv, TypeOK, HolderIsNewest, InProgress, Grant,
     Incarnations, Tokens
<1>7. FenceIsUnique'
  BY <1>1, <1>4, <1>a DEF IInv, TypeOK, FenceIsUnique, Grant, Tokens
<1>8. OneRequestPerIncarnation'
  BY <1>a DEF IInv, TypeOK, OneRequestPerIncarnation, InProgress, Grant
<1>9. DisplacedNeverPublishes'
  BY <1>a DEF IInv, TypeOK, DisplacedNeverPublishes, InProgress, Grant
<1>10. QED
  BY <1>3, <1>5, <1>6, <1>7, <1>8, <1>9, Zenon DEF IInv

(* A matching fence belongs to a held record of the fence's operation.     *)
LEMMA FenceHolds ==
  ASSUME TypeOK, NEW g \in grants, FenceMatches(g)
  PROVE  /\ g \in Grant
         /\ g.op \in Ops
         /\ records[g.op] \in InProgressRecord
         /\ records[g.op].state = "in_progress"
         /\ records[g.op].fencing_token = g.token
BY StateTells, Zenon DEF FenceMatches, TypeOK, Grant

(* Renewing moves only the lease bound.                                    *)
LEMMA RenewIInv ==
  ASSUME IInv, NEW g \in grants, NEW until \in LeaseBounds(g.owner),
         NEW at, Renew(g, at, until)
  PROVE  IInv'
<1>1. /\ g \in Grant /\ g.op \in Ops
      /\ records[g.op] \in InProgressRecord
  BY FenceHolds, Zenon DEF IInv, Renew, Owned
<1>2. until \in Nat
  BY <1>1, LeaseBoundsNat, Zenon DEF IInv, Grant
<1>3. TypeOK'
  BY <1>1, <1>2, Zenon DEF IInv, TypeOK, Renew, Mutate, InProgressRecord
<1>4. \A op \in Ops : /\ records'[op].state = records[op].state
                      /\ records[op].state = "in_progress" =>
                           /\ records'[op].owner_id = records[op].owner_id
                           /\ records'[op].fencing_token =
                                records[op].fencing_token
                      /\ records'[op].fingerprint = records[op].fingerprint
                      /\ records[op].state = "completed" =>
                           records'[op] = records[op]
  BY <1>1, Zenon DEF IInv, TypeOK, Renew, Mutate, InProgressRecord, Owned, FenceMatches
<1>5. HolderWasGranted'
  BY <1>4 DEF IInv, HolderWasGranted, Renew, Mutate
<1>6. HolderIsNewest'
  BY <1>4 DEF IInv, TypeOK, Grant, HolderIsNewest, Renew, Mutate
<1>7. FenceIsUnique' /\ OneRequestPerIncarnation' /\ DisplacedNeverPublishes'
  BY <1>4 DEF IInv, TypeOK, Grant, FenceIsUnique, OneRequestPerIncarnation,
     DisplacedNeverPublishes, Renew, Mutate
<1>8. QED
  BY <1>3, <1>5, <1>6, <1>7, Zenon DEF IInv

(* The lease that completes is the holder's, the newest of its incarnation. *)
LEMMA CompleteIInv ==
  ASSUME IInv, NEW g \in grants, NEW at \in Nat, Complete(g, at)
  PROVE  IInv'
<1>1. /\ g \in Grant /\ g.op \in Ops
      /\ records[g.op] \in InProgressRecord
      /\ records[g.op].state = "in_progress"
      /\ records[g.op].fencing_token = g.token
  BY FenceHolds, Zenon DEF IInv, Complete, Owned
<1>2. Completed(records[g.op].fingerprint, g, at) \in CompletedRecord
  BY <1>1, RecordShapes DEF InProgressRecord
<1>3. TypeOK'
  BY <1>1, <1>2, Zenon DEF IInv, TypeOK, Complete, Mutate
<1>4. /\ records'[g.op].state = "completed"
      /\ records'[g.op].fingerprint = records[g.op].fingerprint
      /\ records'[g.op].response = g
      /\ \A op \in Ops : op # g.op => records'[op] = records[op]
  BY <1>1, Zenon DEF IInv, TypeOK, Complete, Mutate, Completed
<1>5. HolderWasGranted' /\ FenceIsUnique'
  BY <1>1, <1>4 DEF IInv, HolderWasGranted, FenceIsUnique, Complete, Mutate
<1>6. HolderIsNewest'
  BY <1>1, <1>4, Zenon DEF IInv, TypeOK, Grant, HolderIsNewest, Complete, Mutate
<1>7. OneRequestPerIncarnation'
  BY <1>1, <1>4 DEF IInv, TypeOK, Grant, OneRequestPerIncarnation, Complete,
     Mutate
<1>8. DisplacedNeverPublishes'
  BY <1>1, <1>4 DEF IInv, TypeOK, Grant, DisplacedNeverPublishes,
     HolderIsNewest, Complete, Mutate
<1>9. QED
  BY <1>3, <1>5, <1>6, <1>7, <1>8, Zenon DEF IInv

(* Freed keys keep their incarnation and all grants.                       *)
LEMMA FreedIInv ==
  ASSUME IInv, NEW S \in SUBSET Ops,
         records' = [op \in Ops |-> IF op \in S THEN Absent ELSE records[op]],
         asked' \subseteq asked, UNCHANGED <<clock, incarnation, grants>>
  PROVE  IInv'
<1>1. TypeOK'
  BY Zenon DEF IInv, TypeOK
<1>2. \A op \in Ops : \/ records'[op].state = "absent"
                      \/ records'[op] = records[op]
  BY Zenon DEF Absent
<1>3. HolderWasGranted' /\ FenceIsUnique'
  BY <1>2, Zenon DEF IInv, HolderWasGranted, FenceIsUnique
<1>4. HolderIsNewest' /\ OneRequestPerIncarnation' /\ DisplacedNeverPublishes'
  BY <1>2 DEF IInv, TypeOK, Grant, HolderIsNewest, OneRequestPerIncarnation,
     DisplacedNeverPublishes
<1>5. QED
  BY <1>1, <1>3, <1>4, Zenon DEF IInv

(* Every step keeps the invariant.                                         *)
LEMMA NextIInv == IInv /\ [Next]_vars => IInv'
<1> SUFFICES ASSUME IInv, [Next]_vars PROVE IInv'
    BY Zenon
<1>1. CASE Tick
  BY <1>1, TickIInv, Zenon
<1>2. CASE \E op \in Ops, o \in Owners, f \in Fingerprints :
             \E until \in LeaseBounds(o) :
               Fresh(op, o, f, until) \/ TakeOver(op, o, f, until)
  BY <1>2, FreshIInv, TakeOverIInv, Zenon
<1>3. CASE Answer
  BY <1>3, AskIInv, Zenon DEF Answer, IInv, TypeOK
<1>4. ASSUME NEW g \in grants, Ask(g)
      PROVE  IInv'
  <2>1. [fence |-> g, at |-> clock[g.owner]] \in Request
    BY Zenon DEF IInv, TypeOK, Request, Grant
  <2>2. QED
    BY <1>4, <2>1, AskIInv, Zenon DEF Ask, IInv, TypeOK
<1>5. ASSUME NEW g \in grants, NEW at \in Readings(g),
             \/ \E until \in LeaseBounds(g.owner) : Renew(g, at, until)
             \/ Complete(g, at) \/ Abandon(g, at)
      PROVE  IInv'
  <2>1. at \in Nat
    BY ReadingsNat, Zenon DEF IInv
  <2>2. CASE \E until \in LeaseBounds(g.owner) : Renew(g, at, until)
    BY <2>2, RenewIInv, Zenon
  <2>3. CASE Complete(g, at)
    BY <2>1, <2>3, CompleteIInv, Zenon
  <2>4. CASE Abandon(g, at)
    <3>1. g.op \in Ops
      BY <2>4, FenceHolds, Zenon DEF IInv, Abandon, Owned
    <3>2. records' = [op \in Ops |-> IF op \in {g.op} THEN Absent
                                                      ELSE records[op]]
      BY <2>4, Zenon DEF Abandon, Mutate, IInv, TypeOK
    <3>3. QED
      BY <2>4, <3>1, <3>2, FreedIInv, ZenonT(40) DEF Abandon, Mutate
  <2>5. QED
    BY <1>5, <2>2, <2>3, <2>4, Zenon
<1>6. CASE \E S \in SUBSET Ops : Purge(S)
  BY <1>6, FreedIInv, Zenon DEF Purge
<1>7. CASE UNCHANGED vars
  BY <1>7, ZenonT(40) DEF vars, IInv, TypeOK, HolderWasGranted, HolderIsNewest,
     FenceIsUnique, OneRequestPerIncarnation, DisplacedNeverPublishes
<1>8. QED
  BY <1>1, <1>2, <1>3, <1>4, <1>5, <1>6, <1>7, Zenon DEF Next

(* The contract's invariants hold in every reachable state.                *)
THEOREM ContractInvariant == Spec => []IInv
BY InitIInv, NextIInv, PTL DEF Spec

(* Every reachable state is well formed: a key is absent, held under a     *)
(* token of the type's range, or completed with a granted response.        *)
THEOREM ContractTypeCorrect == Spec => []TypeOK
BY ContractInvariant, PTL DEF IInv

(* FencingToken's purpose: within one incarnation of a key a fence names   *)
(* one lease, whatever the interleaving of reserves, takeovers, renewals,  *)
(* completions, releases and purges, and however far the clocks drift.     *)
THEOREM FencingIsUnique == Spec => []FenceIsUnique
BY ContractInvariant, PTL DEF IInv

(* A response kept for replay was produced under a lease that no takeover  *)
(* of the same incarnation displaced.                                      *)
THEOREM FencedOutNeverPublishes == Spec => []DisplacedNeverPublishes
BY ContractInvariant, PTL DEF IInv

(* A completed reservation changes only by a purge that found it older     *)
(* than the retention window on the purging process's clock.               *)
THEOREM CompletedStays == Spec => CompletedIsStable
<1> DEFINE Stable == \A op \in Ops :
             records[op].state = "completed" /\ records'[op] # records[op] =>
               /\ records'[op] = Absent
               /\ \E o \in Owners : PurgeEligible(o, op)
<1>1. IInv /\ [Next]_vars => [Stable]_vars
  <2> SUFFICES ASSUME IInv, Next, NEW op \in Ops,
                      records[op].state = "completed",
                      records'[op] # records[op]
               PROVE  /\ records'[op] = Absent
                      /\ \E o \in Owners : PurgeEligible(o, op)
    BY Zenon DEF vars
  <2>1. ASSUME NEW g \in grants, FenceMatches(g)
        PROVE  g.op # op
    BY <2>1, Zenon DEF FenceMatches
  <2>2. ~Tick /\ ~Answer /\ \A g \in grants : ~Ask(g)
    BY Zenon DEF Tick, Answer, Ask
  <2>3. ASSUME NEW other \in Ops, NEW o \in Owners, NEW f \in Fingerprints,
               NEW until \in LeaseBounds(o)
        PROVE  ~Fresh(other, o, f, until) /\ ~TakeOver(other, o, f, until)
    BY Zenon DEF Fresh, TakeOver, Lapsed, Seize, IInv, TypeOK
  <2>4. ASSUME NEW g \in grants, NEW at, NEW until
        PROVE  ~Renew(g, at, until) /\ ~Complete(g, at) /\ ~Abandon(g, at)
    <3>1. ASSUME FenceMatches(g), NEW r,
                 records' = [records EXCEPT ![g.op] = r]
          PROVE  FALSE
      BY <2>1, <3>1, Zenon DEF IInv, TypeOK
    <3>2. QED
      BY <3>1, Zenon DEF Renew, Complete, Abandon, Owned, Mutate
  <2>5. \E S \in SUBSET Ops : Purge(S)
    BY <2>2, <2>3, <2>4, Zenon DEF Next
  <2>6. QED
    BY <2>5, Zenon DEF Purge
<1>2. QED
  BY <1>1, ContractInvariant, PTL DEF Spec, CompletedIsStable
=============================================================================
