------------------------------ MODULE EventStores ------------------------------
(***************************************************************************)
(* The three event stores: in memory, Postgres and Stoolap                 *)
(* (crates/persistence-memory/src/persistence/event_store.rs,              *)
(* crates/persistence/src/postgres/event_store.rs,                         *)
(* crates/persistence-stoolap/src/event_sourcing/event_store.rs).          *)
(*                                                                         *)
(* A caller loads its streams, looks for the receipt of its operation,     *)
(* opens a unit of work, appends, confirms the receipt and commits; or it  *)
(* calls EventStore::append, one transaction for one append.  Every        *)
(* statement is a step.  What the databases do is external: Postgres makes *)
(* the insert of a key held by an open transaction wait, refuses a         *)
(* committed one and breaks a cycle of waits; Stoolap reads the snapshot   *)
(* taken at begin and refuses a lost race at the write or at the commit.   *)
(***************************************************************************)
EXTENDS EventPlans

CONSTANTS
  Backends,      \* the stores under consideration
  SingleWriter,  \* in memory, one caller at a time works on a stream
  PoolSize,      \* connections of the Postgres pool
  MaxFaults      \* bound on failed statements and commits

ASSUME StoresAssumption ==
  PoolSize \in Nat \ {0} /\ MaxFaults \in Nat /\ SingleWriter \in BOOLEAN

VARIABLES
  backend,
  rows,      \* the committed events: [stream, version, by]
  receipts,  \* per identity, the unit whose receipt is committed
  seen,      \* per unit, the versions it has loaded
  unit,      \* per unit, where it stands
  committed, \* history: the units whose writes are in the store
  faults

vars == <<backend, rows, receipts, seen, unit, committed, faults>>
tables == <<rows, receipts, committed>>

Log == INSTANCE EventLog WITH
  log <- [s \in Streams |->
            [v \in 1 .. Cardinality({r \in rows : r.stream = s}) |->
               IF \E r \in rows : r.stream = s /\ r.version = v
               THEN (CHOOSE r \in rows : r.stream = s /\ r.version = v).by
               ELSE "gap"]],
  read <- seen

Row(s, v, u) == [stream |-> s, version |-> v, by |-> u]
NoAnswer == [result |-> "none", expected |-> 0, actual |-> 0]
Answer(r) == [NoAnswer EXCEPT !.result = r]
NoSnapshot == [rows |-> {}, receipts |-> {}]
Closed == [pc |-> "idle", at |-> 1, base |-> 0, inserted |-> 0, staged |-> {},
           confirmed |-> {}, snapshot |-> NoSnapshot, answer |-> NoAnswer]

Ended == [Closed EXCEPT !.pc = "ended"]

(* A caller that makes no call is ended from the start.                    *)
Init ==
  /\ backend \in Backends
  /\ rows = {}
  /\ receipts = [id \in Identities |-> NoUnit]
  /\ seen = [u \in Units |-> [s \in Streams |-> 0]]
  /\ unit \in [Units -> {Closed, Ended}]
  /\ committed = {}
  /\ faults = MaxFaults

Versions(set, s) == {r.version : r \in {q \in set : q.stream = s}}
MaxVersion(set, s) == Max({0} \cup Versions(set, s))
Version(s) == MaxVersion(rows, s)

Op(u) == Plan[u].ops[unit[u].at]
AtEnd(u) == unit[u].at > Len(Plan[u].ops)
Open(u) == unit[u].pc \notin {"idle", "gate", "begin", "ended"}
Others(u) == {w \in Units \ {u} : Open(w)}
Shares(u, w) == Touched(u) \cap Touched(w) # {}
Busy(u) == unit[u].pc \notin {"idle", "ended"}

NoFault == UNCHANGED faults
Fault == backend # "memory" /\ faults > 0 /\ faults' = faults - 1

(* Mutated form of Conclude: a conflict is tried again as it was.          *)
ConcludeRetrying(u, answer) ==
  unit' = [unit EXCEPT ![u] = IF answer.result = "Conflict"
                              THEN [Closed EXCEPT !.pc = "begin"]
                              ELSE [Ended EXCEPT !.answer = answer]]
(* The call returns; dropping the transaction rolls back what it staged.   *)
Conclude(u, answer) ==
  unit' = [unit EXCEPT ![u] = [Ended EXCEPT !.answer = answer]]

ConflictAt(u, expected, actual) ==
  Conclude(u, [result |-> "Conflict", expected |-> expected, actual |-> actual])

NextOp(u, staged, confirmed) ==
  unit' = [unit EXCEPT ![u].pc = "work", ![u].at = @ + 1, ![u].inserted = 0,
                       ![u].staged = staged, ![u].confirmed = confirmed]

-----------------------------------------------------------------------------
(* Before the transaction                                                  *)

(* An open transaction keeps a connection; EventStore::append gives its    *)
(* own back before it reads again.                                         *)
InUse == Cardinality({w \in Units : Open(w) /\ ~(unit[w].pc = "reread" /\ Plan[w].alone)})

(* A query outside a transaction takes a connection and returns it.        *)
Connection == backend = "postgres" => InUse < PoolSize

(* load; NotFound is version 0.  The actor of an entity has loaded it      *)
(* before it looks for a receipt.                                          *)
Load(u) ==
  /\ unit[u].pc = "idle"
  /\ backend = "memory" /\ SingleWriter =>
       \A w \in Units \ {u} : Busy(w) => ~Shares(u, w)
  /\ Connection
  /\ seen' = [seen EXCEPT ![u] = [s \in Streams |-> Version(s)]]
  /\ unit' = [unit EXCEPT ![u].pc = "gate"]
  /\ UNCHANGED <<backend, tables, faults>>

(* find_receipt: committed receipts only.                                  *)
FindReceipt(u) ==
  LET held == {o \in ReceiptOps(u) : receipts[Identity(o)] # NoUnit} IN
  /\ unit[u].pc = "gate"
  /\ Connection
  /\ IF held = {}
     THEN unit' = [unit EXCEPT ![u].pc = "begin"]
     ELSE Conclude(u, Answer(
            IF \A o \in held :
                 PrintBy(receipts[Identity(o)], Identity(o)) = o.print
            THEN "Replayed" ELSE "OperationConflict"))
  /\ UNCHANGED <<backend, seen, tables, faults>>

Snapshot ==
  IF backend # "stoolap" THEN NoSnapshot
  ELSE [rows |-> rows,
        receipts |-> {id \in DOMAIN receipts : receipts[id] # NoUnit}]

(* Mutated form of Begin: the versions are refreshed as it opens.          *)
BeginReloading(u) ==
  /\ unit[u].pc = "begin"
  /\ Connection
  /\ unit' = [unit EXCEPT ![u].pc = "work", ![u].snapshot = Snapshot]
  /\ seen' = [seen EXCEPT ![u] = [s \in Streams |-> Version(s)]]
  /\ UNCHANGED <<backend, tables, faults>>
(* begin: a Postgres transaction takes a connection of the pool.           *)
Begin(u) ==
  /\ unit[u].pc = "begin"
  /\ Connection
  /\ unit' = [unit EXCEPT ![u].pc = "work", ![u].snapshot = Snapshot]
  /\ UNCHANGED <<backend, seen, tables, faults>>

(* The pool's acquire timeout.                                             *)
AcquireTimesOut(u) ==
  /\ unit[u].pc \in {"idle", "gate", "begin", "reread"}
  /\ ~Connection
  /\ Conclude(u, Answer("Internal"))
  /\ UNCHANGED <<backend, seen, tables, faults>>

-----------------------------------------------------------------------------
(* append                                                                  *)

(* The caller's version: what it loaded and has appended itself since.     *)
Expected(u, s) ==
  seen[u][s] + Cardinality({r \in unit[u].staged : r.stream = s})

(* SELECT MAX(version) in the transaction; in memory, committed + staged.  *)
Current(u, s) ==
  LET visible == IF backend = "stoolap" THEN unit[u].snapshot.rows ELSE rows IN
  CASE backend = "memory" ->
         Version(s) + Cardinality({r \in unit[u].staged : r.stream = s})
    [] OTHER -> MaxVersion(visible \cup unit[u].staged, s)

(* Mutated form of VersionMatches: whatever is there is appended to.       *)
VersionIgnored(u, s) == TRUE
VersionMatches(u, s) == Current(u, s) = Expected(u, s)

AppendHere(u) == unit[u].pc = "work" /\ ~AtEnd(u) /\ Op(u).op = "append"

NewRows(u, s, from) == {Row(s, from + i, u) : i \in 1 .. Op(u).count}

(* The version check; in memory the events are staged in the same step.    *)
CheckVersion(u) ==
  /\ AppendHere(u)
  /\ ~(backend = "memory" /\ Plan[u].alone)
  /\ LET s == Op(u).stream
         now == Current(u, s) IN
     IF ~VersionMatches(u, s) THEN ConflictAt(u, Expected(u, s), now)
     ELSE IF backend = "memory"
     THEN NextOp(u, unit[u].staged \cup NewRows(u, s, now), unit[u].confirmed)
     ELSE unit' = [unit EXCEPT ![u].pc = "insert", ![u].base = now]
  /\ UNCHANGED <<backend, seen, tables, faults>>

(* InMemoryEventStore::append, one critical section.                       *)
AppendInMemory(u) ==
  /\ backend = "memory" /\ Plan[u].alone
  /\ AppendHere(u)
  /\ LET s == Op(u).stream IN
     IF VersionMatches(u, s)
     THEN /\ rows' = rows \cup NewRows(u, s, Version(s))
          /\ committed' = committed \cup {u}
          /\ Conclude(u, Answer("Ok"))
     ELSE ConflictAt(u, Expected(u, s), Version(s)) /\ UNCHANGED <<rows, committed>>
  /\ UNCHANGED <<backend, seen, receipts, faults>>

Slot(u) == <<Op(u).stream, unit[u].base + unit[u].inserted + 1>>
Holds(set, slot) == \E r \in set : r.stream = slot[1] /\ r.version = slot[2]
RowWaits(u) == {w \in Others(u) : Holds(unit[w].staged, Slot(u))}

Inserted(u) ==
  LET staged == unit[u].staged \cup {Row(Slot(u)[1], Slot(u)[2], u)} IN
  IF unit[u].inserted + 1 = Op(u).count
  THEN NextOp(u, staged, unit[u].confirmed)
  ELSE unit' = [unit EXCEPT ![u].staged = staged, ![u].inserted = @ + 1]

(* One INSERT.  Postgres waits for an open transaction that holds the      *)
(* slot; a slot committed meanwhile aborts the transaction.                *)
InsertRow(u) ==
  /\ unit[u].pc = "insert"
  /\ \/ /\ backend = "postgres"
        /\ RowWaits(u) = {}
        /\ IF Holds(rows, Slot(u))
           THEN unit' = [unit EXCEPT ![u].pc = "reread",
                           ![u].staged = IF Plan[u].alone THEN {} ELSE @]
           ELSE Inserted(u)
     \/ /\ backend = "stoolap"
        /\ \/ Inserted(u)
           \/ /\ RowWaits(u) # {} \/ Holds(rows, Slot(u))
              /\ Conclude(u, Answer("Internal"))
  /\ UNCHANGED <<backend, seen, tables, faults>>

(* Mutated form of Actual: the version the check has read.                 *)
ActualAsChecked(u) == unit[u].base
Actual(u) == Version(Op(u).stream)

(* The conflict names the expected version, which the check found, and the *)
(* one read on another connection; a unit of work keeps its own meanwhile. *)
Reread(u) ==
  /\ unit[u].pc = "reread"
  /\ Connection
  /\ ConflictAt(u, unit[u].base, Actual(u))
  /\ UNCHANGED <<backend, seen, tables, faults>>

-----------------------------------------------------------------------------
(* confirm_receipt                                                         *)

ConfirmHere(u) == unit[u].pc = "work" /\ ~AtEnd(u) /\ Op(u).op = "receipt"

(* The units whose receipt the call finds: in the table, and its own.      *)
Found(u, id) ==
  LET visible == backend = "stoolap" => id \in unit[u].snapshot.receipts IN
  (IF id \in unit[u].confirmed THEN {u} ELSE {}) \cup
  (IF visible THEN {receipts[id]} \ {NoUnit} ELSE {})

ReceiptWaits(u) == {w \in Others(u) : Identity(Op(u)) \in unit[w].confirmed}

(* reconcile: the key is free or held by the same request.                 *)
Reconciled(u, id) == \A w \in Found(u, id) : PrintBy(w, id) = Op(u).print

(* Postgres inserts unless the row exists and then compares; Stoolap and   *)
(* memory look first.  In memory the receipt is staged again in any case.  *)
ConfirmReceipt(u) ==
  LET id == IF ConfirmHere(u) THEN Identity(Op(u)) ELSE << >> IN
  /\ ConfirmHere(u)
  /\ backend = "postgres" => ReceiptWaits(u) = {}
  /\ IF ~Reconciled(u, id) THEN Conclude(u, Answer("OperationConflict"))
     ELSE \/ NextOp(u, unit[u].staged,
                    IF Found(u, id) = {} \/ backend = "memory"
                    THEN unit[u].confirmed \cup {id} ELSE unit[u].confirmed)
          \/ /\ backend = "stoolap"
             /\ Found(u, id) = {}
             /\ ReceiptWaits(u) # {} \/ receipts[id] # NoUnit
             /\ Conclude(u, Answer("Internal"))
  /\ UNCHANGED <<backend, seen, tables, faults>>

-----------------------------------------------------------------------------
(* commit                                                                  *)

Lost(u) ==
  /\ backend = "stoolap"
  /\ \/ \E r \in unit[u].staged : Holds(rows, <<r.stream, r.version>>)
     \/ \E id \in unit[u].confirmed : receipts[id] # NoUnit

(* In memory the staged events extend the streams as they are now.         *)
Placed(u) ==
  IF backend # "memory" THEN unit[u].staged
  ELSE {[r EXCEPT !.version =
           Version(r.stream) +
             Cardinality({q \in unit[u].staged : q.stream = r.stream /\
                                                 q.version <= r.version})] :
        r \in unit[u].staged}

Publish(u) ==
  /\ rows' = rows \cup Placed(u)
  /\ receipts' = [id \in DOMAIN receipts |->
                    IF id \in unit[u].confirmed THEN u ELSE receipts[id]]
  /\ committed' = committed \cup {u}

(* Stoolap's append reads the version again to report a lost race.         *)
RaceLost(u) ==
  LET s == Plan[u].ops[1].stream IN ConflictAt(u, seen[u][s], Version(s))

(* A lost race is a Conflict of append, and an Internal error of a unit of *)
(* work.                                                                   *)
Commit(u) ==
  /\ unit[u].pc = "work" /\ AtEnd(u)
  /\ IF ~Lost(u) THEN Publish(u) /\ Conclude(u, Answer("Ok"))
     ELSE /\ UNCHANGED tables
          /\ IF Plan[u].alone THEN RaceLost(u) ELSE Conclude(u, Answer("Internal"))
  /\ UNCHANGED <<backend, seen, faults>>

(* The commit fails, before or after it took effect.  Stoolap's append     *)
(* takes a locked database and an aborted transaction for a lost race.     *)
CommitFails(u) ==
  /\ unit[u].pc = "work" /\ AtEnd(u)
  /\ Fault
  /\ \/ /\ UNCHANGED tables \/ (~Lost(u) /\ Publish(u))
        /\ Conclude(u, Answer("Internal"))
     \/ /\ backend = "stoolap" /\ Plan[u].alone
        /\ RaceLost(u)
        /\ UNCHANGED tables
  /\ UNCHANGED <<backend, seen>>

StatementFails(u) ==
  /\ unit[u].pc \in {"idle", "gate", "begin", "work", "insert", "reread"}
  /\ Fault
  /\ Conclude(u, Answer("Internal"))
  /\ UNCHANGED <<backend, seen, tables>>

(* The caller returns early or is cancelled.  A commit that was sent may   *)
(* take effect nevertheless: Stoolap's, and its whole append, run on.      *)
DropUnit(u) ==
  /\ unit[u].pc \in {"work", "insert", "reread"}
  /\ \/ /\ backend = "stoolap" /\ Plan[u].alone => AtEnd(u)
        /\ UNCHANGED tables
     \/ /\ backend # "memory"
        /\ unit[u].pc = "work" /\ AtEnd(u)
        /\ ~Lost(u)
        /\ Publish(u)
  /\ Conclude(u, Answer("Dropped"))
  /\ UNCHANGED <<backend, seen, faults>>

-----------------------------------------------------------------------------
(* Lock waits of Postgres (external)                                       *)

Waits(u) ==
  IF backend # "postgres" THEN {}
  ELSE IF unit[u].pc = "insert" THEN RowWaits(u)
  ELSE IF ConfirmHere(u) THEN ReceiptWaits(u) ELSE {}

Deadlocked(u) ==
  \E S \in SUBSET Units :
    /\ u \in S
    /\ \A w \in S : Waits(w) \cap S # {}
    /\ \A w \in S : \E x \in S : w \in Waits(x)

DeadlockVictim(u) ==
  /\ Waits(u) # {}
  /\ Deadlocked(u)
  /\ Conclude(u, Answer("Internal"))
  /\ UNCHANGED <<backend, seen, tables, faults>>

-----------------------------------------------------------------------------
Step(u) ==
  \/ FindReceipt(u) \/ Begin(u) \/ AcquireTimesOut(u)
  \/ CheckVersion(u) \/ AppendInMemory(u) \/ InsertRow(u) \/ Reread(u)
  \/ ConfirmReceipt(u) \/ Commit(u) \/ DeadlockVictim(u)

Over ==
  /\ \A u \in Units : unit[u].pc = "ended"
  /\ UNCHANGED vars

Next ==
  \/ \E u \in Units : Load(u) \/ Step(u)
                      \/ CommitFails(u) \/ StatementFails(u) \/ DropUnit(u)
  \/ Over

Spec == Init /\ [][Next]_vars

(* Some caller that can go on does; which one is not said.                 *)
Fairness == WF_vars(\E u \in Units : Step(u))
FairSpec == Spec /\ Fairness

-----------------------------------------------------------------------------
(* Properties                                                              *)

(* Every store implements the log: the rows and receipts of a unit of work *)
(* appear together, on streams that have not moved since it loaded them,   *)
(* with versions that neither skip nor repeat, or not at all.              *)
ImplementsLog == Log!Spec

(* An operation key takes effect on a stream once, however its requests    *)
(* race between the receipt lookup and the commit.                         *)
OncePerKey ==
  \A u, w \in committed :
    u # w => \A o \in ReceiptOps(u) :
               (Count(u, o.stream) > 0 /\ Count(w, o.stream) > 0) =>
                 Identity(o) \notin {Identity(q) : q \in ReceiptOps(w)}

(* An answer says what happened: Ok means the writes are in the store, a   *)
(* conflict or a replay means they are not, and a version conflict names a *)
(* version other than the one expected, unless Stoolap's engine failed the *)
(* commit for another reason than a race (is_write_conflict).  An Internal *)
(* error and a cancelled call leave the caller without knowing.            *)
AnswersAreTrue ==
  \A u \in Units :
    LET a == unit[u].answer IN
    /\ a.result = "Ok" => u \in committed
    /\ a.result \in {"Conflict", "OperationConflict", "Replayed"} => u \notin committed
    /\ a.result = "Conflict" /\ (backend = "stoolap" => faults = MaxFaults) =>
         a.actual # a.expected

(* Every caller gets its answer: neither the locks nor the pool of         *)
(* connections leaves one waiting for good.  There are finitely many.      *)
CallersAreAnswered == []<>(\A u \in Units : ~Busy(u))

=============================================================================
