------------------------------- MODULE EventLog -------------------------------
(***************************************************************************)
(* What an event store promises its callers (crates/persistence-api/src/   *)
(* persistence/event_store.rs): a unit of work reads the versions of its   *)
(* streams and later takes effect as a whole, at one instant, provided     *)
(* those streams have not moved and every operation key it confirms is     *)
(* free or held by the same request; otherwise it leaves no trace.         *)
(***************************************************************************)
EXTENDS EventPlans

VARIABLES
  log,      \* per stream, the unit that wrote each event
  receipts, \* per stream and key confirmed, the unit that wrote the receipt
  read,     \* per unit, the versions it has loaded
  committed

vars == <<log, receipts, read, committed>>

Init ==
  /\ log = [s \in Streams |-> << >>]
  /\ receipts = [id \in Identities |-> NoUnit]
  /\ read = [u \in Units |-> [s \in Streams |-> 0]]
  /\ committed = {}

Load(u) ==
  /\ u \notin committed
  /\ read' = [read EXCEPT ![u] = [s \in Streams |-> Len(log[s])]]
  /\ UNCHANGED <<log, receipts, committed>>

Commit(u) ==
  /\ u \notin committed
  /\ committed' = committed \cup {u}
  /\ \A s \in Streams : Count(u, s) > 0 => read[u][s] = Len(log[s])
  /\ \A o \in ReceiptOps(u) :
       LET by == receipts[Identity(o)] IN
       by = NoUnit \/ PrintBy(by, Identity(o)) = o.print
  /\ log' = [s \in Streams |-> log[s] \o [i \in 1 .. Count(u, s) |-> u]]
  /\ receipts' = [id \in Identities |->
       IF receipts[id] = NoUnit /\ \E o \in ReceiptOps(u) : Identity(o) = id
       THEN u ELSE receipts[id]]
  /\ UNCHANGED read

Next == \E u \in Units : Load(u) \/ Commit(u)
Spec == Init /\ [][Next]_vars
=============================================================================
