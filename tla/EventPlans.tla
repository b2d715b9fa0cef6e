------------------------------ MODULE EventPlans ------------------------------
(***************************************************************************)
(* The callers of an event store: what each of them writes.  A plan is     *)
(* the calls of one unit of work in order, or one EventStore::append.      *)
(***************************************************************************)
EXTENDS Naturals, Sequences, FiniteSets, SequencesExt

CONSTANTS
  Units,    \* units of work, and calls of EventStore::append
  Streams,
  Plan      \* per unit: [alone, ops], the calls it makes in order

AppendOp(s, n) == [op |-> "append", stream |-> s, count |-> n]
ReceiptOp(s, k, p) == [op |-> "receipt", stream |-> s, key |-> k, print |-> p]

Ops(u) == ToSet(Plan[u].ops)
Appends(u, s) ==
  {i \in DOMAIN Plan[u].ops : Plan[u].ops[i].op = "append" /\ Plan[u].ops[i].stream = s}
Count(u, s) ==
  Cardinality(UNION {{i} \X (1 .. Plan[u].ops[i].count) : i \in Appends(u, s)})
Touched(u) == {o.stream : o \in Ops(u)}
ReceiptOps(u) == {o \in Ops(u) : o.op = "receipt"}
Identity(o) == <<o.stream, o.key>>
Identities == {Identity(o) : o \in UNION {ReceiptOps(u) : u \in Units}}
PrintBy(u, id) == (CHOOSE o \in ReceiptOps(u) : Identity(o) = id).print
NoUnit == "none"
=============================================================================
