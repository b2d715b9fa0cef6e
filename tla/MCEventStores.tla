---------------------------- MODULE MCEventStores ----------------------------
(* A request and its retry, which write two streams in opposite orders, a  *)
(* request without events that reuses their key with other content, and an *)
(* append of two events to the first stream.                               *)
EXTENDS EventStores

MCUnits == {"retry", "first", "append", "other"}
MCStreams == {"a", "b"}

MCPlan ==
  [retry |-> [alone |-> FALSE,
              ops |-> <<AppendOp("b", 1), AppendOp("a", 1),
                        ReceiptOp("a", "k", "p")>>],
   first |-> [alone |-> FALSE,
              ops |-> <<AppendOp("a", 1), ReceiptOp("a", "k", "p"),
                        AppendOp("a", 1), AppendOp("b", 1)>>],
   other |-> [alone |-> FALSE, ops |-> <<ReceiptOp("a", "k", "q")>>],
   append |-> [alone |-> TRUE, ops |-> <<AppendOp("a", 2)>>]]

(* All four callers make their calls on Postgres, where they can wait for  *)
(* each other, and three of them on the other stores.                      *)
MCInit ==
  /\ Init
  /\ Cardinality({u \in Units : unit[u] = Closed}) =
       IF backend = "postgres" THEN 4 ELSE 3
MCSpec == MCInit /\ [][Next]_vars /\ Fairness
=============================================================================
