---------------------------- MODULE MCAppLifecycle ----------------------------
(* Calls of a host with one type of each kind, two providers that may      *)
(* share an instance, and two tasks each that start and shut down.         *)
EXTENDS AppLifecycle

Durabilities == {"volatile", "durable"}

AppCalls ==
  {Call(op, "t") : op \in {"adapter", "replace_adapter", "executor", "service",
                           "production", "dev", "compatibility"}}
  \cup {Call("provider", <<id, "x">>) : id \in {"p", "q"}}
  \cup {Call(op, d) : op \in {"effect_store", "read_side_progress", "read_side_claims"},
                     d \in Durabilities}
  \cup {Call("enforced_idempotency", <<"volatile", "positive">>),
        Call("enforced_idempotency", <<"durable", "positive">>),
        Call("enforced_idempotency", <<"durable", "zero">>)}

RuntimeCalls ==
  {Call(op, "t") : op \in {"entity", "executor", "retention",
                           "tracer", "compatibility", "injectable"}}
  \cup {Call("provider", arg) : arg \in {<<"p", "x">>, <<"q", "x">>, <<"q", "y">>}}
  \cup {Call("reservation_store", "volatile"), Call("lease", "zero")}

MCHostCalls == [App |-> AppCalls, Runtime |-> RuntimeCalls]
MCMaxCalls == [App |-> 4, Runtime |-> 3]
=============================================================================
