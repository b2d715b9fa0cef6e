------------------------------ MODULE AppBuilder ------------------------------
(***************************************************************************)
(* Composition of an application (crates/service-sdk/src/app/mod.rs and    *)
(* src/runtime/builder.rs).  A host makes builder calls in any order, to   *)
(* AppBuilder, which keeps the first error for build(), or to the          *)
(* RuntimeBuilder underneath, whose refusals reach the host at once.       *)
(*                                                                         *)
(* A call is an operation and what it registers: a durability for a store, *)
(* an id and an instance for a data provider.  One type name per kind is   *)
(* enough to ask for the same thing twice.  Settings that no later step    *)
(* reads (configs, logger, security, observability, clocks) are left out.  *)
(***************************************************************************)
EXTENDS Naturals, Sequences, FiniteSets, SequencesExt

CONSTANTS
  HostCalls,  \* the calls a host may make, per entry point
  MaxCalls    \* per entry point, a bound on the calls of one composition

ASSUME CallsAssumption == MaxCalls \in [{"App", "Runtime"} -> Nat]

VARIABLES
  entry,    \* "App" or "Runtime": the builder the host uses
  asked,    \* history: the calls made so far, in order
  builder,  \* what the RuntimeBuilder holds
  pending,  \* pending_error: the call that was refused first
  phase     \* composing, built, refused, panicked

composition == <<entry, asked, builder, pending, phase>>

Call(op, arg) == [op |-> op, arg |-> arg]
None == Call("none", "none")

-----------------------------------------------------------------------------
(* RuntimeBuilder                                                          *)

Stores == {"effects", "progress", "claims", "reservations", "maintenance"}

NewBuilder ==
  [names |-> {}, stores |-> [s \in Stores |-> "none"], flags |-> {},
   lease |-> "positive", teardown |-> << >>, registrars |-> << >>]

WithName(b, call) == [b EXCEPT !.names = @ \cup {<<call.op, call.arg>>}]

(* with_projection, with_entity and the executor registry refuse a name    *)
(* they hold.                                                              *)
NameTaken(b, call) == <<call.op, call.arg>> \in b.names

(* register_data_provider: an id is taken once; an instance registered     *)
(* under several ids is shut down once.                                    *)
IdTaken(b, call) == \E n \in b.names : n[1] = "provider" /\ n[2][1] = call.arg[1]
WithProvider(b, call) ==
  [WithName(b, call) EXCEPT
     !.teardown = IF Contains(@, call.arg[2]) THEN @ ELSE Append(@, call.arg[2])]

WithStore(b, slot, durability) == [b EXCEPT !.stores[slot] = durability]
WithLease(b, lease) == [b EXCEPT !.lease = lease]
WithFlag(b, flag) == [b EXCEPT !.flags = @ \cup {flag}]
WithoutFlag(b, flag) == [b EXCEPT !.flags = @ \ {flag}]

SlotOf(op) ==
  CASE op = "effect_store" -> "effects"
    [] op = "read_side_progress" -> "progress"
    [] op = "read_side_claims" -> "claims"
    [] op = "reservation_store" -> "reservations"
    [] op = "retention_store" -> "maintenance"

(* The builder after a call that is not refused.                           *)
Applied(b, call) ==
  CASE call.op = "provider" -> WithProvider(b, call)
    [] call.op \in {"adapter", "replace_adapter"} ->
         WithName(b, Call("adapter", call.arg))
    [] call.op \in {"projection", "entity", "executor"} -> WithName(b, call)
    [] call.op = "enforced_idempotency" ->
         WithLease(WithStore(WithoutFlag(b, "compatibility"), "reservations", call.arg[1]),
                   call.arg[2])
    [] call.op = "lease" -> WithLease(b, call.arg)
    [] call.op \in {"effect_store", "read_side_progress", "read_side_claims",
                    "reservation_store", "retention_store"} ->
         WithStore(b, SlotOf(call.op), call.arg)
    [] call.op = "service" -> [b EXCEPT !.registrars = Append(@, call)]
    [] call.op = "mandatory_key" -> WithoutFlag(b, "compatibility")
    [] call.op = "dev" -> WithoutFlag(b, "production")
    [] OTHER -> WithFlag(b, call.op)

-----------------------------------------------------------------------------
(* What is refused, by which builder                                       *)

RefusedByRuntime(b, call) ==
  \/ call.op \in {"projection", "entity", "executor"} /\ NameTaken(b, call)
  \/ call.op = "provider" /\ IdTaken(b, call)

(* AppBuilder also refuses a second adapter and a second store of a kind.  *)
RefusedByApp(b, call) ==
  \/ RefusedByRuntime(b, call)
  \/ call.op = "adapter" /\ NameTaken(b, call)
  \/ /\ call.op \in {"effect_store", "retention_store", "read_side_progress",
                     "read_side_claims"}
     /\ b.stores[SlotOf(call.op)] # "none"

(* Every AppBuilder method: nothing after the first error, else register.  *)
AppCall(call) ==
  IF pending # None THEN UNCHANGED <<builder, pending>>
  ELSE IF RefusedByApp(builder, call)
  THEN pending' = call /\ UNCHANGED builder
  ELSE builder' = Applied(builder, call) /\ UNCHANGED pending

(* A RuntimeBuilder method hands its refusal to the host, who stops.       *)
RuntimeCall(call) ==
  /\ pending = None
  /\ IF RefusedByRuntime(builder, call)
     THEN pending' = call /\ UNCHANGED builder
     ELSE builder' = Applied(builder, call) /\ UNCHANGED pending

Compose(call) ==
  /\ phase = "composing"
  /\ Len(asked) < MaxCalls[entry]
  /\ asked' = Append(asked, call)
  /\ IF entry = "App" THEN AppCall(call) ELSE RuntimeCall(call)
  /\ UNCHANGED <<entry, phase>>

-----------------------------------------------------------------------------
(* build and try_build                                                     *)

HasExecutor(b) == \E n \in b.names : n[1] = "executor"

(* MandatoryKey is the default mode.                                       *)
ValidIdempotency(b) ==
  "compatibility" \in b.flags \/ b.stores["reservations"] # "none"

Durable(b, slot) == b.stores[slot] = "durable"

(* Mutated form of ValidProfile: a default store is not looked at.         *)
ValidIfGiven(b) ==
  "production" \in b.flags => \A s \in Stores : b.stores[s] # "volatile"
(* The production profile: whatever is used keeps its state durably.  With *)
(* no effect store given, build() uses the in-memory one.                  *)
ValidProfile(b) ==
  "production" \in b.flags =>
    /\ HasExecutor(b) => Durable(b, "effects")
    /\ b.stores["progress"] # "none" => Durable(b, "progress") /\ Durable(b, "claims")
    /\ b.stores["reservations"] # "none" => Durable(b, "reservations")

(* build() panics on a lease of length zero, once there is a store.        *)
LeaseServed(b) == b.stores["reservations"] # "none" => b.lease = "positive"

(* The assertions of build() on retention policies.                        *)
PoliciesServed(b) ==
  /\ "retention" \in b.flags => b.stores["reservations"] # "none"
  /\ "effect_retention" \in b.flags => b.stores["maintenance"] # "none"

(* A registrar's service resolves its adapter in a scratch runtime built   *)
(* from everything registered, whenever that was.                          *)
RegistrarFails(b) ==
  /\ b.registrars # << >>
  /\ \/ <<"adapter", "t">> \notin b.names
     \/ Len(b.registrars) > 1

(* with_injectable's validators run on the runtime built.                  *)
ValidatorFails(b) == "injectable" \in b.flags /\ <<"adapter", "t">> \notin b.names

TryBuild(b) ==
  IF ~ValidIdempotency(b) \/ ~ValidProfile(b) THEN "refused"
  ELSE IF ~LeaseServed(b) \/ ~PoliciesServed(b) THEN "panicked"
  ELSE IF ValidatorFails(b) THEN "refused" ELSE "built"

(* AppBuilder::build; for a RuntimeBuilder, its try_build.                 *)
Build(b) ==
  IF pending # None THEN "refused"
  ELSE IF TryBuild(b) = "built" /\ RegistrarFails(b) THEN "refused"
  ELSE TryBuild(b)

-----------------------------------------------------------------------------
(* The call's outcome in terms of what the host asked for, in any order.   *)
Asked(op) == \E i \in DOMAIN asked : asked[i].op = op
Unique(op) ==
  op \in {"projection", "entity", "executor"} \/
  (entry = "App" /\ op \in {"adapter", "effect_store", "retention_store",
                            "read_side_progress", "read_side_claims"})
LastOf(ops) ==
  LET given == SelectSeq(asked, LAMBDA c : c.op \in ops) IN
  IF given = << >> THEN None ELSE Last(given)
Given(op) == LastOf({op}).arg

Repeated ==
  \E i, j \in DOMAIN asked :
    /\ i < j
    /\ \/ Unique(asked[i].op) /\ asked[i].op = asked[j].op
       \/ entry = "App" /\ asked[i].op = "replace_adapter" /\ asked[j].op = "adapter"
       \/ asked[i].op = "service" /\ asked[j].op = "service"
       \/ /\ asked[i].op = "provider"
          /\ asked[j].op = "provider"
          /\ asked[i].arg[1] = asked[j].arg[1]

Reservations ==
  LET call == LastOf({"reservation_store", "enforced_idempotency"}) IN
  IF call.op = "enforced_idempotency" THEN call.arg[1] ELSE call.arg
Lease ==
  LET call == LastOf({"lease", "enforced_idempotency"}) IN
  IF call.op = "enforced_idempotency" THEN call.arg[2] ELSE call.arg

Complete ==
  /\ \/ Reservations # "none"
     \/ LastOf({"compatibility", "mandatory_key", "enforced_idempotency"}).op
          = "compatibility"
  /\ Asked("service") \/ Asked("injectable") => Asked("adapter") \/ Asked("replace_adapter")
  /\ Reservations # "none" => Lease # "zero"
  /\ Asked("retention") => Reservations # "none"
  /\ Asked("effect_retention") => Asked("retention_store")
  /\ LastOf({"production", "dev"}).op = "production" =>
       /\ Asked("executor") => Given("effect_store") = "durable"
       /\ Asked("read_side_progress") =>
            /\ Given("read_side_progress") = "durable"
            /\ Given("read_side_claims") = "durable"
       /\ Reservations \in {"none", "durable"}

(* A composition is built exactly when nothing was registered twice and    *)
(* all that the parts need is there, whatever the order of registrations.  *)
(* In particular production refuses a volatile store of effects, read-side *)
(* progress, claims or reservations that is in use, the one taken for      *)
(* effects when none is given included.  The maintenance store and the     *)
(* stores inside an entity runtime are not this gate's to look at.         *)
BuildIsOrderFree ==
  [][phase = "composing" /\ phase' # "composing" =>
       (phase' = "built") = (~Repeated /\ Complete)]_composition
=============================================================================
