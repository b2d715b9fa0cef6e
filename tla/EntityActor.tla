----------------------------- MODULE EntityActor -----------------------------
(***************************************************************************)
(* A persistent entity: the registry that routes to its actor, the actor's *)
(* bounded mailbox and lifecycle, the receipt gate, the event and snapshot *)
(* stores (crates/persistent-entity, crates/persistence-memory/persistence *)
(* and crates/persistence/src/postgres/event_store.rs).                    *)
(*                                                                         *)
(* One entity; entities share no stream, receipt or mailbox.  Each node is *)
(* a process with its own registry, so with the Postgres store the entity  *)
(* may be active on several nodes at once; the in-memory store lives in    *)
(* one process.  An actor is named by its epoch.  A command is one call of *)
(* send_command; two commands with the same key and print are a request    *)
(* and its retry.  An event is abstracted to the command that emitted it,  *)
(* so the state of an entity is the sequence of events applied to it.      *)
(***************************************************************************)
EXTENDS Integers, Sequences

CONSTANTS
  Nodes,            \* processes
  Commands,         \* calls of send_command
  KeyChoices,       \* the operation keys of the commands, NoKey for none
  PrintOf,          \* the fingerprint of a command
  NoKey,
  MailboxCapacity,  \* RuntimeConfig.mailbox_capacity
  SnapshotDecodes,  \* does a stored snapshot deserialize into the state type?
  MaxEpochs,        \* bound on the activations
  MaxFaults         \* bound on store failures, panics and crashes

ASSUME CapacityAssumption == MailboxCapacity \in Nat \ {0}
ASSUME EntityBoundAssumption == MaxEpochs \in Nat /\ MaxFaults \in Nat
ASSUME NoKeyAssumption == NoKey \notin Commands

Keys == (UNION {{ks[c] : c \in Commands} : ks \in KeyChoices}) \ {NoKey}
Actors == 1 .. MaxEpochs

VARIABLES
  backend,   \* "memory" or "postgres"
  keyOf,     \* the key each command carries
  active,    \* EntityRegistry.active, per node: the epoch routed to, 0 for none
  epochs,    \* EntityRegistry.next_epoch: activations so far, on any node
  actors,    \* the actor and its mailbox, per activation
  call,      \* where each send_command call stands
  stream,    \* the committed events of the entity
  receipts,  \* the operation receipt per key
  snapshot,  \* the stored snapshot
  faults     \* failures left to inject

vars == <<backend, keyOf, active, epochs, actors, call, stream, receipts, snapshot,
          faults>>
stores == <<stream, receipts, snapshot>>

NoReceipt == [print |-> "none"]
Unborn(n) == [node |-> n, pc |-> "unborn", life |-> "Recovering", box |-> <<>>,
           closed |-> FALSE, state |-> <<>>, version |-> 0, cur |-> NoKey]

Idle == [at |-> "idle"]
Routed(a) == [at |-> "routed", actor |-> a]
Sent(a) == [at |-> "sent", actor |-> a]
Answered(r) == [at |-> "answered", reply |-> r]

Init ==
  /\ backend \in {"memory", "postgres"}
  /\ keyOf \in KeyChoices
  /\ active = [n \in Nodes |-> 0]
  /\ epochs = 0
  /\ actors = [a \in Actors |-> Unborn(0)]
  /\ call = [c \in Commands |-> Idle]
  /\ stream = <<>>
  /\ receipts = [k \in Keys |-> NoReceipt]
  /\ snapshot = [version |-> 0, state |-> <<>>]
  /\ faults \in 0 .. MaxFaults

Fault == faults > 0 /\ faults' = faults - 1
NoFault == UNCHANGED faults

-----------------------------------------------------------------------------
(* Routing and the write side of the mailbox.                              *)

(* Mutated form of entity_ref: a closing mailbox counts as no entry.       *)
entity_ref_anew(c, n) ==
  /\ call[c] = Idle
  /\ active[n] # 0 => actors[active[n]].closed
  /\ epochs < MaxEpochs
  /\ epochs' = epochs + 1
  /\ active' = [active EXCEPT ![n] = epochs']
  /\ actors' = [actors EXCEPT ![epochs'] = [Unborn(n) EXCEPT !.pc = "load"]]
  /\ call' = [call EXCEPT ![c] = Routed(epochs')]
  /\ UNCHANGED <<backend, keyOf, stores, faults>>

(* TokioEntityRef::new: reuse the live entry, or insert one and spawn.     *)
(* Two nodes share the entity only when they share its store.              *)
entity_ref(c, n) ==
  /\ call[c] = Idle
  /\ backend = "memory" => \A a \in 1 .. epochs : actors[a].node = n
  /\ IF active[n] # 0
     THEN /\ call' = [call EXCEPT ![c] = Routed(active[n])]
          /\ UNCHANGED <<active, epochs, actors>>
     ELSE /\ epochs < MaxEpochs
          /\ epochs' = epochs + 1
          /\ active' = [active EXCEPT ![n] = epochs']
          /\ actors' = [actors EXCEPT ![epochs'] = [Unborn(n) EXCEPT !.pc = "load"]]
          /\ call' = [call EXCEPT ![c] = Routed(epochs')]
  /\ UNCHANGED <<backend, keyOf, stores, faults>>

(* BoundedMailbox::send: waits while the open mailbox is full.  A caller   *)
(* refused by a closed mailbox may ask for a new reference: a new call.    *)
send(c) ==
  LET a == call[c].actor IN
  /\ call[c].at = "routed"
  /\ IF actors[a].closed
     THEN /\ call' = [call EXCEPT ![c] = Answered("MailboxClosed")]
          /\ UNCHANGED actors
     ELSE /\ Len(actors[a].box) < MailboxCapacity
          /\ actors' = [actors EXCEPT ![a].box = Append(@, c)]
          /\ call' = [call EXCEPT ![c] = Sent(a)]
  /\ UNCHANGED <<backend, keyOf, active, epochs, stores, faults>>

-----------------------------------------------------------------------------
(* The actor.                                                              *)

Keyed(c) == keyOf[c] # NoKey
Cur(a) == actors[a].cur

(* The actor moves to pc, having changed nothing else.                     *)
Goto(a, pc) ==
  /\ actors' = [actors EXCEPT ![a].pc = pc]
  /\ UNCHANGED call

(* The actor answers its command and returns to its loop.                  *)
Reply(a, r) ==
  /\ actors' = [actors EXCEPT ![a].pc = "loop", ![a].cur = NoKey]
  /\ call' = [call EXCEPT ![Cur(a)] = Answered(r)]

(* The actor answers its command and becomes Failed.                       *)
Fail(a) ==
  /\ actors' = [actors EXCEPT ![a].pc = "failed", ![a].life = "Failed",
                              ![a].cur = NoKey]
  /\ call' = [call EXCEPT ![Cur(a)] = Answered("PersistenceError")]

(* load_for_recovery reads the snapshot first and the events after it.     *)
LoadSnapshot(a) ==
  /\ actors[a].pc = "load"
  /\ actors' = [actors EXCEPT
       ![a].pc = "replay",
       ![a].state = IF SnapshotDecodes THEN snapshot.state ELSE <<>>,
       ![a].version = snapshot.version]
  /\ UNCHANGED <<call, stores>> /\ NoFault

(* Mutated form of ReplayEvents: the snapshot's own events are replayed    *)
(* once more.                                                              *)
ReplayEverything(a) ==
  /\ actors[a].pc = "replay"
  /\ actors' = [actors EXCEPT ![a].pc = "loop", ![a].life = "Active",
       ![a].state = @ \o stream,
       ![a].version = @ + Len(stream)]
  /\ UNCHANGED <<call, stores>> /\ NoFault

ReplayEvents(a) ==
  LET tail == SubSeq(stream, actors[a].version + 1, Len(stream)) IN
  /\ actors[a].pc = "replay"
  /\ actors' = [actors EXCEPT ![a].pc = "loop", ![a].life = "Active",
       ![a].state = @ \o tail,
       ![a].version = @ + Len(tail)]
  /\ UNCHANGED <<call, stores>> /\ NoFault

RecoveryFails(a) ==
  /\ actors[a].pc \in {"load", "replay"}
  /\ actors' = [actors EXCEPT ![a].pc = "unrecovered", ![a].life = "Failed"]
  /\ UNCHANGED <<call, stores>> /\ Fault

(* process_commands, and the drain of passivate: take the next command.    *)
Receive(a) ==
  /\ actors[a].pc = "loop"
  /\ actors[a].box # <<>>
  /\ LET c == Head(actors[a].box) IN
     actors' = [actors EXCEPT ![a].box = Tail(@), ![a].cur = c,
                  ![a].pc = IF Keyed(c) THEN "gate" ELSE "handle"]
  /\ UNCHANGED <<call, stores>> /\ NoFault

(* The receipt gate of execute_command.  Mutated form: the fingerprint is  *)
(* not compared.                                                           *)
GateAnyPrint(a) ==
  LET r == receipts[keyOf[Cur(a)]] IN
  /\ actors[a].pc = "gate"
  /\ IF r = NoReceipt THEN Goto(a, "handle") ELSE Reply(a, "Replayed")
  /\ UNCHANGED stores /\ NoFault

Gate(a) ==
  LET r == receipts[keyOf[Cur(a)]] IN
  /\ actors[a].pc = "gate"
  /\ IF r = NoReceipt THEN Goto(a, "handle")
     ELSE IF r.print = PrintOf[Cur(a)] THEN Reply(a, "Replayed")
     ELSE Reply(a, "OperationConflict")
  /\ UNCHANGED stores /\ NoFault

GateFails(a) ==
  /\ actors[a].pc = "gate"
  /\ Reply(a, "PersistenceError")
  /\ UNCHANGED stores /\ Fault

(* handle_command: any outcome, since a handler may consult the outside.   *)
(* A batch of events is not empty, so AggregateOutcome::events accepts its *)
(* version range as long as versions stay below 2^63.                      *)
Handle(a) ==
  /\ actors[a].pc = "handle"
  /\ \/ Reply(a, "DomainError")
     \/ Goto(a, "append")
     \/ IF Keyed(Cur(a)) THEN Goto(a, "confirm") ELSE Reply(a, "NoEvents")
  /\ UNCHANGED stores /\ NoFault

-----------------------------------------------------------------------------
(* The stores' side of a command.                                          *)

ReceiptOf(a, outcome) == [print |-> PrintOf[Cur(a)], outcome |-> outcome]

(* reconcile, and the comparison after ON CONFLICT DO NOTHING.             *)
Reconciles(a) ==
  Keyed(Cur(a)) =>
    LET r == receipts[keyOf[Cur(a)]] IN
    r = NoReceipt \/ r.print = PrintOf[Cur(a)]

(* The receipt kept once a's transaction commits.  Postgres keeps the row  *)
(* it finds, the in-memory map inserts.                                    *)
Receipted(a, outcome) ==
  LET c == Cur(a) IN
  IF ~Keyed(c) THEN receipts
  ELSE IF backend = "postgres" /\ receipts[keyOf[c]] # NoReceipt THEN receipts
  ELSE [receipts EXCEPT ![keyOf[c]] = ReceiptOf(a, outcome)]

(* Mutated form of Versioned: the expected version is not checked.         *)
AnyVersion(a) == TRUE

Versioned(a) == Len(stream) = actors[a].version

(* The events and their receipt become visible together.                   *)
Publish(a) ==
  /\ stream' = Append(stream, Cur(a))
  /\ receipts' = Receipted(a, Len(stream) + 1)
  /\ UNCHANGED snapshot

(* Postgres, one transaction; and the in-memory append without a receipt,  *)
(* one critical section.  The unique index on the version makes the check  *)
(* and the insert one step.                                                *)
Commit(a) ==
  /\ actors[a].pc = "append"
  /\ backend = "postgres" \/ ~Keyed(Cur(a))
  /\ IF Versioned(a) /\ Reconciles(a)
     THEN Publish(a) /\ Goto(a, "apply")
     ELSE UNCHANGED stores /\ Fail(a)
  /\ NoFault

(* The in-memory unit of work checks when it stages and publishes later    *)
(* without checking again.                                                 *)
StageInMemory(a) ==
  /\ actors[a].pc = "append"
  /\ backend = "memory" /\ Keyed(Cur(a))
  /\ IF Versioned(a) /\ Reconciles(a) THEN Goto(a, "publish") ELSE Fail(a)
  /\ UNCHANGED stores /\ NoFault

PublishInMemory(a) ==
  /\ actors[a].pc = "publish"
  /\ Publish(a) /\ Goto(a, "apply")
  /\ NoFault

(* Persisting fails: before the commit, or after it with the answer lost.  *)
CommitFails(a) ==
  /\ actors[a].pc = "append"
  /\ backend = "postgres"
  /\ Fail(a)
  /\ \/ UNCHANGED stores
     \/ Versioned(a) /\ Reconciles(a) /\ Publish(a)
  /\ Fault

(* The receipt of a command that emitted nothing.                          *)
ConfirmNoEvents(a) ==
  /\ actors[a].pc = "confirm"
  /\ \/ /\ Reconciles(a)
        /\ receipts' = Receipted(a, 0)
        /\ \/ Reply(a, "NoEvents") /\ NoFault
           \/ Reply(a, "PersistenceError") /\ backend = "postgres" /\ Fault
     \/ /\ UNCHANGED receipts
        /\ Reply(a, "PersistenceError")
        /\ IF Reconciles(a) THEN backend = "postgres" /\ Fault ELSE NoFault
  /\ UNCHANGED <<stream, snapshot>>

(* apply_events after the commit; a handler that cannot apply its own      *)
(* events fails the actor.                                                 *)
Apply(a) ==
  /\ actors[a].pc = "apply"
  /\ \/ /\ actors' = [actors EXCEPT ![a].pc = "post", ![a].version = @ + 1,
                                    ![a].state = Append(@, Cur(a))]
        /\ UNCHANGED call /\ NoFault
     \/ Fail(a) /\ Fault
  /\ UNCHANGED stores

(* save_snapshot.  Postgres reads the stored version and then overwrites   *)
(* without comparing, so a save that races another node's may win or lose; *)
(* a save that fails is ignored.                                           *)
Snapshotted(a) == [version |-> actors[a].version, state |-> actors[a].state]

TakeSnapshot(a) ==
  /\ actors[a].pc = "post"
  /\ snapshot' = Snapshotted(a)
  /\ Goto(a, "accept")
  /\ UNCHANGED <<stream, receipts>> /\ NoFault

(* The rest of execute_command, with or without a snapshot: the publisher  *)
(* and the acceptance of described effects, neither of which changes what  *)
(* the reply says, Ok with the events.  Until the reply the actor may die. *)
PostPersist(a) ==
  /\ actors[a].pc \in {"post", "accept"}
  /\ Reply(a, "Events")
  /\ UNCHANGED stores /\ NoFault

-----------------------------------------------------------------------------
(* Passivation, failure and teardown.                                      *)

(* The idle timer won the select: passivate closes the mailbox.            *)
Passivate(a) ==
  /\ actors[a].pc = "loop" /\ ~actors[a].closed
  /\ actors' = [actors EXCEPT ![a].closed = TRUE]
  /\ UNCHANGED <<call, stores>> /\ NoFault

FinalSnapshot(a) ==
  /\ actors[a].pc = "loop" /\ actors[a].closed
  /\ actors[a].box = <<>>
  /\ snapshot' \in {snapshot, Snapshotted(a)}
  /\ actors' = [actors EXCEPT ![a].pc = "exit", ![a].life = "Passivated"]
  /\ UNCHANGED <<call, stream, receipts>> /\ NoFault

(* What the calls become when everything queued at a is refused.           *)
Refused(a, r) ==
  [c \in Commands |->
     IF call[c] = Sent(a) /\ c # Cur(a) THEN Answered(r) ELSE call[c]]

(* drain_mailbox_with_error, and the failing drain of passivate.           *)
DrainFailed(a) ==
  /\ actors[a].pc \in {"unrecovered", "failed"}
  /\ actors' = [actors EXCEPT ![a].pc = "exit", ![a].closed = TRUE,
                              ![a].box = <<>>]
  /\ call' = Refused(a, IF actors[a].pc = "failed" THEN "PersistenceError"
                        ELSE "EntityNotActive")
  /\ UNCHANGED stores /\ NoFault

ActorStep(a) ==
  /\ \/ LoadSnapshot(a) \/ ReplayEvents(a) \/ RecoveryFails(a)
     \/ Receive(a) \/ Gate(a) \/ GateFails(a) \/ Handle(a)
     \/ Commit(a) \/ StageInMemory(a) \/ PublishInMemory(a) \/ CommitFails(a)
     \/ ConfirmNoEvents(a) \/ Apply(a) \/ TakeSnapshot(a) \/ PostPersist(a)
     \/ Passivate(a) \/ FinalSnapshot(a) \/ DrainFailed(a)
  /\ UNCHANGED <<backend, keyOf, active, epochs>>

(* TeardownGuard::drop: close and drain, then remove the entry if it is    *)
(* still ours.  Mutated form: what is queued is dropped unanswered.        *)
Drained(a) == [Unborn(actors[a].node) EXCEPT !.pc = "drained", !.closed = TRUE]
TeardownSilently(a) ==
  /\ actors' = [actors EXCEPT ![a] = Drained(a)]
  /\ UNCHANGED <<active, call>>

Teardown(a) ==
  /\ actors' = [actors EXCEPT ![a] = Drained(a)]
  /\ call' = [c \in Commands |->
                CASE call[c] # Sent(a) -> call[c]
                  [] c = Cur(a) -> Answered("ReplyDropped")
                  [] OTHER -> Answered("EntityNotActive")]
  /\ UNCHANGED active

Ended(a) == [Drained(a) EXCEPT !.pc = "gone"]
Evicted(a) == [active EXCEPT ![actors[a].node] = IF @ = a THEN 0 ELSE @]
Evict(a) ==
  /\ actors[a].pc = "drained"
  /\ actors' = [actors EXCEPT ![a] = Ended(a)]
  /\ active' = Evicted(a)
  /\ UNCHANGED <<backend, keyOf, epochs, call, stores, faults>>

Exit(a) ==
  /\ actors[a].pc = "exit"
  /\ Teardown(a)
  /\ UNCHANGED <<backend, keyOf, epochs, stores, faults>>

Running(a) == actors[a].pc \notin {"unborn", "gone"}

(* A panic in the handler, or the cancellation of the task.                *)
Panic(a) ==
  /\ Running(a) /\ actors[a].pc # "drained"
  /\ Teardown(a) /\ Fault
  /\ UNCHANGED <<backend, keyOf, epochs, stores>>

(* The process dies, with its registry, actors and pending calls.          *)
Crash(n) ==
  /\ backend = "postgres"
  /\ active[n] # 0
  /\ active' = [active EXCEPT ![n] = 0]
  /\ actors' = [a \in Actors |->
                  IF actors[a].node = n /\ Running(a)
                  THEN Ended(a) ELSE actors[a]]
  /\ call' = [c \in Commands |->
                IF call[c].at \in {"routed", "sent"} /\ actors[call[c].actor].node = n
                THEN Answered("ProcessDied") ELSE call[c]]
  /\ Fault
  /\ UNCHANGED <<backend, keyOf, epochs, stores>>

(* Every call is answered, or waits for an activation beyond the bound.    *)
Over ==
  /\ \A a \in Actors : ~Running(a)
  /\ \A c \in Commands :
       call[c].at = "answered" \/ (call[c] = Idle /\ epochs = MaxEpochs)
  /\ UNCHANGED vars

Next ==
  \/ Over
  \/ \E c \in Commands : send(c)
  \/ \E c \in Commands, n \in Nodes : entity_ref(c, n)
  \/ \E a \in Actors : ActorStep(a) \/ Exit(a) \/ Evict(a) \/ Panic(a)
  \/ \E n \in Nodes : Crash(n)

Spec == Init /\ [][Next]_vars

-----------------------------------------------------------------------------

(* ARCHITECTURE.md "Exactly one actor per entity triple": a node never     *)
(* runs two activations of the entity, not even while one is drained and   *)
(* torn down, and it routes to the running one.                            *)
OneActorPerNode ==
  \A a, b \in Actors :
    /\ Running(a) /\ Running(b) /\ actors[a].node = actors[b].node => a = b
    /\ Running(a) => active[actors[a].node] = a

(* The receipt protocol: whatever is retried, on whatever node, after      *)
(* whatever failure, the events of one operation key are appended once.    *)
AppliedOnce ==
  \A i, j \in DOMAIN stream :
    Keyed(stream[i]) /\ keyOf[stream[i]] = keyOf[stream[j]] => i = j

(* Recovery and the commands after it keep an actor on the log: the state  *)
(* it decides on is the replay of the first `version` events of the        *)
(* stream.  This is for snapshots that decode: from one that does not,     *)
(* rebuild_state_from_persistence keeps the version and takes the initial  *)
(* state (actor.rs:152-158), and the events before it are gone.            *)
StateIsReplay ==
  \A a \in Actors :
    Running(a) /\ actors[a].life # "Recovering" =>
      \/ actors[a].life = "Failed"
      \/ /\ actors[a].version <= Len(stream)
         /\ actors[a].state = SubSeq(stream, 1, actors[a].version)

(* What a reply says is so: events reported are committed, an operation    *)
(* reported as done has a receipt of the request's own print, and one      *)
(* refused or failed in the domain committed nothing.                      *)
RepliesAreTrue ==
  \A c \in Commands :
    call[c].at = "answered" =>
      LET r == call[c].reply
          committed == \E i \in DOMAIN stream : stream[i] = c IN
      /\ r = "Events" => committed
      /\ r \in {"DomainError", "OperationConflict", "EntityNotActive",
                "Replayed", "NoEvents", "MailboxClosed"} => ~committed
      /\ r \in {"Replayed", "NoEvents"} /\ Keyed(c) =>
           /\ receipts[keyOf[c]] # NoReceipt
           /\ receipts[keyOf[c]].print = PrintOf[c]

Queued(a, c) == \E i \in DOMAIN actors[a].box : actors[a].box[i] = c

(* FR-009: a command the mailbox took is in the hands of a running actor   *)
(* until it is answered, queued once or being handled, whatever becomes of *)
(* the actor; and a sender waits only on a mailbox somebody still drains   *)
(* or closes.  As no state but the final ones is a deadlock, every command *)
(* is answered.                                                            *)
NoCommandForgotten ==
  \A c \in Commands, a \in Actors :
    /\ call[c] = Sent(a) =>
         /\ Running(a)
         /\ IF c = Cur(a) THEN ~Queued(a, c)
            ELSE \E i \in DOMAIN actors[a].box :
                   \A j \in DOMAIN actors[a].box : actors[a].box[j] = c <=> j = i
    /\ call[c] = Routed(a) => Running(a) \/ actors[a].closed

=============================================================================
