------------------------ MODULE EntityActorInvariant -------------------------
(***************************************************************************)
(* What the registry, the mailboxes, the receipts and the version check    *)
(* guarantee together, for every number of nodes, commands, keys,          *)
(* activations and failures, on both event stores: the invariant, the      *)
(* steps that move commands (send, the mailbox, the teardown, a crash),    *)
(* the activation of an actor, and the two forms most of its steps have.   *)
(*                                                                         *)
(* A command the mailbox took belongs to one running actor until it is     *)
(* answered.  An actor that passed the receipt gate knows that its key has *)
(* no event within the version it read; the version check carries this to  *)
(* the end of the stream.  The in-memory store checks too early, and is    *)
(* saved by the registry: one process, hence one running actor.            *)
(***************************************************************************)
EXTENDS EntityActor, TLAPS

WorkPcs == {"gate", "handle", "append", "publish", "confirm", "apply", "post",
            "accept"}
RestPcs == {"load", "replay", "loop", "unrecovered", "failed", "exit", "drained"}
Lives == {"Recovering", "Active", "Failed", "Passivated"}
Replies == {"MailboxClosed", "Replayed", "OperationConflict", "PersistenceError",
            "DomainError", "NoEvents", "Events", "ReplyDropped", "EntityNotActive",
            "ProcessDied"}

ActorRecord ==
  [node : Nodes \cup {0}, pc : WorkPcs \cup RestPcs \cup {"unborn", "gone"},
   life : Lives, box : Seq(Commands), closed : BOOLEAN, state : Seq(Commands),
   version : Nat, cur : Commands \cup {NoKey}]
Calls ==
  {Idle} \cup {Routed(a) : a \in Actors} \cup {Sent(a) : a \in Actors}
    \cup {Answered(r) : r \in Replies}
Receipt == [print : {PrintOf[c] : c \in Commands}, outcome : Nat]

TypeOK ==
  /\ backend \in {"memory", "postgres"}
  /\ keyOf \in KeyChoices
  /\ active \in [Nodes -> Nat]
  /\ epochs \in 0 .. MaxEpochs
  /\ actors \in [Actors -> ActorRecord]
  /\ call \in [Commands -> Calls]
  /\ stream \in Seq(Commands)
  /\ receipts \in [Keys -> {NoReceipt} \cup Receipt]
  /\ snapshot \in [version : Nat, state : Seq(Commands)]

(* A node routes to its running actor, if it has one; the in-memory store  *)
(* serves one node.                                                        *)
Registry ==
  /\ \A n \in Nodes : active[n] # 0 =>
       active[n] \in Actors /\ Running(active[n]) /\ actors[active[n]].node = n
  /\ \A a \in Actors : Running(a) =>
       actors[a].node \in Nodes /\ active[actors[a].node] = a
  /\ \A a \in Actors : actors[a].pc = "unborn" <=> a > epochs
  /\ backend = "memory" =>
       \A a, b \in Actors : a <= epochs /\ b <= epochs => actors[a].node = actors[b].node

(* Who has a command: the actor works on it, or it is in the box, once.    *)
MailOf(a) ==
  /\ actors[a].pc \in WorkPcs <=> Cur(a) # NoKey
  /\ Cur(a) # NoKey => call[Cur(a)] = Sent(a)
  /\ \A i \in DOMAIN actors[a].box :
       call[actors[a].box[i]] = Sent(a) /\ actors[a].box[i] # Cur(a)
  /\ \A i, j \in DOMAIN actors[a].box : actors[a].box[i] = actors[a].box[j] => i = j
  /\ \A c \in Commands :
       /\ call[c] = Sent(a) => Running(a) /\ (c = Cur(a) \/ Queued(a, c))
       /\ call[c] = Routed(a) => a <= epochs /\ (Running(a) \/ actors[a].closed)
Mailboxes == \A a \in Actors : MailOf(a)

(* The first v events of the stream.                                       *)
Prefix(s, v) ==
  /\ v <= Len(stream)
  /\ SnapshotDecodes => Len(s) = v /\ \A i \in 1 .. v : s[i] = stream[i]
Emitted(c) == \E i \in DOMAIN stream : stream[i] = c
(* No event of c's key among the first v.                                  *)
Fresh(c, v) ==
  Keyed(c) => \A i \in DOMAIN stream : keyOf[stream[i]] = keyOf[c] => i > v
(* The receipt under c's key, if there is one, is for c's content.         *)
Matches(c) ==
  Keyed(c) /\ receipts[keyOf[c]] # NoReceipt => receipts[keyOf[c]].print = PrintOf[c]

(* What an actor knows at each point of execute_command.                   *)
Knows(x) ==
  /\ x.pc \notin {"unborn", "gone"} => Prefix(x.state, x.version)
  /\ x.pc \in {"handle", "append", "publish"} => Fresh(x.cur, x.version)
  /\ x.pc = "publish" => /\ backend = "memory" /\ x.version = Len(stream)
                         /\ Keyed(x.cur) /\ Matches(x.cur)
  /\ x.pc = "confirm" => Keyed(x.cur)
  /\ x.pc = "apply" => x.version < Len(stream) /\ stream[x.version + 1] = x.cur
  /\ x.pc \in {"post", "accept"} => Emitted(x.cur)
  /\ x.pc = "drained" => x.closed /\ x.box = <<>>
ActorsKnow == \A a \in Actors : Knows(actors[a])

(* The log: keyed events have receipts, one event per key.                 *)
Log ==
  /\ Prefix(snapshot.state, snapshot.version)
  /\ \A i \in DOMAIN stream :
       Keyed(stream[i]) => receipts[keyOf[stream[i]]] # NoReceipt
  /\ AppliedOnce

(* An event's command is being applied, or was answered accordingly.       *)
Accounted ==
  \A c \in Commands : Emitted(c) =>
    \/ \E a \in Actors : Cur(a) = c /\ actors[a].pc \in {"apply", "post", "accept"}
    \/ call[c] \in {Answered(r) : r \in {"Events", "PersistenceError", "ReplyDropped",
                                         "ProcessDied"}}
Told ==
  \A c \in Commands :
    /\ call[c] = Answered("Events") => Emitted(c)
    /\ call[c] \in {Answered("Replayed"), Answered("NoEvents")} /\ Keyed(c) =>
         receipts[keyOf[c]] # NoReceipt /\ Matches(c)

IInv ==
  TypeOK /\ Registry /\ Mailboxes /\ ActorsKnow /\ Log /\ Accounted /\ Told

-----------------------------------------------------------------------------
(* Shapes.                                                                 *)

(* The stages of a call are told apart by their tag and their argument.    *)
LEMMA CallShapes ==
  /\ \A a, b : Sent(a) = Sent(b) => a = b
  /\ \A a, b : Routed(a) = Routed(b) => a = b
  /\ \A r, s : Answered(r) = Answered(s) => r = s
  /\ \A a, b : Sent(a) # Routed(b)
  /\ \A a, r : Sent(a) # Answered(r) /\ Routed(a) # Answered(r)
  /\ \A a : Sent(a) # Idle /\ Routed(a) # Idle
  /\ \A r : Idle # Answered(r)
BY Zenon DEF Sent, Routed, Answered, Idle

(* A call's tag tells its stage.                                           *)
LEMMA CallTags ==
  ASSUME NEW v \in Calls
  PROVE  /\ v.at = "routed" => v.actor \in Actors /\ v = Routed(v.actor)
         /\ v.at = "sent" => v.actor \in Actors /\ v = Sent(v.actor)
         /\ v.at = "answered" => v.reply \in Replies /\ v = Answered(v.reply)
         /\ v.at \in {"routed", "sent"} \/ v = Idle \/ v.at = "answered"
BY DEF Sent, Routed, Answered, Idle, Calls

(* A receipt is not the absence of one: it has an outcome.                 *)
LEMMA ReceiptIsNotNone ==
  ASSUME NEW p, NEW o
  PROVE  /\ [print |-> p, outcome |-> o] # NoReceipt
         /\ [print |-> p, outcome |-> o].print = p
BY Zenon DEF NoReceipt

(* A keyed command's key is among the keys.                                *)
LEMMA KeyIsAKey ==
  ASSUME TypeOK, NEW d \in Commands, Keyed(d)
  PROVE  keyOf[d] \in Keys
<1> DEFINE K == {{ks[c] : c \in Commands} : ks \in KeyChoices}
<1>1. {keyOf[c] : c \in Commands} \in K
  BY DEF TypeOK
<1>3. Keys = (UNION K) \ {NoKey}
  BY Zenon DEF Keys
<1> HIDE DEF K
<1> QED
  BY <1>1, <1>3, Zenon DEF Keyed

-----------------------------------------------------------------------------
(* The registry.                                                           *)

(* Actor a becomes x, and goes on running.                                 *)
Becomes(a, x) ==
  /\ x \in ActorRecord
  /\ x.node = actors[a].node
  /\ x.pc \notin {"unborn", "gone"}
  /\ actors' = [actors EXCEPT ![a] = x]
  /\ UNCHANGED <<backend, keyOf, active, epochs>>

LEMMA Became ==
  ASSUME TypeOK, NEW a \in Actors, NEW x, Becomes(a, x)
  PROVE  /\ actors' \in [Actors -> ActorRecord]
         /\ actors'[a] = x
         /\ \A b \in Actors : b # a => actors'[b] = actors[b]
         /\ UNCHANGED <<backend, keyOf, active, epochs>>
BY Zenon DEF Becomes, TypeOK

LEMMA RegistryStays ==
  ASSUME TypeOK, Registry, NEW a \in Actors, Running(a), NEW x, Becomes(a, x)
  PROVE  Registry'
BY Became DEF Running, Becomes, Registry

(* With the in-memory store one actor runs.                                *)
LEMMA MemoryIsAlone ==
  ASSUME TypeOK, Registry, backend = "memory",
         NEW a \in Actors, NEW b \in Actors, Running(a), Running(b)
  PROVE  a = b
BY DEF Registry, Running, TypeOK, Actors

-----------------------------------------------------------------------------
(* The mailboxes.                                                          *)

(* An actor that keeps its command and its box.                            *)
LEMMA MailKept ==
  ASSUME TypeOK, Mailboxes, NEW a \in Actors, Running(a), NEW x, Becomes(a, x),
         call' = call, x.box = actors[a].box, x.cur = Cur(a),
         x.pc \in WorkPcs <=> actors[a].pc \in WorkPcs,
         actors[a].closed => x.closed
  PROVE  Mailboxes'
<1>1. \A b \in Actors : /\ actors'[b].box = actors[b].box
                        /\ Cur(b)' = Cur(b)
                        /\ actors'[b].pc \in WorkPcs <=> actors[b].pc \in WorkPcs
                        /\ Running(b) => Running(b)'
                        /\ actors[b].closed => actors'[b].closed
  BY Became, Zenon DEF Running, Becomes, Cur
<1>2. epochs' = epochs
  BY Became, Zenon
<1> SUFFICES ASSUME NEW b \in Actors PROVE MailOf(b)'
  BY Zenon DEF Mailboxes
<1> QED
  BY <1>1, <1>2 DEF Mailboxes, MailOf, Queued

(* An actor that stays, and that no call joins or leaves.                  *)
LEMMA MailUntouched ==
  ASSUME TypeOK, Mailboxes, NEW b \in Actors, actors'[b] = actors[b],
         epochs' \in {epochs, epochs + 1},
         \A d \in Commands :
           /\ call'[d] = Sent(b) <=> call[d] = Sent(b)
           /\ call'[d] = Routed(b) => call[d] = Routed(b) \/ (Running(b) /\ b <= epochs)
  PROVE  MailOf(b)'
<1>1. /\ Cur(b)' = Cur(b) /\ (Running(b)' <=> Running(b))
      /\ \A d : Queued(b, d)' <=> Queued(b, d)
  BY Zenon DEF Cur, Running, Queued
<1>2. b <= epochs => b <= epochs'
  BY DEF TypeOK, Actors
<1>3. Cur(b) \in Commands \cup {NoKey} /\ actors[b].box \in Seq(Commands)
  BY Zenon DEF TypeOK, ActorRecord, Cur
<1> QED
  BY <1>1, <1>2, <1>3 DEF Mailboxes, MailOf

(* What an answer leaves of the box.                                       *)
LEMMA MailAnswered ==
  ASSUME TypeOK, Mailboxes, NEW a \in Actors, Running(a), NEW x, Becomes(a, x),
         Cur(a) # NoKey, NEW r, call' = [call EXCEPT ![Cur(a)] = Answered(r)],
         x.box = actors[a].box, x.cur = NoKey, x.pc \notin WorkPcs,
         actors[a].closed => x.closed
  PROVE  Mailboxes'
<1> USE Became, CallShapes
<1> PICK c0 : c0 = Cur(a)
  BY Zenon
<1>0. /\ c0 \in Commands /\ call[c0] = Sent(a)
      /\ call'[c0] = Answered(r)
      /\ \A c \in Commands : c # c0 => call'[c] = call[c]
  BY DEF TypeOK, ActorRecord, Cur, Mailboxes, MailOf
<1>1. /\ actors'[a].box = actors[a].box /\ Cur(a)' = NoKey /\ Running(a)'
      /\ actors'[a].pc \notin WorkPcs /\ (actors[a].closed => actors'[a].closed)
  BY Zenon DEF Becomes, Cur, Running
<1>2. \A b \in Actors : b # a => actors'[b] = actors[b]
  BY Zenon
<1>3. \A b \in Actors : actors[b].box \in Seq(Commands) /\ Cur(b) \in Commands \cup {NoKey}
  BY Zenon DEF TypeOK, ActorRecord, Cur
<1>4. epochs' = epochs
  BY Zenon
<1> HIDE Became
<1> SUFFICES ASSUME NEW b \in Actors PROVE MailOf(b)'
  BY Zenon DEF Mailboxes
<1>5. \A i \in DOMAIN actors[b].box : actors[b].box[i] \in Commands
  BY <1>3
<1>6. CASE b = a
  <2>2. \A i \in DOMAIN actors'[a].box :
          call'[actors'[a].box[i]] = Sent(a) /\ actors'[a].box[i] # Cur(a)'
    BY <1>1, <1>5, <1>6, NoKeyAssumption DEF Mailboxes, MailOf
  <2>3. ASSUME NEW c \in Commands, call'[c] = Sent(a)
        PROVE  Running(a)' /\ (c = Cur(a)' \/ Queued(a, c)')
    BY <1>0, <1>1, <2>3 DEF Mailboxes, MailOf, Queued
  <2>4. ASSUME NEW c \in Commands, call'[c] = Routed(a)
        PROVE  a <= epochs' /\ (Running(a)' \/ actors'[a].closed)
    BY <1>1, <1>4, <2>4 DEF Mailboxes, MailOf
  <2> QED
    BY <1>1, <1>6, <2>2, <2>3, <2>4 DEF Mailboxes, MailOf
<1>7. CASE b # a
  BY <1>0, <1>2, <1>4, <1>7, MailUntouched
<1> QED
  BY <1>6, <1>7, Zenon

-----------------------------------------------------------------------------
(* What actors know.                                                       *)

LEMMA KnowsUnchanged ==
  ASSUME NEW x, Knows(x), UNCHANGED <<backend, keyOf, stream, receipts>>
  PROVE  Knows(x)'
BY Zenon DEF Knows, Prefix, Fresh, Matches, Emitted, Keyed

(* More events take nothing from what was known, save at the point where   *)
(* the in-memory store has checked and not yet published.                  *)
LEMMA KnowsMore ==
  ASSUME TypeOK, NEW x \in ActorRecord, Knows(x), x.pc # "publish",
         UNCHANGED <<backend, keyOf>>,
         NEW c \in Commands, stream' \in {stream, Append(stream, c)}
  PROVE  Knows(x)'
<1>1. stream \in Seq(Commands) /\ x.version \in Nat
  BY Zenon DEF TypeOK, ActorRecord
<1>3. ASSUME x.pc \notin {"unborn", "gone"}
      PROVE  Prefix(x.state, x.version) /\ Prefix(x.state, x.version)'
  <2>1. Prefix(x.state, x.version)
    BY <1>3, Zenon DEF Knows
  <2> QED
    BY <1>1, <2>1 DEF Prefix
<1>4. ASSUME x.pc \in {"handle", "append"} PROVE Fresh(x.cur, x.version)'
  <2>1. Fresh(x.cur, x.version) /\ x.version <= Len(stream)
    BY <1>4, Zenon DEF Knows, Prefix
  <2> QED
    BY <1>1, <2>1 DEF Fresh, Keyed
<1>5. ASSUME x.pc = "apply"
      PROVE  x.version < Len(stream') /\ stream'[x.version + 1] = x.cur
  <2>1. x.version < Len(stream) /\ stream[x.version + 1] = x.cur
    BY <1>5, Zenon DEF Knows
  <2>2. x.version + 1 \in 1 .. Len(stream)
    BY <1>1, <2>1
  <2>3. \A i \in 1 .. Len(stream) : i <= Len(stream') /\ stream'[i] = stream[i]
    BY <1>1
  <2> QED
    BY <1>1, <2>1, <2>2, <2>3
<1>6. ASSUME x.pc \in {"post", "accept"} PROVE Emitted(x.cur)'
  BY <1>6 DEF Knows, Emitted
<1> QED
  BY <1>3, <1>4, <1>5, <1>6, Zenon DEF Knows, Keyed

LEMMA ActorIsRecord ==
  ASSUME TypeOK, NEW a \in Actors
  PROVE  actors[a] \in ActorRecord
BY Zenon DEF TypeOK

LEMMA TypedActor ==
  ASSUME TypeOK, NEW a \in Actors
  PROVE  /\ actors[a] \in ActorRecord
         /\ actors[a].node \in Nodes \cup {0}
         /\ actors[a].pc \in WorkPcs \cup RestPcs \cup {"unborn", "gone"}
         /\ actors[a].life \in Lives /\ actors[a].box \in Seq(Commands)
         /\ actors[a].closed \in BOOLEAN /\ actors[a].state \in Seq(Commands)
         /\ actors[a].version \in Nat /\ Cur(a) \in Commands \cup {NoKey}
BY Zenon DEF TypeOK, ActorRecord, Cur

(* The receipts and the log stay; a becomes x, which knows its place.      *)
LEMMA ActorsStillKnow ==
  ASSUME TypeOK, ActorsKnow, NEW a \in Actors, NEW x, Becomes(a, x), Knows(x),
         UNCHANGED <<stream, receipts>>
  PROVE  ActorsKnow'
BY Became, KnowsUnchanged, Zenon DEF ActorsKnow

LEMMA LogKept ==
  ASSUME Log, UNCHANGED <<keyOf, stream, receipts>>,
         NEW s, snapshot' = s, Prefix(s.state, s.version)
  PROVE  Log'
BY Zenon DEF Log, Prefix, AppliedOnce, Keyed

(* Nothing is learnt or lost where the actors and the stores stay.         *)
LEMMA NothingLearnt ==
  ASSUME ActorsKnow, Log,
         UNCHANGED <<backend, keyOf, actors, stream, receipts, snapshot>>
  PROVE  ActorsKnow' /\ Log'
<1>1. Log'
  BY Zenon DEF Log, Prefix, AppliedOnce, Keyed
<1> QED
  BY <1>1, KnowsUnchanged, Zenon DEF ActorsKnow

(* The log stays; answers given stay; a's event stays accounted for.       *)
LEMMA StillAccounted ==
  ASSUME TypeOK, Accounted, NEW a \in Actors, NEW x, Becomes(a, x), stream' = stream,
         \A c \in Commands, r \in Replies : call[c] = Answered(r) => call'[c] = Answered(r),
         actors[a].pc \in {"apply", "post", "accept"} =>
           \/ x.cur = Cur(a) /\ x.pc \in {"apply", "post", "accept"}
           \/ call'[Cur(a)] \in {Answered("Events"), Answered("PersistenceError"),
                                 Answered("ReplyDropped")}
  PROVE  Accounted'
BY Became DEF Accounted, Emitted, Cur, Replies

(* The receipts and the log stay; new answers claim nothing untrue.        *)
LEMMA StillTold ==
  ASSUME Told, UNCHANGED <<keyOf, stream, receipts>>,
         \A c \in Commands :
           \/ call'[c] = call[c]
           \/ call'[c] \notin {Answered("Events"), Answered("Replayed"), Answered("NoEvents")}
           \/ call'[c] = Answered("Events") /\ Emitted(c)
           \/ /\ call'[c] \in {Answered("Replayed"), Answered("NoEvents")}
              /\ Keyed(c) => receipts[keyOf[c]] # NoReceipt /\ Matches(c)
  PROVE  Told'
BY CallShapes DEF Told, Emitted, Matches, Keyed

-----------------------------------------------------------------------------
(* The mailbox moves.                                                      *)

Routing == <<backend, keyOf, active, epochs>>

(* The head of the box becomes the command at hand.                        *)
LEMMA ReceiveIInv ==
  ASSUME IInv, NEW a \in Actors, Receive(a), UNCHANGED Routing
  PROVE  IInv'
<1> USE DEF IInv
<1>1. PICK bx : bx = actors[a].box
  BY Zenon
<1>2. PICK c0 : c0 = Head(bx)
  BY Zenon
<1>3. PICK pc : pc = IF Keyed(c0) THEN "gate" ELSE "handle"
  BY Zenon
<1>4. /\ actors[a].pc = "loop" /\ bx # <<>> /\ bx \in Seq(Commands) /\ Running(a)
      /\ Cur(a) = NoKey /\ UNCHANGED <<call, stream, receipts, snapshot>>
      /\ UNCHANGED <<backend, keyOf, epochs, active>>
  <2>1. actors[a].pc = "loop" /\ bx # <<>> /\ UNCHANGED <<call, stream, receipts, snapshot>>
    BY <1>1, Zenon DEF Receive, stores
  <2>3. Cur(a) = NoKey
    BY <2>1, Zenon DEF Mailboxes, MailOf, WorkPcs
  <2> QED
    BY <2>1, <2>3, <1>1, TypedActor, Zenon DEF Routing, Running
<1>5. /\ c0 \in Commands /\ c0 = bx[1] /\ Tail(bx) \in Seq(Commands)
      /\ 1 \in DOMAIN bx /\ pc \in {"gate", "handle"}
      /\ \A i \in DOMAIN Tail(bx) : i + 1 \in DOMAIN bx /\ Tail(bx)[i] = bx[i + 1] /\ i \in Nat
      /\ \A i \in DOMAIN bx : i = 1 \/ (i - 1 \in DOMAIN Tail(bx) /\ Tail(bx)[i - 1] = bx[i])
  BY <1>2, <1>3, <1>4
<1>6. PICK x : x = [actors[a] EXCEPT !.box = Tail(bx), !.cur = c0, !.pc = pc]
  BY Zenon
<1>7. x \in ActorRecord
  <2>1. pc \in WorkPcs /\ c0 \in Commands /\ Tail(bx) \in Seq(Commands)
    BY <1>5, Zenon DEF WorkPcs
  <2> QED
    BY <1>6, <2>1, ActorIsRecord, Zenon DEF ActorRecord
<1>8. /\ x.box = Tail(bx) /\ x.cur = c0 /\ x.pc = pc
      /\ x.node = actors[a].node /\ x.closed = actors[a].closed
      /\ x.state = actors[a].state /\ x.version = actors[a].version
  BY <1>6, ActorIsRecord, Zenon DEF ActorRecord
<1>9. actors' = [actors EXCEPT ![a] = x]
  BY <1>1, <1>2, <1>3, <1>6, Zenon DEF Receive
<1>10. Becomes(a, x)
  BY <1>4, <1>5, <1>7, <1>8, <1>9, Zenon DEF Becomes
<1>11. TypeOK'
  BY <1>4, <1>10, Became, Zenon DEF TypeOK
<1>12. Registry'
  BY <1>4, <1>10, RegistryStays, Zenon
<1>13. ActorsKnow'
  <2>1. Prefix(x.state, x.version)
    BY <1>4, <1>8, Zenon DEF ActorsKnow, Knows
  <2>3. Knows(x)
    BY <1>3, <1>5, <1>8, <2>1, Zenon DEF Knows, Fresh
  <2> QED
    BY <1>4, <1>10, <2>3, ActorsStillKnow, Zenon
<1>14. Log'
  BY <1>4, Zenon DEF Log, Prefix, AppliedOnce, Keyed
<1>15. Accounted'
  BY <1>4, <1>10, StillAccounted, Zenon
<1>16. Told'
  BY <1>4, StillTold, Zenon
<1>17. Mailboxes'
  <2> SUFFICES ASSUME NEW b \in Actors PROVE MailOf(b)'
    BY Zenon DEF Mailboxes
  <2>1. CASE b # a
    BY <1>4, <1>10, <2>1, Became, MailUntouched, Zenon
  <2>2. CASE b = a
    <3>1. /\ actors'[a].box = Tail(bx) /\ Cur(a)' = c0 /\ actors'[a].pc = pc
          /\ actors'[a].closed = actors[a].closed /\ Running(a)'
      BY <1>5, <1>7, <1>8, <1>10, Became, Zenon DEF Cur, Running
    <3>2. /\ \A i \in DOMAIN bx : call[bx[i]] = Sent(a)
          /\ \A i, j \in DOMAIN bx : bx[i] = bx[j] => i = j
          /\ \A c \in Commands : call[c] = Sent(a) => \E i \in DOMAIN bx : bx[i] = c
          /\ \A c \in Commands : call[c] = Routed(a) => a <= epochs
      BY <1>1, <1>4, NoKeyAssumption, Zenon DEF Mailboxes, MailOf, Queued
    <3>3. actors'[a].pc \in WorkPcs /\ c0 # NoKey
      BY <1>5, <3>1, NoKeyAssumption, Zenon DEF WorkPcs
    <3>6. ASSUME NEW c \in Commands, call[c] = Sent(a)
          PROVE  c = c0 \/ \E i \in DOMAIN Tail(bx) : Tail(bx)[i] = c
      <4>1. PICK i \in DOMAIN bx : bx[i] = c
        BY <3>2, <3>6, Zenon
      <4>2. CASE i = 1
        BY <1>5, <4>1, <4>2, Zenon
      <4>3. CASE i - 1 \in DOMAIN Tail(bx) /\ Tail(bx)[i - 1] = bx[i]
        BY <4>1, <4>3, Zenon
      <4> QED
        BY <4>2, <4>3
    <3>7. \A c \in Commands : Queued(a, c)' <=> \E i \in DOMAIN Tail(bx) : Tail(bx)[i] = c
      BY <3>1, Zenon DEF Queued
    <3>8. call[c0] = Sent(a)
      BY <1>5, <3>2, Zenon
    <3>9. /\ \A i \in DOMAIN Tail(bx) : call[Tail(bx)[i]] = Sent(a) /\ Tail(bx)[i] # c0
          /\ \A i, j \in DOMAIN Tail(bx) : Tail(bx)[i] = Tail(bx)[j] => i = j
      BY <1>5, <3>2
    <3>10. \A c \in Commands : call[c] = Sent(a) => c = Cur(a)' \/ Queued(a, c)'
      BY <3>1, <3>6, <3>7, Zenon
    <3> QED
      BY <1>4, <2>2, <3>1, <3>2, <3>3, <3>8, <3>9, <3>10 DEF MailOf
  <2> QED
    BY <2>1, <2>2, Zenon
<1> QED
  BY <1>11, <1>12, <1>13, <1>14, <1>15, <1>16, <1>17, Zenon

(* An actor gives up what it has: its command and its box are answered and *)
(* it takes nothing more.                                                  *)
LEMMA EmptiedIInv ==
  ASSUME IInv, NEW a \in Actors, Running(a), NEW x, Becomes(a, x),
         x.pc \in {"exit", "drained"}, x.closed, x.box = <<>>, x.cur = NoKey,
         Prefix(x.state, x.version),
         UNCHANGED <<stream, receipts, snapshot>>, call' \in [Commands -> Calls],
         \A c \in Commands :
           \/ call[c] # Sent(a) /\ call'[c] = call[c]
           \/ /\ call[c] = Sent(a)
              /\ \/ call'[c] \in {Answered("PersistenceError"), Answered("ReplyDropped")}
                 \/ c # Cur(a) /\ call'[c] = Answered("EntityNotActive")
  PROVE  IInv'
<1> USE DEF IInv
<1>1. UNCHANGED <<backend, keyOf, active, epochs>>
  BY Zenon DEF Becomes
<1>2. \A c \in Commands, b \in Actors :
        /\ call'[c] = Sent(b) <=> call[c] = Sent(b) /\ b # a
        /\ call'[c] = Routed(b) => call[c] = Routed(b)
  BY CallShapes
<1>3. \A c \in Commands, r \in Replies : call[c] = Answered(r) => call'[c] = Answered(r)
  BY CallShapes, Zenon
<1>9. TypeOK'
  BY <1>1, Became, Zenon DEF TypeOK
<1>10. Registry'
  BY RegistryStays, Zenon
<1>11. Mailboxes'
  <2> SUFFICES ASSUME NEW b \in Actors PROVE MailOf(b)'
    BY Zenon DEF Mailboxes
  <2>1. CASE b # a
    <3>1. actors'[b] = actors[b]
      BY <2>1, Became, Zenon
    <3> QED
      BY <1>1, <1>2, <2>1, <3>1, MailUntouched, Zenon
  <2>2. CASE b = a
    <3>1. /\ actors'[a].box = <<>> /\ Cur(a)' = NoKey /\ actors'[a].pc \in {"exit", "drained"}
          /\ actors'[a].closed /\ Running(a)'
      BY Became, ZenonT(40) DEF Cur, Running
    <3>3. \A c \in Commands : call'[c] = Routed(a) => a <= epochs
      BY <1>2, Zenon DEF Mailboxes, MailOf
    <3> QED
      BY <1>1, <1>2, <2>2, <3>1, <3>3 DEF MailOf, WorkPcs
  <2> QED
    BY <2>1, <2>2, Zenon
<1>12. ActorsKnow'
  BY ActorsStillKnow, Zenon DEF Knows
<1>13. Log'
  BY <1>1, Zenon DEF Log, Prefix, AppliedOnce, Keyed
<1>14. Accounted'
  <2>1. ASSUME actors[a].pc \in {"apply", "post", "accept"}
        PROVE  call'[Cur(a)] \in {Answered("Events"), Answered("PersistenceError"),
                                 Answered("ReplyDropped")}
    <3>1. Cur(a) \in Commands /\ call[Cur(a)] = Sent(a)
      BY <2>1, TypedActor, Zenon DEF Mailboxes, MailOf, WorkPcs
    <3> QED
      BY <3>1, Zenon
  <2> QED
    BY <1>3, <2>1, StillAccounted, Zenon
<1>15. Told'
  <2>1. {Answered("ReplyDropped"), Answered("PersistenceError"), Answered("EntityNotActive")}
          \cap {Answered("Events"), Answered("Replayed"), Answered("NoEvents")} = {}
    BY CallShapes
  <2> QED
    BY <1>1, <2>1, StillTold, Zenon
<1> QED
  BY <1>9, <1>10, <1>11, <1>12, <1>13, <1>14, <1>15, Zenon

(* A failed actor refuses what is queued.                                  *)
LEMMA DrainFailedIInv ==
  ASSUME IInv, NEW a \in Actors, DrainFailed(a), UNCHANGED Routing
  PROVE  IInv'
<1> USE DEF IInv
<1>r. PICK r : r = IF actors[a].pc = "failed" THEN "PersistenceError" ELSE "EntityNotActive"
  BY Zenon
<1>1. /\ actors[a].pc \in {"unrecovered", "failed"} /\ Running(a) /\ call' = Refused(a, r)
      /\ UNCHANGED <<stream, receipts, snapshot, backend, keyOf, active, epochs>>
  BY <1>r, Zenon DEF DrainFailed, Running, stores, Routing
<1>2. Cur(a) = NoKey
  BY <1>1, Zenon DEF Mailboxes, MailOf, WorkPcs
<1>0. PICK none \in Seq(Commands) : none = <<>>
  <2>1. <<>> \in Seq(Commands)
    OBVIOUS
  <2> QED
    BY <2>1, Zenon
<1>3. PICK x : x = [actors[a] EXCEPT !.pc = "exit", !.closed = TRUE, !.box = none]
  BY Zenon
<1>4. x \in ActorRecord /\ x.pc = "exit" /\ x.closed /\ x.box = <<>>
  <2>1. x \in ActorRecord /\ x.pc = "exit" /\ x.closed /\ x.box = none
    BY <1>3, ActorIsRecord, Zenon DEF ActorRecord, RestPcs
  <2> QED
    BY <1>0, <2>1, Zenon
<1>5. /\ x.node = actors[a].node /\ x.cur = NoKey
      /\ x.state = actors[a].state /\ x.version = actors[a].version
  BY <1>2, <1>3 DEF ActorRecord, Cur
<1>6. actors' = [actors EXCEPT ![a] = x]
  BY <1>0, <1>3, Zenon DEF DrainFailed
<1>7. Becomes(a, x)
  BY <1>1, <1>4, <1>5, <1>6, Zenon DEF Becomes
<1>a. Answered(r) \in {Answered("PersistenceError"), Answered("EntityNotActive")}
        /\ Answered(r) \in Calls
  BY <1>r, Zenon DEF Calls, Replies
<1>8. /\ \A c \in Commands :
           \/ call[c] # Sent(a) /\ call'[c] = call[c]
           \/ call[c] = Sent(a) /\ c # Cur(a) /\ call'[c] = Answered(r)
      /\ call' \in [Commands -> Calls]
  BY <1>1, <1>2, <1>a, NoKeyAssumption, Zenon DEF Refused, TypeOK
<1>9. Prefix(x.state, x.version)
  BY <1>1, <1>5, Zenon DEF ActorsKnow, Knows, Running
<1> QED
  BY <1>1, <1>4, <1>5, <1>7, <1>8, <1>9, <1>a, EmptiedIInv, Zenon

-----------------------------------------------------------------------------
(* The end of an actor.                                                    *)

LEMMA UnbornShape ==
  ASSUME NEW n \in Nodes \cup {0}, NEW u, u = Unborn(n)
  PROVE  /\ u \in ActorRecord /\ u.node = n /\ u.pc = "unborn" /\ u.box = <<>>
         /\ u.closed = FALSE /\ u.cur = NoKey /\ u.state = <<>> /\ u.version = 0
<1>1. PICK none \in Seq(Commands) : none = <<>>
  <2>1. <<>> \in Seq(Commands)
    OBVIOUS
  <2> QED
    BY <2>1, Zenon
<1> QED
  BY <1>1, Zenon DEF ActorRecord, Lives, Unborn

LEMMA DrainedShape ==
  ASSUME TypeOK, NEW a \in Actors, NEW d, d = Drained(a)
  PROVE  /\ d \in ActorRecord /\ d.node = actors[a].node
         /\ d.pc = "drained" /\ d.closed /\ d.box = <<>>
         /\ d.cur = NoKey /\ d.state = <<>> /\ d.version = 0
<1>0. PICK n \in Nodes \cup {0} : n = actors[a].node
  BY TypedActor, Zenon
<1>1. PICK u : u = Unborn(n)
  BY Zenon
<1>2. /\ u \in ActorRecord /\ u.node = n /\ u.box = <<>> /\ u.cur = NoKey
      /\ u.state = <<>> /\ u.version = 0
  BY <1>1, UnbornShape, Zenon
<1> QED
  BY <1>0, <1>2, <1>1, Zenon DEF ActorRecord, Drained, RestPcs

LEMMA EndedShape ==
  ASSUME TypeOK, NEW a \in Actors
  PROVE  /\ Ended(a) \in ActorRecord /\ Ended(a).node = actors[a].node
         /\ Ended(a).pc = "gone" /\ Ended(a).closed /\ Ended(a).box = <<>>
         /\ Ended(a).cur = NoKey
<1>1. PICK d : d = Drained(a)
  BY Zenon
<1>2. /\ d \in ActorRecord /\ d.node = actors[a].node /\ d.closed /\ d.box = <<>>
      /\ d.cur = NoKey
  BY <1>1, DrainedShape, Zenon
<1> QED
  BY <1>2, <1>1, Zenon DEF ActorRecord, Ended

(* The running actors S end: their nodes route to nobody, and what was in  *)
(* their hands is answered.                                                *)
Ending(S) ==
  /\ \A a \in S : Running(a)
  /\ actors' = [a \in Actors |-> IF a \in S THEN Ended(a) ELSE actors[a]]
  /\ active' \in [Nodes -> Nat]
  /\ \A n \in Nodes : active'[n] = IF active[n] \in S THEN 0 ELSE active[n]
  /\ UNCHANGED <<backend, keyOf, epochs, stream, receipts, snapshot>>
  /\ call' \in [Commands -> Calls]
  /\ \A c \in Commands :
       \/ call'[c] = call[c] /\ \A a \in S : call[c] # Sent(a)
       \/ /\ \/ \E a \in S : call[c] = Sent(a)
             \/ \E a \in Actors : call[c] = Routed(a)
          /\ call'[c] \in {Answered("ReplyDropped"), Answered("ProcessDied")}
       \/ /\ call'[c] = Answered("EntityNotActive")
          /\ \E a \in S : call[c] = Sent(a) /\ c # Cur(a)

LEMMA EndingIInv ==
  ASSUME IInv, NEW S, S \subseteq Actors, Ending(S)
  PROVE  IInv'
<1> USE DEF IInv
<1>0. UNCHANGED <<backend, keyOf, epochs, stream, receipts, snapshot>>
  BY Zenon DEF Ending
<1>1. \A a \in S : /\ actors'[a] \in ActorRecord /\ actors'[a].node = actors[a].node
                   /\ actors'[a].pc = "gone" /\ actors'[a].closed /\ actors'[a].box = <<>>
                   /\ Cur(a)' = NoKey
  BY EndedShape, Zenon DEF Ending, Cur
<1>2. \A a \in Actors \ S : actors'[a] = actors[a]
  BY Zenon DEF Ending
<1>3. \A a \in Actors : Running(a)' <=> Running(a) /\ a \notin S
  BY <1>1, <1>2, Zenon DEF Running
<1>4. TypeOK'
  <2>1. actors' \in [Actors -> ActorRecord]
    <3>3. actors' = [a \in Actors |-> actors'[a]]
      BY Zenon DEF Ending
    <3> QED
      BY <3>3, <1>1, <1>2, TypedActor, Zenon
  <2> QED
    BY <1>0, <2>1, Zenon DEF TypeOK, Ending
<1>5. Registry'
  <2>1. ASSUME NEW n \in Nodes, active'[n] # 0
        PROVE  /\ active'[n] \in Actors /\ Running(active[n])'
               /\ actors'[active'[n]].node = n
    <3>1. active'[n] = active[n] /\ active[n] \notin S
      BY <2>1, Zenon DEF Ending
    <3> QED
      BY <3>1, <2>1, <1>2 DEF Registry, Running
  <2>2. ASSUME NEW a \in Actors, Running(a)'
        PROVE  actors'[a].node \in Nodes /\ active'[actors'[a].node] = a
    BY <1>2, <1>3, <2>2 DEF Registry, Ending
  <2>3. \A a \in Actors : /\ actors'[a].node = actors[a].node
                          /\ actors'[a].pc = "unborn" <=> actors[a].pc = "unborn"
    BY <1>1, <1>2, Zenon DEF Ending, Running
  <2>5. backend' = "memory" => \A a, b \in Actors :
          a <= epochs' /\ b <= epochs' => actors'[a].node = actors'[b].node
    BY <1>0, <2>3 DEF Registry
  <2> QED
    BY <2>1, <2>2, <2>5, <1>0, <2>3, Zenon DEF Registry
<1>6. \A c \in Commands, a \in Actors :
        /\ call'[c] = Sent(a) <=> call[c] = Sent(a) /\ a \notin S
        /\ call'[c] = Routed(a) => call[c] = Routed(a)
  BY CallShapes DEF Ending
<1>7. Mailboxes'
  <2> SUFFICES ASSUME NEW b \in Actors PROVE MailOf(b)'
    BY Zenon DEF Mailboxes
  <2>1. CASE b \notin S
    BY <1>0, <1>2, <1>6, <2>1, MailUntouched, Zenon
  <2>2. CASE b \in S
    <3>2. \A c \in Commands : call'[c] = Routed(b) => b <= epochs
      BY <1>6, Zenon DEF Mailboxes, MailOf
    <3> QED
      BY <1>0, <1>1, <1>6, <2>2, <3>2 DEF MailOf, WorkPcs
  <2> QED
    BY <2>1, <2>2, Zenon
<1>8. ActorsKnow'
  <2> SUFFICES ASSUME NEW b \in Actors PROVE Knows(actors[b])'
    BY Zenon DEF ActorsKnow
  <2>1. PICK y : y = actors'[b]
    BY Zenon
  <2>2. Knows(y)
    BY <1>1, <2>1, <1>2 DEF Knows, ActorsKnow
  <2> QED
    BY <2>1, <1>0, <2>2, KnowsUnchanged, Zenon
<1>9. Log'
  BY <1>0, Zenon DEF Log, Prefix, AppliedOnce, Keyed
<1>10. Accounted'
  <2> SUFFICES ASSUME NEW c \in Commands, Emitted(c)
               PROVE  \/ \E b \in Actors : Cur(b)' = c /\ actors'[b].pc \in {"apply", "post", "accept"}
                      \/ call'[c] \in {Answered(r) : r \in {"Events", "PersistenceError",
                                                  "ReplyDropped", "ProcessDied"}}
    BY <1>0, Zenon DEF Accounted, Emitted
  <2>1. ASSUME NEW b \in Actors, Cur(b) = c, actors[b].pc \in {"apply", "post", "accept"}
        PROVE  \/ Cur(b)' = c /\ actors'[b].pc \in {"apply", "post", "accept"}
               \/ call'[c] \in {Answered("ReplyDropped"), Answered("ProcessDied")}
    <3>1. call[c] = Sent(b)
      BY <2>1, NoKeyAssumption, Zenon DEF Mailboxes, MailOf
    <3>2. CASE b \notin S
      BY <1>2, <2>1, <3>2, Zenon DEF Cur
    <3>3. CASE b \in S
      BY <2>1, <3>1, CallShapes, <3>3 DEF Ending
    <3> QED
      BY <3>2, <3>3, Zenon
  <2>2. ASSUME NEW r \in {"Events", "PersistenceError", "ReplyDropped", "ProcessDied"},
               call[c] = Answered(r)
        PROVE  call'[c] = Answered(r)
    BY <2>2, CallShapes DEF Ending
  <2> QED
    BY <2>1, <2>2, Zenon DEF Accounted
<1>11. Told'
  <2>2. {Answered("ReplyDropped"), Answered("ProcessDied"), Answered("EntityNotActive")}
          \cap {Answered("Events"), Answered("Replayed"), Answered("NoEvents")} = {}
    OBVIOUS
  <2> QED
    BY <1>0, <2>2, StillTold, Zenon DEF Ending
<1> QED
  BY <1>4, <1>5, <1>7, <1>8, <1>9, <1>10, <1>11, Zenon

LEMMA TeardownIInv ==
  ASSUME IInv, NEW a \in Actors, Running(a), Teardown(a),
         UNCHANGED <<backend, keyOf, epochs, stores>>
  PROVE  IInv'
<1> USE DEF IInv
<1>1. PICK x : x = Drained(a)
  BY Zenon
<1>2. /\ x \in ActorRecord /\ x.node = actors[a].node
      /\ x.pc = "drained" /\ x.closed /\ x.box = <<>>
      /\ x.cur = NoKey /\ x.state = <<>> /\ x.version = 0
  BY <1>1, DrainedShape, Zenon
<1>3. Becomes(a, x)
  BY <1>1, <1>2, Zenon DEF Becomes, Teardown
<1>4. Prefix(x.state, x.version)
  BY <1>2 DEF Prefix, TypeOK
<1>5. UNCHANGED <<stream, receipts, snapshot>>
  BY Zenon DEF stores
<1>6. Answered("ReplyDropped") \in Calls /\ Answered("EntityNotActive") \in Calls
  BY Zenon DEF Calls, Replies
<1>7. ASSUME NEW c \in Commands
      PROVE  /\ call'[c] \in Calls
             /\ \/ call[c] # Sent(a) /\ call'[c] = call[c]
                \/ /\ call[c] = Sent(a)
                   /\ \/ call'[c] \in {Answered("PersistenceError"), Answered("ReplyDropped")}
                      \/ c # Cur(a) /\ call'[c] = Answered("EntityNotActive")
  <2>1. call[c] \in Calls
    BY Zenon DEF TypeOK
  <2>3. CASE call[c] # Sent(a) /\ c = Cur(a)
    BY <2>3, NoKeyAssumption, Zenon DEF Mailboxes, MailOf
  <2>4. CASE call[c] # Sent(a) /\ c # Cur(a)
    BY <2>1, <2>4, Zenon DEF Teardown
  <2>5. CASE call[c] = Sent(a) /\ c = Cur(a)
    BY <1>6, <2>5, Zenon DEF Teardown
  <2>6. CASE call[c] = Sent(a) /\ c # Cur(a)
    BY <1>6, <2>6, Zenon DEF Teardown
  <2> QED
    BY <2>3, <2>4, <2>5, <2>6, Zenon
<1>8. call' \in [Commands -> Calls]
  BY <1>7, Zenon DEF Teardown
<1> QED
  BY <1>2, <1>3, <1>4, <1>5, <1>7, <1>8, EmptiedIInv, Zenon

LEMMA EvictIInv ==
  ASSUME IInv, NEW a \in Actors, Evict(a)
  PROVE  IInv'
<1> USE DEF IInv
<1>1. actors[a].pc = "drained" /\ Running(a)
  BY Zenon DEF Evict, Running
<1>2. PICK m \in Nodes : m = actors[a].node /\ active[m] = a
  BY <1>1, Zenon DEF Registry
<1>3. /\ active' \in [Nodes -> Nat]
      /\ \A n \in Nodes : active'[n] = IF active[n] \in {a} THEN 0 ELSE active[n]
  <2>2. \A n \in Nodes : active[n] = a => n = m
    BY <1>2 DEF Registry, Actors
  <2> QED
    BY <1>2, <2>2, Zenon DEF Evict, Evicted, TypeOK
<1>4. \A c \in Commands : call[c] # Sent(a)
  <2>1. Cur(a) = NoKey
    BY <1>1, Zenon DEF Mailboxes, MailOf, WorkPcs
  <2>2. actors[a].box = <<>>
    BY <1>1, Zenon DEF ActorsKnow, Knows
  <2>3. \A c \in Commands : ~Queued(a, c)
    BY <2>2 DEF Queued
  <2> QED
    BY <2>1, <2>3, NoKeyAssumption, Zenon DEF Mailboxes, MailOf
<1>6. Ending({a})
  BY <1>1, <1>3, <1>4, Zenon DEF Ending, stores, Evict, TypeOK
<1> QED
  BY <1>6, EndingIInv, Zenon

LEMMA CrashIInv ==
  ASSUME IInv, NEW n \in Nodes, Crash(n)
  PROVE  IInv'
<1> USE DEF IInv
<1>1. PICK S : S = {a \in Actors : actors[a].node = n /\ Running(a)}
  BY Zenon
<1>3. /\ active' \in [Nodes -> Nat]
      /\ \A m \in Nodes : active'[m] = IF active[m] \in S THEN 0 ELSE active[m]
  <2>1. active' = [active EXCEPT ![n] = 0] /\ active \in [Nodes -> Nat] /\ active[n] # 0
    BY Zenon DEF Crash, TypeOK
  <2>2. active[n] \in S
    BY <1>1, <2>1, Zenon DEF Registry
  <2>3. \A m \in Nodes : active[m] \in S => m = n
    BY <1>1 DEF Registry, Actors
  <2> QED
    BY <2>1, <2>2, <2>3, Zenon
<1>4. ASSUME NEW c \in Commands
      PROVE  /\ call'[c] \in Calls
             /\ \/ call'[c] = call[c] /\ \A b \in S : call[c] # Sent(b)
                \/ /\ \/ \E b \in S : call[c] = Sent(b)
                      \/ \E b \in Actors : call[c] = Routed(b)
                   /\ call'[c] \in {Answered("ReplyDropped"), Answered("ProcessDied")}
  <2>0. "ProcessDied" \in Replies
    BY Zenon DEF Replies
  <2>1. call[c] \in Calls /\ Answered("ProcessDied") \in Calls
    BY <2>0, Zenon DEF TypeOK, Calls
  <2>2. call'[c] = IF call[c].at \in {"routed", "sent"} /\ actors[call[c].actor].node = n
                   THEN Answered("ProcessDied") ELSE call[c]
    BY Zenon DEF Crash
  <2>3. CASE call[c].at \in {"routed", "sent"} /\ actors[call[c].actor].node = n
    <3> QED
      BY <2>1, <2>2, <2>3, CallTags, <1>1, Zenon DEF Mailboxes, MailOf
  <2>4. CASE ~(call[c].at \in {"routed", "sent"} /\ actors[call[c].actor].node = n)
    <3>2. \A b \in S : call[c] # Sent(b)
      BY <2>4, <1>1 DEF Sent
    <3> QED
      BY <2>1, <2>2, <2>4, <3>2, Zenon
  <2> QED
    BY <2>3, <2>4, Zenon
<1>8. Ending(S)
  BY <1>3, <1>4, <1>1, Zenon DEF Ending, Crash, stores
<1> QED
  BY <1>8, EndingIInv, <1>1, Zenon

-----------------------------------------------------------------------------
(* The calls.                                                              *)

(* A call not answered yet goes on, or is refused by a closed mailbox.     *)
LEMMA CallGoesOn ==
  ASSUME IInv, NEW c \in Commands, NEW v,
         call[c] = Idle \/ \E a \in Actors : call[c] = Routed(a),
         v \in {Answered("MailboxClosed")} \cup {Routed(a) : a \in Actors}
                 \cup {Sent(a) : a \in Actors},
         call' = [call EXCEPT ![c] = v]
  PROVE  /\ call' \in [Commands -> Calls] /\ call'[c] = v
         /\ \A d \in Commands : d # c => call'[d] = call[d]
         /\ \A d \in Commands, r \in Replies : call[d] = Answered(r) => call'[d] = Answered(r)
         /\ \A a \in Actors : call[c] # Sent(a)
         /\ call'[c] \notin {Answered("Events"), Answered("Replayed"), Answered("NoEvents")}
<1>1. call \in [Commands -> Calls] /\ v \in Calls
  BY Zenon DEF IInv, TypeOK, Calls, Replies
<1> QED
  BY <1>1, CallShapes, Zenon

(* The actors other than x's stay; the stores stay.                        *)
LEMMA SendRefused ==
  ASSUME IInv, NEW c \in Commands, NEW a \in Actors, call[c] = Routed(a), actors[a].closed,
         call' = [call EXCEPT ![c] = Answered("MailboxClosed")],
         UNCHANGED <<actors, backend, keyOf, active, epochs, stores>>
  PROVE  IInv'
<1> USE DEF IInv
<1>1. PICK v : v = Answered("MailboxClosed")
  BY Zenon
<1>2. /\ call' \in [Commands -> Calls] /\ call'[c] = v
      /\ \A d \in Commands : d # c => call'[d] = call[d]
      /\ \A d \in Commands, r \in Replies : call[d] = Answered(r) => call'[d] = Answered(r)
      /\ \A b \in Actors : call[c] # Sent(b)
      /\ call'[c] \notin {Answered("Events"), Answered("Replayed"), Answered("NoEvents")}
  BY <1>1, CallGoesOn, Zenon
<1>3. UNCHANGED <<stream, receipts, snapshot>>
  BY Zenon DEF stores
<1>4. TypeOK' /\ Registry'
  BY <1>2, <1>3 DEF TypeOK, Registry, Running
<1>5. Mailboxes'
  <2>1. \A d \in Commands, b \in Actors :
          /\ call'[d] = Sent(b) <=> call[d] = Sent(b)
          /\ call'[d] = Routed(b) => call[d] = Routed(b)
    BY CallShapes
  <2> QED
    BY <2>1, MailUntouched, Zenon DEF Mailboxes
<1>6. ActorsKnow' /\ Log'
  BY <1>3, NothingLearnt, Zenon
<1>7. Accounted'
  BY <1>2, <1>3 DEF Accounted, Emitted, Cur, Replies
<1>8. Told'
  BY <1>2, <1>3, StillTold, Zenon
<1> QED
  BY <1>4, <1>5, <1>6, <1>7, <1>8, Zenon

(* The mailbox takes the command.                                          *)
LEMMA SendTaken ==
  ASSUME IInv, NEW c \in Commands, NEW a \in Actors, call[c] = Routed(a), ~actors[a].closed,
         actors' = [actors EXCEPT ![a].box = Append(@, c)],
         call' = [call EXCEPT ![c] = Sent(a)],
         UNCHANGED <<backend, keyOf, active, epochs, stores>>
  PROVE  IInv'
<1> USE DEF IInv
<1>1. PICK v : v = Sent(a)
  BY Zenon
<1>2. /\ call' \in [Commands -> Calls] /\ call'[c] = v
      /\ \A d \in Commands : d # c => call'[d] = call[d]
      /\ \A d \in Commands, r \in Replies : call[d] = Answered(r) => call'[d] = Answered(r)
      /\ \A b \in Actors : call[c] # Sent(b)
      /\ call'[c] \notin {Answered("Events"), Answered("Replayed"), Answered("NoEvents")}
  BY <1>1, CallGoesOn, Zenon
<1>4. Running(a) /\ a <= epochs
  BY Zenon DEF Mailboxes, MailOf
<1>5. PICK bx : bx = actors[a].box
  BY Zenon
<1>6. /\ bx \in Seq(Commands) /\ Append(bx, c) \in Seq(Commands)
      /\ DOMAIN Append(bx, c) = DOMAIN bx \cup {Len(bx) + 1}
      /\ Append(bx, c)[Len(bx) + 1] = c
      /\ \A i \in DOMAIN bx : Append(bx, c)[i] = bx[i] /\ bx[i] \in Commands
  <2>1. bx \in Seq(Commands)
    BY <1>5, TypedActor, Zenon
  <2> QED
    BY <2>1
<1>7. PICK x : x = [actors[a] EXCEPT !.box = Append(bx, c)]
  BY Zenon
<1>8. x \in ActorRecord /\ x.box = Append(bx, c)
  BY <1>6, <1>7, ActorIsRecord, Zenon DEF ActorRecord
<1>9. /\ x.node = actors[a].node /\ x.pc = actors[a].pc /\ x.cur = Cur(a)
      /\ x.closed = actors[a].closed /\ x.state = actors[a].state
      /\ x.version = actors[a].version
  BY <1>7 DEF ActorRecord, Cur
<1>11. Becomes(a, x)
  BY <1>4, <1>8, <1>9, <1>5, <1>7, Zenon DEF Becomes, Running
<1>12. TypeOK'
  BY <1>2, <1>11, Became, Zenon DEF TypeOK, stores
<1>13. Registry'
  BY <1>4, <1>11, RegistryStays, Zenon
<1>14. ActorsKnow'
  <2>1. Knows(actors[a])
    BY Zenon DEF ActorsKnow
  <2>2. Knows(x)
    BY <1>9, <2>1, Zenon DEF Knows, Cur
  <2> QED
    BY <1>11, <2>2, ActorsStillKnow, Zenon DEF stores
<1>15. Log'
  BY Zenon DEF Log, Prefix, AppliedOnce, Keyed, stores
<1>16. Accounted'
  BY <1>2, <1>9, <1>11, StillAccounted, Zenon DEF stores
<1>17. Told'
  BY <1>2, StillTold, Zenon DEF stores
<1>18. Mailboxes'
  <2> SUFFICES ASSUME NEW b \in Actors PROVE MailOf(b)'
    BY Zenon DEF Mailboxes
  <2>0. \A d \in Commands, e \in Actors :
          /\ call'[d] = Sent(e) <=> call[d] = Sent(e) \/ (d = c /\ e = a)
          /\ call'[d] = Routed(e) => call[d] = Routed(e)
    BY <1>2, CallShapes
  <2>1. /\ Cur(b) \in Commands \cup {NoKey} /\ actors[b].box \in Seq(Commands)
        /\ Cur(b) # c /\ \A i \in DOMAIN actors[b].box : actors[b].box[i] # c
    BY <1>2, TypedActor, NoKeyAssumption DEF Mailboxes, MailOf
  <2>2. CASE b # a
    <3>1. actors'[b] = actors[b]
      BY <1>11, <2>2, Became, Zenon
    <3> QED
      BY <2>0, <2>2, <3>1, MailUntouched, Zenon
  <2>3. CASE b = a
    <3>1. /\ actors'[a].box = Append(bx, c) /\ Cur(a)' = Cur(a)
          /\ actors'[a].pc = actors[a].pc /\ Running(a)'
      <4>1. actors'[a] = x
        BY <1>11, Became, Zenon
      <4> QED
        BY <1>4, <1>8, <1>9, <4>1, Zenon DEF Cur, Running
    <3>3. \A i \in DOMAIN Append(bx, c) :
            call'[Append(bx, c)[i]] = Sent(a) /\ Append(bx, c)[i] # Cur(a)
      BY <1>5, <2>0, <2>1, <2>3 DEF Mailboxes, MailOf
    <3>4. \A i, j \in DOMAIN Append(bx, c) : Append(bx, c)[i] = Append(bx, c)[j] => i = j
      BY <1>5, <1>6, <2>1, <2>3 DEF Mailboxes, MailOf
    <3>5. \A d \in Commands : Queued(a, d)' <=> Queued(a, d) \/ d = c
      BY <3>1 DEF Queued
    <3> QED
      BY <2>3, <3>1, <3>3, <3>4, <3>5 DEF Mailboxes, MailOf
  <2> QED
    BY <2>2, <2>3, Zenon
<1> QED
  BY <1>12, <1>13, <1>14, <1>15, <1>16, <1>17, <1>18, Zenon

LEMMA SendIInv ==
  ASSUME IInv, NEW c \in Commands, send(c)
  PROVE  IInv'
<1>1. PICK a \in Actors : a = call[c].actor /\ call[c] = Routed(a)
  <2>1. call[c] \in Calls
    BY Zenon DEF IInv, TypeOK
  <2> QED
    BY <2>1, CallTags, Zenon DEF send
<1>2. CASE actors[a].closed
  BY <1>1, <1>2, SendRefused, Zenon DEF send
<1>3. CASE ~actors[a].closed
  BY <1>1, <1>3, SendTaken, Zenon DEF send
<1> QED
  BY <1>2, <1>3, Zenon


-----------------------------------------------------------------------------
(* entity_ref: the lookup, and the activation of an actor.                 *)

(* The live entry is reused.                                               *)
LEMMA RefReused ==
  ASSUME IInv, NEW c \in Commands, NEW n \in Nodes, call[c] = Idle, active[n] # 0,
         call' = [call EXCEPT ![c] = Routed(active[n])],
         UNCHANGED <<actors, backend, keyOf, active, epochs, stores>>
  PROVE  IInv'
<1> USE DEF IInv
<1>0. PICK a \in Actors : a = active[n] /\ Running(a)
  BY Zenon DEF Registry
<1>1. PICK v : v = Routed(a)
  BY Zenon
<1>2. /\ call' \in [Commands -> Calls] /\ call'[c] = v
      /\ \A d \in Commands : d # c => call'[d] = call[d]
      /\ \A d \in Commands, r \in Replies : call[d] = Answered(r) => call'[d] = Answered(r)
      /\ \A b \in Actors : call[c] # Sent(b)
      /\ call'[c] \notin {Answered("Events"), Answered("Replayed"), Answered("NoEvents")}
  BY <1>0, <1>1, CallGoesOn, Zenon
<1>3. UNCHANGED <<stream, receipts, snapshot>>
  BY Zenon DEF stores
<1>4. TypeOK' /\ Registry'
  BY <1>2, <1>3 DEF TypeOK, Registry, Running
<1>5. Mailboxes'
  <2>1. \A d \in Commands, b \in Actors :
          /\ call'[d] = Sent(b) <=> call[d] = Sent(b)
          /\ call'[d] = Routed(b) => call[d] = Routed(b) \/ b = a
    BY <1>1, <1>2, CallShapes
  <2>3. a <= epochs
    BY <1>0 DEF Registry, Running, TypeOK, Actors
  <2> QED
    BY <1>0, <2>1, <2>3, MailUntouched, Zenon DEF Mailboxes
<1>6. ActorsKnow' /\ Log'
  BY <1>3, NothingLearnt, Zenon
<1>7. Accounted'
  BY <1>2, <1>3 DEF Accounted, Emitted, Cur, Replies
<1>8. Told'
  BY <1>2, <1>3, StillTold, Zenon
<1> QED
  BY <1>4, <1>5, <1>6, <1>7, <1>8, Zenon

(* A new entry and its actor.                                              *)
LEMMA RefActivates ==
  ASSUME IInv, NEW c \in Commands, NEW n \in Nodes, call[c] = Idle, active[n] = 0,
         backend = "memory" => \A a \in 1 .. epochs : actors[a].node = n,
         epochs < MaxEpochs, epochs' = epochs + 1,
         active' = [active EXCEPT ![n] = epochs'],
         actors' = [actors EXCEPT ![epochs'] = [Unborn(n) EXCEPT !.pc = "load"]],
         call' = [call EXCEPT ![c] = Routed(epochs')],
         UNCHANGED <<backend, keyOf, stores>>
  PROVE  IInv'
<1> USE DEF IInv
<1>0. PICK k : k = epochs + 1
  BY Zenon
<1>1. /\ k \in Actors /\ epochs' = k /\ epochs \in Nat /\ epochs' \in 0 .. MaxEpochs
      /\ k > epochs /\ k \in Nat /\ k # 0
  BY <1>0, EntityBoundAssumption DEF TypeOK, Actors
<1>2. PICK u : u = Unborn(n)
  BY Zenon
<1>3. PICK y : y = [u EXCEPT !.pc = "load"]
  BY Zenon
<1>4. /\ y \in ActorRecord /\ y.node = n /\ y.pc = "load" /\ y.box = <<>> /\ y.cur = NoKey
      /\ y.state = <<>> /\ y.version = 0
  <2>1. /\ u \in ActorRecord /\ u.node = n /\ u.box = <<>> /\ u.cur = NoKey
        /\ u.state = <<>> /\ u.version = 0
    BY <1>2, UnbornShape, ZenonT(40)
  <2> QED
    BY <1>3, <2>1, Zenon DEF ActorRecord, RestPcs
<1>5. /\ actors' \in [Actors -> ActorRecord] /\ actors'[k] = y
      /\ \A a \in Actors : a # k => actors'[a] = actors[a]
  BY <1>1, <1>2, <1>3, <1>4, Zenon DEF TypeOK
<1>7. PICK v : v = Routed(k)
  BY Zenon
<1>8. /\ call' \in [Commands -> Calls] /\ call'[c] = v
      /\ \A d \in Commands : d # c => call'[d] = call[d]
      /\ \A d \in Commands, r \in Replies : call[d] = Answered(r) => call'[d] = Answered(r)
      /\ \A b \in Actors : call[c] # Sent(b)
      /\ call'[c] \notin {Answered("Events"), Answered("Replayed"), Answered("NoEvents")}
  <2>1. call' = [call EXCEPT ![c] = v]
    BY <1>1, <1>7, Zenon
  <2>2. v \in {Answered("MailboxClosed")} \cup {Routed(a) : a \in Actors}
                \cup {Sent(a) : a \in Actors}
    BY <1>1, <1>7, Zenon
  <2> QED
    BY <2>1, <2>2, CallGoesOn, Zenon
<1>10. actors[k].pc = "unborn" /\ ~Running(k) /\ Running(k)'
  BY <1>1, <1>5 DEF Registry, Running
<1>11. \A a \in Actors : a # k => (Running(a)' <=> Running(a)) /\ Cur(a)' = Cur(a)
  BY <1>5, Zenon DEF Running, Cur
<1>12. TypeOK'
  BY <1>1, <1>5, <1>8 DEF TypeOK, stores
<1>13. Registry'
  <2>1. ASSUME NEW m \in Nodes, active'[m] # 0
        PROVE  /\ active'[m] \in Actors /\ Running(active[m])'
               /\ actors'[active'[m]].node = m
    <3>1. CASE m = n
      BY <1>1, <1>4, <1>5, <3>1, Zenon DEF Running, TypeOK
    <3>2. CASE m # n
      BY <2>1, <3>2, <1>10, <1>5 DEF Registry, Running
    <3> QED
      BY <3>1, <3>2, Zenon
  <2>2. ASSUME NEW a \in Actors, Running(a)'
        PROVE  actors'[a].node \in Nodes /\ active'[actors'[a].node] = a
    <3>1. CASE a = k
      BY <1>4, <1>5, <3>1, <1>1, Zenon DEF TypeOK
    <3>2. CASE a # k
      <4>1. actors'[a] = actors[a] /\ actors[a].node \in Nodes /\ active[actors[a].node] = a
        BY <1>5, <1>11, <2>2, <3>2, Zenon DEF Registry
      <4>2. actors[a].node # n
        BY <4>1 DEF Actors
      <4> QED
        BY <4>1, <4>2, <1>1, Zenon DEF TypeOK
    <3> QED
      BY <3>1, <3>2, Zenon
  <2>3. \A a \in Actors : actors'[a].pc = "unborn" <=> a > epochs'
    <3> TAKE a \in Actors
    <3>1. CASE a = k
      BY <1>1, <1>5, <3>1
    <3>2. CASE a # k
      BY <1>1, <3>2 DEF Registry, Actors
    <3> QED
      BY <3>1, <3>2, Zenon
  <2>4. ASSUME backend' = "memory", NEW a \in Actors, a <= epochs'
        PROVE  actors'[a].node = n
    <3>1. CASE a = k
      BY <1>4, <1>5, <3>1, Zenon
    <3>2. CASE a # k
      BY <1>1, <2>4, <3>2 DEF Actors
    <3> QED
      BY <3>1, <3>2, Zenon
  <2>5. backend' = "memory" => \A a, b \in Actors :
          a <= epochs' /\ b <= epochs' => actors'[a].node = actors'[b].node
    BY <2>4, Zenon
  <2> QED
    BY <2>1, <2>2, <2>3, <2>5, Zenon DEF Registry
<1>14. Mailboxes'
  <2> SUFFICES ASSUME NEW b \in Actors PROVE MailOf(b)'
    BY Zenon DEF Mailboxes
  <2>0. \A d \in Commands, e \in Actors :
          /\ call'[d] = Sent(e) <=> call[d] = Sent(e)
          /\ call'[d] = Routed(e) => call[d] = Routed(e) \/ e = k
    BY <1>7, <1>8, CallShapes
  <2>1. CASE b # k
    BY <1>5, <2>0, <2>1, MailUntouched
  <2>2. CASE b = k
    <3>1. actors'[k].pc \notin WorkPcs /\ Cur(k)' = NoKey /\ actors'[k].box = <<>>
      BY <1>4, <1>5, Zenon DEF WorkPcs, Cur
    <3>2. \A d \in Commands : call'[d] # Sent(k)
      BY <1>1, <1>10, <2>0 DEF Mailboxes, MailOf
    <3> QED
      BY <1>1, <1>10, <2>2, <3>1, <3>2 DEF MailOf
  <2> QED
    BY <2>1, <2>2, Zenon
<1>15. ActorsKnow'
  <2> SUFFICES ASSUME NEW b \in Actors PROVE Knows(actors[b])'
    BY Zenon DEF ActorsKnow
  <2>1. PICK z : z = actors'[b]
    BY Zenon
  <2>2. Knows(z)
    <3>1. CASE b = k
      <4>1. Prefix(y.state, y.version)
        BY <1>4 DEF Prefix, TypeOK
      <4> QED
        BY <1>4, <1>5, <2>1, <3>1, <4>1, Zenon DEF Knows
    <3>2. CASE b # k
      BY <1>5, <2>1, <3>2, Zenon DEF ActorsKnow
    <3> QED
      BY <3>1, <3>2, Zenon
  <2> QED
    BY <2>1, <2>2, KnowsUnchanged, Zenon DEF stores
<1>16. Log'
  BY Zenon DEF Log, Prefix, AppliedOnce, Keyed, stores
<1>17. Accounted'
  <2>1. \A b \in Actors : actors[b].pc \in {"apply", "post", "accept"} =>
          Cur(b)' = Cur(b) /\ actors'[b].pc = actors[b].pc
    BY <1>5, <1>10, <1>11, Zenon
  <2> QED
    BY <1>8, <2>1 DEF Accounted, Emitted, Replies, stores
<1>18. Told'
  BY <1>8, StillTold, Zenon DEF stores
<1> QED
  BY <1>12, <1>13, <1>14, <1>15, <1>16, <1>17, <1>18, Zenon

LEMMA EntityRefIInv ==
  ASSUME IInv, NEW c \in Commands, NEW n \in Nodes, entity_ref(c, n)
  PROVE  IInv'
BY RefReused, RefActivates, Zenon DEF entity_ref

-----------------------------------------------------------------------------
(* The two steps most actions are.                                         *)

(* An actor at work runs, on a command the mailbox took for it.            *)
LEMMA AtWork ==
  ASSUME IInv, NEW a \in Actors, actors[a].pc \in WorkPcs
  PROVE  Running(a) /\ Cur(a) \in Commands /\ Cur(a) # NoKey /\ call[Cur(a)] = Sent(a)
BY TypedActor, Zenon DEF IInv, Mailboxes, MailOf, WorkPcs, Running

(* An actor moves on with its command and its box: it knows its place, and *)
(* the snapshot, if it wrote one, is a prefix of the log.                  *)
LEMMA MovesOn ==
  ASSUME IInv, NEW a \in Actors, Running(a), NEW x, Becomes(a, x), Knows(x),
         UNCHANGED <<call, stream, receipts>>,
         x.box = actors[a].box, x.cur = Cur(a),
         x.pc \in WorkPcs <=> actors[a].pc \in WorkPcs,
         actors[a].closed => x.closed,
         actors[a].pc \in {"apply", "post", "accept"} => x.pc \in {"apply", "post", "accept"},
         NEW s \in [version : Nat, state : Seq(Commands)], snapshot' = s,
         Prefix(s.state, s.version)
  PROVE  IInv'
<1>1. TypeOK'
  BY Became, Zenon DEF IInv, TypeOK
<1>2. Registry'
  BY RegistryStays, Zenon DEF IInv
<1>3. Mailboxes'
  BY MailKept, Zenon DEF IInv
<1>4. ActorsKnow'
  BY ActorsStillKnow, Zenon DEF IInv
<1>5. Log'
  BY LogKept, Became, Zenon DEF IInv
<1>6. Accounted'
  BY StillAccounted, Zenon DEF IInv
<1>7. Told'
  BY StillTold, Became, Zenon DEF IInv
<1> QED
  BY <1>1, <1>2, <1>3, <1>4, <1>5, <1>6, <1>7, Zenon DEF IInv

(* An actor answers its command, truthfully, and stays in the same place   *)
(* of the log.                                                             *)
LEMMA AnswersIt ==
  ASSUME IInv, NEW a \in Actors, actors[a].pc \in WorkPcs, NEW x, Becomes(a, x),
         UNCHANGED <<stream, receipts>>,
         x.pc \in {"loop", "failed"}, x.cur = NoKey, x.box = actors[a].box,
         x.closed = actors[a].closed, x.state = actors[a].state,
         x.version = actors[a].version,
         NEW r \in Replies, call' = [call EXCEPT ![Cur(a)] = Answered(r)],
         r = "Events" => Emitted(Cur(a)),
         r \in {"Replayed", "NoEvents"} /\ Keyed(Cur(a)) =>
           receipts[keyOf[Cur(a)]] # NoReceipt /\ Matches(Cur(a)),
         actors[a].pc \in {"apply", "post", "accept"} => r \in {"Events", "PersistenceError"},
         NEW s \in [version : Nat, state : Seq(Commands)], snapshot' = s,
         Prefix(s.state, s.version)
  PROVE  IInv'
<1> USE DEF IInv
<1>0. PICK c0 : c0 = Cur(a)
  BY Zenon
<1>1. /\ c0 # NoKey /\ c0 \in Commands /\ call[c0] = Sent(a) /\ Running(a)
      /\ call'[c0] = Answered(r) /\ \A c \in Commands : c # c0 => call'[c] = call[c]
  BY <1>0, AtWork, Zenon DEF TypeOK
<1>2. TypeOK'
  <2>1. Answered(r) \in Calls
    BY Zenon DEF Calls
  <2>2. call' \in [Commands -> Calls]
    BY <2>1, <1>0, <1>1, Zenon DEF TypeOK
  <2> QED
    BY <2>2, Became, Zenon DEF TypeOK
<1>3. Registry'
  BY <1>1, RegistryStays, Zenon
<1>4. Mailboxes'
  BY <1>0, <1>1, MailAnswered, Zenon DEF WorkPcs
<1>5. ActorsKnow'
  <2>1. Prefix(x.state, x.version)
    BY <1>1, Zenon DEF ActorsKnow, Knows, Running
  <2> QED
    BY ActorsStillKnow, <2>1, Zenon DEF Knows
<1>6. Log'
  BY LogKept, Became, Zenon
<1>7. Accounted'
  <2> QED
    BY StillAccounted, <1>1, CallShapes, <1>0
<1>8. Told'
  BY CallShapes, StillTold, Became
<1> QED
  BY <1>2, <1>3, <1>4, <1>5, <1>6, <1>7, <1>8, Zenon
=============================================================================
