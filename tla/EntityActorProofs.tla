-------------------------- MODULE EntityActorProofs --------------------------
(***************************************************************************)
(* The steps of an actor keep the invariant of EntityActorInvariant: those *)
(* that leave the stream and the receipts alone (recovery, the receipt     *)
(* gate, the handler, the in-memory store's check, the events taken over,  *)
(* the snapshots and passivation), then those that write to them; and what *)
(* follows from it for every reachable state.                              *)
(***************************************************************************)
EXTENDS EntityActorInvariant

-----------------------------------------------------------------------------
(* The actions of an actor.                                                *)

(* How Goto, Reply and Fail leave the actor.                               *)
LEMMA GotoBecomes ==
  ASSUME TypeOK, NEW a \in Actors, NEW pc \in WorkPcs \cup RestPcs, Goto(a, pc),
         UNCHANGED Routing
  PROVE  \E x : /\ Becomes(a, x) /\ x.pc = pc /\ x.box = actors[a].box /\ x.cur = Cur(a)
                /\ x.closed = actors[a].closed /\ x.state = actors[a].state
                /\ x.version = actors[a].version
<1>1. PICK x : x = [actors[a] EXCEPT !.pc = pc]
  BY Zenon
<1>2. x \in ActorRecord /\ x.pc = pc /\ x.pc \notin {"unborn", "gone"}
  BY <1>1, TypedActor DEF ActorRecord, WorkPcs, RestPcs
<1> QED
  BY <1>2, <1>1, Zenon DEF Becomes, Routing, ActorRecord, Cur, Goto

LEMMA ReplyBecomes ==
  ASSUME TypeOK, NEW a \in Actors, NEW r, Reply(a, r), UNCHANGED Routing
  PROVE  \E x : /\ Becomes(a, x) /\ x.pc = "loop" /\ x.box = actors[a].box
                /\ x.cur = NoKey /\ x.closed = actors[a].closed
                /\ x.state = actors[a].state /\ x.version = actors[a].version
<1>1. PICK x : x = [actors[a] EXCEPT !.pc = "loop", !.cur = NoKey]
  BY Zenon
<1>3. /\ x.node = actors[a].node /\ x.box = actors[a].box
      /\ x.closed = actors[a].closed /\ x.state = actors[a].state
      /\ x.version = actors[a].version
  BY <1>1 DEF ActorRecord, Cur
<1>4. actors' = [actors EXCEPT ![a] = x]
  BY <1>1, Zenon DEF Reply
<1> QED
  BY <1>3, <1>4, <1>1, TypedActor, Zenon DEF Becomes, Routing, ActorRecord, WorkPcs,
     RestPcs

LEMMA FailBecomes ==
  ASSUME TypeOK, NEW a \in Actors, Fail(a), UNCHANGED Routing
  PROVE  \E x : /\ Becomes(a, x) /\ x.pc = "failed" /\ x.box = actors[a].box
                /\ x.cur = NoKey /\ x.closed = actors[a].closed
                /\ x.state = actors[a].state /\ x.version = actors[a].version
<1>1. PICK x : x = [actors[a] EXCEPT !.pc = "failed", !.life = "Failed", !.cur = NoKey]
  BY Zenon
<1>0. "failed" \in RestPcs /\ "Failed" \in Lives
  BY Zenon DEF RestPcs, Lives
<1>2. x \in ActorRecord
  BY <1>0, <1>1, ActorIsRecord, ZenonT(40) DEF ActorRecord
<1>3. /\ x.pc = "failed" /\ x.cur = NoKey
      /\ x.node = actors[a].node /\ x.box = actors[a].box
      /\ x.closed = actors[a].closed /\ x.state = actors[a].state
      /\ x.version = actors[a].version
  BY <1>1, ActorIsRecord, Zenon DEF ActorRecord, Cur
<1>4. actors' = [actors EXCEPT ![a] = x]
  BY <1>1, Zenon DEF Fail
<1> QED
  BY <1>2, <1>3, <1>4, Zenon DEF Becomes, Routing

(* The three steps, with the stores left alone.                            *)
LEMMA GoesTo ==
  ASSUME IInv, NEW a \in Actors, NEW pc \in WorkPcs \cup RestPcs, Goto(a, pc),
         UNCHANGED <<Routing, stores>>, Running(a),
         pc \in WorkPcs <=> actors[a].pc \in WorkPcs,
         actors[a].pc \notin {"apply", "post", "accept"},
         pc \notin {"apply", "post", "accept", "drained"},
         pc \in {"handle", "append", "publish"} => Fresh(Cur(a), actors[a].version),
         pc = "publish" => /\ backend = "memory" /\ actors[a].version = Len(stream)
                           /\ Keyed(Cur(a)) /\ Matches(Cur(a)),
         pc = "confirm" => Keyed(Cur(a))
  PROVE  IInv'
<1>2. PICK x : /\ Becomes(a, x) /\ x.pc = pc /\ x.box = actors[a].box /\ x.cur = Cur(a)
               /\ x.closed = actors[a].closed /\ x.state = actors[a].state
               /\ x.version = actors[a].version
  BY GotoBecomes, Zenon DEF IInv
<1>3. PICK s : s = snapshot
  BY Zenon
<1>4. /\ s \in [version : Nat, state : Seq(Commands)] /\ snapshot' = s
      /\ Prefix(s.state, s.version)
  BY <1>3, Zenon DEF IInv, TypeOK, Log, stores
<1>6. Knows(x)
  BY <1>2, Zenon DEF Knows, IInv, ActorsKnow, Running
<1> QED
  BY <1>2, <1>4, <1>6, MovesOn, Zenon DEF Goto, stores

LEMMA Answers ==
  ASSUME IInv, NEW a \in Actors, NEW r \in Replies,
         \/ Reply(a, r)
         \/ r = "PersistenceError" /\ Fail(a),
         UNCHANGED <<Routing, stream, receipts>>, actors[a].pc \in WorkPcs,
         r = "Events" => Emitted(Cur(a)),
         r \in {"Replayed", "NoEvents"} /\ Keyed(Cur(a)) =>
           receipts[keyOf[Cur(a)]] # NoReceipt /\ Matches(Cur(a)),
         actors[a].pc \in {"apply", "post", "accept"} => r \in {"Events", "PersistenceError"},
         NEW s \in [version : Nat, state : Seq(Commands)], snapshot' = s,
         Prefix(s.state, s.version)
  PROVE  IInv'
<1>2. PICK x : /\ Becomes(a, x) /\ x.pc \in {"loop", "failed"} /\ x.box = actors[a].box
               /\ x.cur = NoKey /\ x.closed = actors[a].closed
               /\ x.state = actors[a].state /\ x.version = actors[a].version
  BY ReplyBecomes, FailBecomes DEF IInv
<1>3. call' = [call EXCEPT ![Cur(a)] = Answered(r)]
  BY Zenon DEF Reply, Fail
<1> QED
  BY <1>2, <1>3, AnswersIt, Zenon

(* The snapshot as it was.                                                 *)
LEMMA SnapshotFits ==
  ASSUME IInv
  PROVE  /\ snapshot \in [version : Nat, state : Seq(Commands)]
         /\ Prefix(snapshot.state, snapshot.version)
BY Zenon DEF IInv, TypeOK, Log

LEMMA Refuses ==
  ASSUME IInv, NEW a \in Actors, actors[a].pc \in WorkPcs,
         Reply(a, "PersistenceError") \/ Fail(a), UNCHANGED <<Routing, stores>>
  PROVE  IInv'
BY SnapshotFits, Answers, Zenon DEF stores, Replies

(* Recovery: the snapshot is a prefix of the log ...                       *)
LEMMA LoadSnapshotIInv ==
  ASSUME IInv, NEW a \in Actors, LoadSnapshot(a), UNCHANGED Routing
  PROVE  IInv'
<1>0. TypeOK
  BY Zenon DEF IInv
<1>1. PICK s : s = snapshot
  BY Zenon
<1>2. /\ s \in [version : Nat, state : Seq(Commands)] /\ snapshot' = s
      /\ Prefix(s.state, s.version) /\ UNCHANGED <<call, stream, receipts>>
  BY <1>1, SnapshotFits, Zenon DEF LoadSnapshot, stores
<1>3. PICK t : t = IF SnapshotDecodes THEN s.state ELSE <<>>
  BY Zenon
<1>4. t \in Seq(Commands) /\ s.version \in Nat /\ Prefix(t, s.version)
  BY <1>2, <1>3 DEF Prefix
<1>5. PICK x : x = [actors[a] EXCEPT !.pc = "replay", !.state = t, !.version = s.version]
  BY Zenon
<1>e. "replay" \in RestPcs
  BY Zenon DEF RestPcs
<1>6. x \in ActorRecord
  BY <1>0, <1>4, <1>5, <1>e, ActorIsRecord, Zenon DEF ActorRecord
<1>7. /\ x.pc = "replay" /\ x.state = t /\ x.version = s.version
      /\ x.node = actors[a].node /\ x.box = actors[a].box /\ x.cur = Cur(a)
      /\ x.closed = actors[a].closed
  BY <1>0, <1>5, ActorIsRecord, Zenon DEF ActorRecord, Cur
<1>8. actors[a].pc = "load" /\ actors' = [actors EXCEPT ![a] = x]
  BY <1>1, <1>3, <1>5, Zenon DEF LoadSnapshot
<1>9. Becomes(a, x)
  BY <1>6, <1>7, <1>8, Zenon DEF Becomes, Routing
<1>10. Knows(x)
  BY <1>4, <1>7, Zenon DEF Knows
<1>11. /\ Running(a) /\ actors[a].pc \notin {"apply", "post", "accept"}
       /\ x.pc \in WorkPcs <=> actors[a].pc \in WorkPcs
  BY <1>7, <1>8, Zenon DEF Running, WorkPcs
<1> QED
  BY <1>2, <1>7, <1>9, <1>10, <1>11, MovesOn, Zenon

(* ... and the events after it complete it.                                *)
LEMMA ReplayEventsIInv ==
  ASSUME IInv, NEW a \in Actors, ReplayEvents(a), UNCHANGED Routing
  PROVE  IInv'
<1>0. TypeOK
  BY Zenon DEF IInv
<1>1. PICK s : s = snapshot
  BY Zenon
<1>2. /\ s \in [version : Nat, state : Seq(Commands)] /\ snapshot' = s
      /\ Prefix(s.state, s.version) /\ UNCHANGED <<call, stream, receipts>>
  BY <1>1, SnapshotFits, Zenon DEF ReplayEvents, stores
<1>3. PICK v : v = actors[a].version
  BY Zenon
<1>4. PICK tail : tail = SubSeq(stream, v + 1, Len(stream))
  BY Zenon
<1>5. PICK t : t = actors[a].state \o tail
  BY Zenon
<1>6. /\ actors[a].pc = "replay" /\ stream \in Seq(Commands) /\ Len(stream) \in Nat
      /\ v \in Nat /\ actors[a].state \in Seq(Commands) /\ Prefix(actors[a].state, v)
  <2>1. actors[a].pc = "replay"
    BY Zenon DEF ReplayEvents
  <2>3. Prefix(actors[a].state, v)
    BY <1>3, <2>1, Zenon DEF IInv, ActorsKnow, Knows
  <2> QED
    BY <1>0, <1>3, <2>1, <2>3, TypedActor DEF TypeOK
<1>7. /\ tail \in Seq(Commands) /\ Len(tail) = Len(stream) - v
      /\ \A i \in 1 .. Len(tail) : tail[i] = stream[v + i]
  BY <1>4, <1>6 DEF Prefix
<1>8. t \in Seq(Commands) /\ v + Len(tail) = Len(stream) /\ v + Len(tail) \in Nat
  BY <1>5, <1>6, <1>7 DEF Prefix
<1>9. Prefix(t, v + Len(tail))
  <2>1. ASSUME SnapshotDecodes
        PROVE  Len(t) = Len(stream) /\ \A i \in 1 .. Len(stream) : t[i] = stream[i]
    <3>1. Len(actors[a].state) = v /\ \A i \in 1 .. v : actors[a].state[i] = stream[i]
      BY <1>6, <2>1, Zenon DEF Prefix
    <3>2. Len(t) = Len(stream)
      BY <1>5, <1>7, <3>1
    <3>3. ASSUME NEW i \in 1 .. Len(stream) PROVE t[i] = stream[i]
      <4>1. CASE i <= v
        BY <1>5, <3>1, <4>1
      <4>2. CASE i > v
        <5>1. t[i] = tail[i - v] /\ i - v \in 1 .. Len(tail)
          <6>3. PICK z : z = actors[a].state
            BY Zenon
          <6>4. (z \o tail)[i] = tail[i - Len(z)]
            <7>1. z \in Seq(Commands) /\ i \in 1 .. Len(z) + Len(tail) /\ i > Len(z)
              BY <1>6, <6>3, <1>7, <3>1, <4>2
            <7> QED
              BY <7>1
          <6>5. t[i] = tail[i - v]
            BY <1>5, <3>1, <6>3, <6>4, Zenon
          <6>6. i - v \in 1 .. Len(tail)
            BY <1>6, <1>7, <4>2
          <6> QED
            BY <6>5, <6>6, Zenon
        <5> QED
          BY <1>7, <5>1, <1>6
      <4> QED
        BY <1>6, <4>1, <4>2
    <3> QED
      BY <3>2, <3>3, Zenon
  <2> QED
    BY <1>8, <2>1 DEF Prefix
<1>10. PICK x : x = [actors[a] EXCEPT !.pc = "loop", !.life = "Active", !.state = t,
                                      !.version = v + Len(tail)]
  BY Zenon
<1>e. "loop" \in RestPcs /\ "Active" \in Lives
  BY Zenon DEF RestPcs, Lives
<1>11. x \in ActorRecord
  BY <1>0, <1>8, <1>10, <1>e, ActorIsRecord, Zenon DEF ActorRecord
<1>12. /\ x.pc = "loop" /\ x.state = t /\ x.version = v + Len(tail)
       /\ x.node = actors[a].node /\ x.box = actors[a].box /\ x.cur = Cur(a)
       /\ x.closed = actors[a].closed
  BY <1>0, <1>10, ActorIsRecord, Zenon DEF ActorRecord, Cur
<1>13. actors' = [actors EXCEPT ![a] = x]
  BY <1>3, <1>4, <1>5, <1>10, Zenon DEF ReplayEvents
<1>14. Becomes(a, x)
  BY <1>11, <1>12, <1>13, Zenon DEF Becomes, Routing
<1>16. /\ Running(a) /\ actors[a].pc \notin {"apply", "post", "accept"}
       /\ x.pc \in WorkPcs <=> actors[a].pc \in WorkPcs
  BY <1>6, <1>12, Zenon DEF Running, WorkPcs
<1> QED
  BY <1>2, <1>12, <1>14, <1>16, MovesOn, <1>9, <1>11, Zenon DEF Knows

LEMMA RecoveryFailsIInv ==
  ASSUME IInv, NEW a \in Actors, RecoveryFails(a), UNCHANGED Routing
  PROVE  IInv'
<1>0. TypeOK
  BY Zenon DEF IInv
<1>1. PICK s : s = snapshot
  BY Zenon
<1>3. PICK x : x = [actors[a] EXCEPT !.pc = "unrecovered", !.life = "Failed"]
  BY Zenon
<1>e. "unrecovered" \in RestPcs /\ "Failed" \in Lives
  BY Zenon DEF RestPcs, Lives
<1>4. x \in ActorRecord
  BY <1>0, <1>3, <1>e, ActorIsRecord, Zenon DEF ActorRecord
<1>5. /\ x.pc = "unrecovered" /\ x.node = actors[a].node /\ x.box = actors[a].box /\ x.cur = Cur(a)
      /\ x.closed = actors[a].closed /\ x.state = actors[a].state
      /\ x.version = actors[a].version
  BY <1>0, <1>3, ActorIsRecord, Zenon DEF ActorRecord, Cur
<1>6. actors[a].pc \in {"load", "replay"} /\ actors' = [actors EXCEPT ![a] = x]
  BY <1>3, Zenon DEF RecoveryFails
<1>7. Becomes(a, x)
  BY <1>4, <1>5, <1>6, Zenon DEF Becomes, Routing
<1>8. /\ Running(a) /\ actors[a].pc \notin {"apply", "post", "accept"}
      /\ x.pc \in WorkPcs <=> actors[a].pc \in WorkPcs
  BY <1>5, <1>6, Zenon DEF Running, WorkPcs
<1>9. Knows(x)
  BY <1>4, <1>5, <1>8, Zenon DEF IInv, ActorsKnow, Knows, Running
<1> QED
  BY <1>5, <1>7, <1>8, <1>9, MovesOn, <1>1, SnapshotFits, Zenon DEF RecoveryFails,
     stores

LEMMA PassivateIInv ==
  ASSUME IInv, NEW a \in Actors, Passivate(a), UNCHANGED Routing
  PROVE  IInv'
<1>0. TypeOK
  BY Zenon DEF IInv
<1>1. PICK s : s = snapshot
  BY Zenon
<1>2. /\ s \in [version : Nat, state : Seq(Commands)] /\ snapshot' = s
      /\ Prefix(s.state, s.version) /\ UNCHANGED <<call, stream, receipts>>
  BY <1>1, SnapshotFits, Zenon DEF Passivate, stores
<1>3. PICK x : x = [actors[a] EXCEPT !.closed = TRUE]
  BY Zenon
<1>4. x \in ActorRecord /\ x.closed
  BY <1>0, <1>3, ActorIsRecord, Zenon DEF ActorRecord
<1>5. /\ x.node = actors[a].node /\ x.box = actors[a].box /\ x.cur = Cur(a)
      /\ x.pc = actors[a].pc /\ x.state = actors[a].state
      /\ x.version = actors[a].version
  BY <1>3 DEF ActorRecord, Cur
<1>7. Becomes(a, x)
  BY <1>4, <1>5, <1>3, Zenon DEF Becomes, Routing, Passivate
<1>8. /\ Running(a) /\ actors[a].pc \notin {"apply", "post", "accept"}
  BY <1>3, Zenon DEF Running, Passivate
<1>9. Knows(x)
  BY <1>5, <1>3, Zenon DEF IInv, ActorsKnow, Knows, Passivate
<1> QED
  BY <1>2, <1>4, <1>5, <1>7, <1>8, <1>9, MovesOn, Zenon

(* A snapshot an actor takes is its own state, a prefix of the log.        *)
LEMMA SnapshottedFits ==
  ASSUME IInv, NEW a \in Actors, Running(a), snapshot' \in {snapshot, Snapshotted(a)}
  PROVE  \E s \in [version : Nat, state : Seq(Commands)] :
           snapshot' = s /\ Prefix(s.state, s.version)
BY SnapshotFits, TypedActor DEF IInv, Snapshotted, ActorsKnow, Knows, Running

LEMMA FinalSnapshotIInv ==
  ASSUME IInv, NEW a \in Actors, FinalSnapshot(a), UNCHANGED Routing
  PROVE  IInv'
<1>0. TypeOK
  BY Zenon DEF IInv
<1>1. actors[a].pc = "loop" /\ Running(a) /\ UNCHANGED <<call, stream, receipts>>
  BY Zenon DEF FinalSnapshot, Running
<1>2. PICK s \in [version : Nat, state : Seq(Commands)] :
        snapshot' = s /\ Prefix(s.state, s.version)
  BY <1>1, SnapshottedFits, Zenon DEF FinalSnapshot
<1>3. PICK x : x = [actors[a] EXCEPT !.pc = "exit", !.life = "Passivated"]
  BY Zenon
<1>e. "exit" \in RestPcs /\ "Passivated" \in Lives
  BY Zenon DEF RestPcs, Lives
<1>4. x \in ActorRecord
  BY <1>0, <1>3, <1>e, ActorIsRecord, ZenonT(40) DEF ActorRecord
<1>5. /\ x.pc = "exit" /\ x.node = actors[a].node /\ x.box = actors[a].box /\ x.cur = Cur(a)
      /\ x.closed = actors[a].closed /\ x.state = actors[a].state
      /\ x.version = actors[a].version
  BY <1>0, <1>3, ActorIsRecord DEF ActorRecord, Cur
<1>6. actors' = [actors EXCEPT ![a] = x]
  BY <1>3, Zenon DEF FinalSnapshot
<1>7. Becomes(a, x)
  BY <1>4, <1>5, <1>6, Zenon DEF Becomes, Routing
<1>9. Knows(x)
  BY <1>1, <1>4, <1>5, Zenon DEF IInv, ActorsKnow, Knows
<1> QED
  BY <1>1, <1>2, <1>5, <1>7, <1>9, MovesOn, <1>4, Zenon DEF WorkPcs

(* The receipt gate: no receipt, no event of the key.                      *)
LEMMA GateIInv ==
  ASSUME IInv, NEW a \in Actors, Gate(a), UNCHANGED Routing
  PROVE  IInv'
<1>0. /\ actors[a].pc = "gate" /\ actors[a].pc \in WorkPcs /\ Running(a)
      /\ Cur(a) \in Commands /\ UNCHANGED <<Routing, stores>>
  BY AtWork, Zenon DEF Gate, WorkPcs
<1>1. ASSUME receipts[keyOf[Cur(a)]] = NoReceipt, Goto(a, "handle")
      PROVE  IInv'
  <2>1. Fresh(Cur(a), actors[a].version)
    BY <1>1, Zenon DEF Fresh, IInv, Log, Keyed
  <2> QED
    BY <1>0, <1>1, <2>1, GoesTo, Zenon DEF WorkPcs
<1>2. ASSUME receipts[keyOf[Cur(a)]] # NoReceipt,
             receipts[keyOf[Cur(a)]].print = PrintOf[Cur(a)], Reply(a, "Replayed")
      PROVE  IInv'
  BY <1>2, <1>0, SnapshotFits, Answers, Zenon DEF Matches, stores, Replies
<1>3. ASSUME Reply(a, "OperationConflict")
      PROVE  IInv'
  BY <1>0, SnapshotFits, <1>3, Answers, Zenon DEF stores, Replies
<1> QED
  BY <1>1, <1>2, <1>3, Zenon DEF Gate

LEMMA GateFailsIInv ==
  ASSUME IInv, NEW a \in Actors, GateFails(a), UNCHANGED Routing
  PROVE  IInv'
BY Refuses, Zenon DEF GateFails, WorkPcs

LEMMA HandleIInv ==
  ASSUME IInv, NEW a \in Actors, Handle(a), UNCHANGED Routing
  PROVE  IInv'
<1>0. /\ actors[a].pc = "handle" /\ actors[a].pc \in WorkPcs /\ Running(a)
      /\ Cur(a) \in Commands /\ UNCHANGED <<Routing, stores>>
  BY AtWork, Zenon DEF Handle, WorkPcs
<1>1. PICK s : s = snapshot
  BY Zenon
<1>3. Fresh(Cur(a), actors[a].version)
  BY <1>0, Zenon DEF IInv, ActorsKnow, Knows, Cur
<1>4. CASE Reply(a, "DomainError")
  BY <1>0, <1>4, Answers, <1>1, SnapshotFits, Zenon DEF Replies, stores
<1>5. CASE Goto(a, "append")
  BY <1>0, <1>3, <1>5, GoesTo, Zenon DEF WorkPcs
<1>6. CASE Keyed(Cur(a)) /\ Goto(a, "confirm")
  BY <1>0, <1>6, GoesTo, Zenon DEF WorkPcs
<1>7. CASE ~Keyed(Cur(a)) /\ Reply(a, "NoEvents")
  BY <1>0, <1>7, Answers, <1>1, SnapshotFits, Zenon DEF Replies, stores
<1> QED
  BY <1>4, <1>5, <1>6, <1>7, Zenon DEF Handle

(* The in-memory store checks now and publishes later.                     *)
LEMMA StageInMemoryIInv ==
  ASSUME IInv, NEW a \in Actors, StageInMemory(a), UNCHANGED Routing
  PROVE  IInv'
<1>0. /\ actors[a].pc = "append" /\ actors[a].pc \in WorkPcs /\ Running(a)
      /\ Cur(a) \in Commands /\ UNCHANGED <<Routing, stores>>
      /\ backend = "memory" /\ Keyed(Cur(a))
  BY AtWork, Zenon DEF StageInMemory, WorkPcs
<1>1. Fresh(Cur(a), actors[a].version)
  BY <1>0, Zenon DEF IInv, ActorsKnow, Knows, Cur
<1>2. CASE Versioned(a) /\ Reconciles(a) /\ Goto(a, "publish")
  BY <1>2, <1>0, <1>1, GoesTo, Zenon DEF Reconciles, Matches, Versioned, WorkPcs
<1>3. CASE Fail(a)
  BY <1>0, <1>3, Refuses, Zenon
<1> QED
  BY <1>2, <1>3, Zenon DEF StageInMemory

(* The event after the actor's version is its own.                         *)
LEMMA ApplyIInv ==
  ASSUME IInv, NEW a \in Actors, Apply(a), UNCHANGED Routing
  PROVE  IInv'
<1>0. /\ actors[a].pc = "apply" /\ actors[a].pc \in WorkPcs /\ Running(a)
      /\ Cur(a) \in Commands /\ UNCHANGED <<Routing, stores>> /\ TypeOK
  BY AtWork, Zenon DEF Apply, WorkPcs, IInv
<1>1. CASE Fail(a)
  BY <1>0, <1>1, Refuses, Zenon
<1>2. CASE /\ actors' = [actors EXCEPT ![a].pc = "post", ![a].version = @ + 1,
                                       ![a].state = Append(@, Cur(a))]
           /\ UNCHANGED call
  <2>1. PICK s : s = snapshot
    BY Zenon
  <2>2. /\ s \in [version : Nat, state : Seq(Commands)] /\ snapshot' = s
        /\ Prefix(s.state, s.version) /\ UNCHANGED <<call, stream, receipts>>
    BY <1>0, <1>2, <2>1, SnapshotFits, Zenon DEF stores
  <2>3. PICK t : t = Append(actors[a].state, Cur(a))
    BY Zenon
  <2>4. PICK v : v = actors[a].version
    BY Zenon
  <2>5. /\ actors[a].state \in Seq(Commands) /\ v \in Nat /\ stream \in Seq(Commands)
        /\ Prefix(actors[a].state, v) /\ v < Len(stream) /\ stream[v + 1] = Cur(a)
    <3>1. actors[a].state \in Seq(Commands) /\ v \in Nat /\ stream \in Seq(Commands)
      BY <1>0, <2>4, TypedActor, Zenon DEF TypeOK
    <3>2. Prefix(actors[a].state, v) /\ v < Len(stream) /\ stream[v + 1] = Cur(a)
      BY <1>0, <2>4, Zenon DEF IInv, ActorsKnow, Knows, Cur
    <3> QED
      BY <3>1, <3>2, Zenon
  <2>6. t \in Seq(Commands) /\ v + 1 \in Nat
    BY <2>3, <2>5
  <2>7. Prefix(t, v + 1)
    BY <2>3, <2>5 DEF Prefix
  <2>9. PICK x : x = [actors[a] EXCEPT !.pc = "post", !.version = v + 1, !.state = t]
    BY Zenon
  <2>e. "post" \in WorkPcs
    BY Zenon DEF WorkPcs
  <2>10. x \in ActorRecord
    BY <1>0, <2>6, <2>9, <2>e, ActorIsRecord, ZenonT(40) DEF ActorRecord
  <2>11. /\ x.pc = "post" /\ x.version = v + 1 /\ x.state = t
         /\ x.node = actors[a].node /\ x.box = actors[a].box /\ x.cur = Cur(a)
         /\ x.closed = actors[a].closed
    BY <1>0, <2>9, ActorIsRecord, Zenon DEF ActorRecord, Cur
  <2>12. actors' = [actors EXCEPT ![a] = x]
    BY <1>2, <2>3, <2>4, <2>9, Zenon
  <2>13. Becomes(a, x)
    BY <2>10, <2>11, <2>12, Zenon DEF Becomes, Routing
  <2>14. Knows(x)
    BY <2>7, <2>10, <2>11, <2>5 DEF Knows, Emitted
  <2> QED
    BY <1>0, <2>2, <2>10, <2>11, <2>13, <2>14, MovesOn, Zenon DEF WorkPcs
<1> QED
  BY <1>1, <1>2, Zenon DEF Apply

LEMMA TakeSnapshotIInv ==
  ASSUME IInv, NEW a \in Actors, TakeSnapshot(a), UNCHANGED Routing
  PROVE  IInv'
<1>0. /\ actors[a].pc = "post" /\ actors[a].pc \in WorkPcs /\ Running(a)
      /\ "accept" \in WorkPcs \cup RestPcs /\ Goto(a, "accept") /\ UNCHANGED <<Routing, stream, receipts>>
  BY Zenon DEF TakeSnapshot, WorkPcs, Running
<1>1. PICK s \in [version : Nat, state : Seq(Commands)] :
        snapshot' = s /\ Prefix(s.state, s.version)
  BY <1>0, SnapshottedFits, Zenon DEF TakeSnapshot
<1>2. Emitted(Cur(a))
  BY <1>0, Zenon DEF IInv, ActorsKnow, Knows, Cur
<1>3. PICK x : /\ Becomes(a, x) /\ x.pc = "accept" /\ x.box = actors[a].box /\ x.cur = Cur(a)
               /\ x.closed = actors[a].closed /\ x.state = actors[a].state
               /\ x.version = actors[a].version
  BY <1>0, GotoBecomes, Zenon DEF IInv
<1>4. Knows(x)
  BY <1>0, <1>2, <1>3, Zenon DEF Knows, IInv, ActorsKnow, Running
<1>5. /\ UNCHANGED <<call, stream, receipts>>
      /\ x.pc \in WorkPcs /\ x.pc \in {"apply", "post", "accept"}
  BY <1>0, <1>3, Zenon DEF Goto, WorkPcs
<1> QED
  BY <1>0, <1>1, <1>3, <1>4, <1>5, MovesOn, Zenon

LEMMA PostPersistIInv ==
  ASSUME IInv, NEW a \in Actors, PostPersist(a), UNCHANGED Routing
  PROVE  IInv'
<1>0. /\ actors[a].pc \in {"post", "accept"} /\ actors[a].pc \in WorkPcs /\ Running(a)
      /\ Reply(a, "Events") /\ UNCHANGED <<Routing, stream, receipts, snapshot>>
  BY Zenon DEF PostPersist, WorkPcs, Running, stores
<1>2. Emitted(Cur(a))
  BY <1>0, Zenon DEF IInv, ActorsKnow, Knows, Cur
<1> QED
  BY <1>0, <1>2, SnapshotFits, Answers, Zenon DEF Replies

-----------------------------------------------------------------------------
(* Events and receipts become visible.                                     *)

(* A receipt never goes, and keeps its print.                              *)
ReceiptsStand ==
  \A k \in Keys : receipts[k] # NoReceipt =>
    receipts'[k] # NoReceipt /\ receipts'[k].print = receipts[k].print

LEMMA ReceiptGrows ==
  ASSUME TypeOK, NEW a \in Actors, Cur(a) \in Commands, Matches(Cur(a)),
         NEW o \in Nat, receipts' = Receipted(a, o)
  PROVE  /\ receipts' \in [Keys -> {NoReceipt} \cup Receipt]
         /\ ReceiptsStand
         /\ Keyed(Cur(a)) => /\ receipts'[keyOf[Cur(a)]] # NoReceipt
                             /\ receipts'[keyOf[Cur(a)]].print = PrintOf[Cur(a)]
<1>1. PICK c0 : c0 = Cur(a)
  BY Zenon
<1>2. PICK q : q = ReceiptOf(a, o)
  BY Zenon
<1>3. q # NoReceipt /\ q.print = PrintOf[c0] /\ q \in Receipt
  BY <1>1, <1>2, ReceiptIsNotNone, Zenon DEF ReceiptOf, Receipt
<1>5. CASE ~Keyed(c0)
  BY <1>1, <1>5, Zenon DEF Receipted, ReceiptsStand, TypeOK
<1>6. CASE Keyed(c0) /\ receipts' = receipts /\ receipts[keyOf[c0]] # NoReceipt
  BY <1>1, <1>6, Zenon DEF ReceiptsStand, Matches, TypeOK
<1>7. CASE Keyed(c0) /\ receipts' = [receipts EXCEPT ![keyOf[c0]] = q]
  BY <1>1, <1>7, KeyIsAKey, <1>3 DEF ReceiptsStand, Matches, TypeOK
<1> QED
  BY <1>1, <1>2, <1>5, <1>6, <1>7, Zenon DEF Receipted

(* No other actor is at the in-memory store's unchecked publication.       *)
LEMMA ActorsKnowMore ==
  ASSUME IInv, NEW a \in Actors, Running(a), NEW x, Becomes(a, x), Knows(x)',
         NEW c \in Commands, stream' \in {stream, Append(stream, c)}
  PROVE  ActorsKnow'
<1> SUFFICES ASSUME NEW b \in Actors PROVE Knows(actors[b])'
  BY Zenon DEF ActorsKnow
<1>0. TypeOK /\ Registry /\ UNCHANGED <<backend, keyOf>>
  BY Became, Zenon DEF IInv
<1>1. CASE b = a
  BY <1>0, <1>1, Became, Zenon
<1>2. CASE b # a
  <2>1. PICK y : y = actors[b]
    BY Zenon
  <2>2. actors'[b] = y /\ Knows(y) /\ y \in ActorRecord
    BY <1>2, <2>1, Became, Zenon DEF IInv, ActorsKnow
  <2>3. y.pc # "publish"
    BY <2>1, <2>2, <1>0, <1>2, MemoryIsAlone, Zenon DEF Knows, Running
  <2> QED
    BY <2>2, <1>0, <2>3, KnowsMore, Zenon
<1> QED
  BY <1>1, <1>2, Zenon

(* What was told stays true as the log and the receipts grow.              *)
LEMMA ToldMore ==
  ASSUME IInv, keyOf' = keyOf, ReceiptsStand,
         NEW d \in Commands, stream' \in {stream, Append(stream, d)},
         \A c \in Commands :
           \/ call'[c] = call[c]
           \/ call'[c] \notin {Answered("Events"), Answered("Replayed"), Answered("NoEvents")}
           \/ /\ call'[c] = Answered("NoEvents") /\ Keyed(c)
              /\ receipts'[keyOf[c]] # NoReceipt
              /\ receipts'[keyOf[c]].print = PrintOf[c]
  PROVE  Told'
BY KeyIsAKey, CallShapes DEF Told, Matches, Keyed, Emitted, IInv, ReceiptsStand

(* The event of an actor at the end of the log, whose key has none yet.    *)
LEMMA LogGrows ==
  ASSUME IInv, NEW a \in Actors, Cur(a) \in Commands, Publish(a), keyOf' = keyOf,
         actors[a].version = Len(stream), Fresh(Cur(a), actors[a].version),
         Matches(Cur(a))
  PROVE  /\ stream' \in Seq(Commands) /\ Len(stream') = Len(stream) + 1
         /\ stream'[Len(stream) + 1] = Cur(a)
         /\ \A i \in DOMAIN stream : stream'[i] = stream[i]
         /\ DOMAIN stream' = DOMAIN stream \cup {Len(stream) + 1}
         /\ receipts' \in [Keys -> {NoReceipt} \cup Receipt] /\ ReceiptsStand
         /\ Log'
<1>0. PICK c0 : c0 = Cur(a)
  BY Zenon
<1>1. PICK L : L = Len(stream)
  BY Zenon
<1>2. stream \in Seq(Commands) /\ L \in Nat /\ DOMAIN stream = 1 .. L /\ TypeOK
  BY <1>1 DEF IInv, TypeOK
<1>3. /\ stream' \in Seq(Commands) /\ Len(stream') = L + 1 /\ stream'[L + 1] = c0
      /\ \A i \in DOMAIN stream : stream'[i] = stream[i]
      /\ DOMAIN stream' = DOMAIN stream \cup {L + 1}
  BY <1>0, <1>2 DEF Publish
<1>5. /\ receipts' \in [Keys -> {NoReceipt} \cup Receipt] /\ ReceiptsStand
      /\ Keyed(c0) => receipts'[keyOf[c0]] # NoReceipt
  BY <1>0, <1>2, ReceiptGrows DEF Publish
<1>6. Prefix(snapshot.state, snapshot.version)'
  BY SnapshotFits, <1>2, <1>3 DEF Prefix, Publish
<1>7. ASSUME NEW i \in DOMAIN stream', Keyed(stream'[i])
      PROVE  receipts'[keyOf[stream'[i]]] # NoReceipt
  <2>1. CASE i = L + 1
    BY <1>3, <1>5, <1>7, <2>1, Zenon
  <2>2. CASE i \in DOMAIN stream
    BY <1>2, <1>3, <2>2, <1>7, KeyIsAKey, <1>5 DEF IInv, Log, ReceiptsStand
  <2> QED
    BY <1>3, <2>1, <2>2, Zenon
<1>8. ASSUME NEW i \in DOMAIN stream', NEW j \in DOMAIN stream',
             Keyed(stream'[i]), keyOf[stream'[i]] = keyOf[stream'[j]]
      PROVE  i = j
  <2>1. ASSUME NEW k \in DOMAIN stream, keyOf[stream[k]] = keyOf[c0], Keyed(c0)
        PROVE  FALSE
    BY <1>0, <2>1 DEF Fresh
  <2>2. CASE i \in DOMAIN stream /\ j \in DOMAIN stream
    BY <1>3, <1>8, <2>2, Zenon DEF IInv, Log, AppliedOnce
  <2>3. CASE i \in DOMAIN stream /\ j = L + 1
    BY <1>3, <1>8, <2>1, <2>3, Zenon DEF Keyed
  <2>4. CASE i = L + 1 /\ j \in DOMAIN stream
    BY <1>3, <1>8, <2>1, <2>4, Zenon DEF Keyed
  <2> QED
    BY <1>3, <2>2, <2>3, <2>4, Zenon
<1>9. Log'
  BY <1>6, <1>7, <1>8, Zenon DEF Log, AppliedOnce, Keyed
<1> QED
  BY <1>0, <1>1, <1>3, <1>5, <1>9, Zenon

(* The two publications: with the answer to come, and with it lost.        *)
LEMMA Publishes ==
  ASSUME IInv, NEW a \in Actors, Running(a), actors[a].pc \in {"append", "publish"},
         Publish(a), Goto(a, "apply") \/ Fail(a), UNCHANGED Routing,
         actors[a].version = Len(stream), Fresh(Cur(a), actors[a].version),
         Matches(Cur(a))
  PROVE  IInv'
<1> USE DEF IInv
<1>0. PICK c0 : c0 = Cur(a)
  BY Zenon
<1>1. /\ c0 # NoKey /\ c0 \in Commands /\ call[c0] = Sent(a)
      /\ UNCHANGED <<backend, keyOf, epochs, active>>
  BY <1>0, AtWork, Zenon DEF WorkPcs, Routing
<1>2. /\ stream' \in Seq(Commands) /\ Len(stream') = Len(stream) + 1
      /\ stream'[Len(stream) + 1] = c0
      /\ \A i \in DOMAIN stream : stream'[i] = stream[i]
      /\ DOMAIN stream' = DOMAIN stream \cup {Len(stream) + 1}
      /\ receipts' \in [Keys -> {NoReceipt} \cup Receipt] /\ ReceiptsStand
      /\ Log'
  BY <1>0, <1>1, LogGrows, Zenon
<1>3. stream' \in {stream, Append(stream, c0)} /\ snapshot' = snapshot
  BY <1>0, Zenon DEF Publish
<1>4. \A c \in Commands : Emitted(c)' => Emitted(c) \/ c = c0
  BY <1>2, Zenon DEF Emitted
<1>5. Prefix(actors[a].state, actors[a].version) /\ stream \in Seq(Commands)
  BY Zenon DEF ActorsKnow, Knows, Running, TypeOK
<1>6. ASSUME NEW x, x.state = actors[a].state, x.version = actors[a].version
      PROVE  Prefix(x.state, x.version)'
  BY <1>2, <1>5, <1>6 DEF Prefix
<1>7. CASE Goto(a, "apply")
  <2>1. PICK x : /\ Becomes(a, x) /\ x.pc = "apply" /\ x.box = actors[a].box
                 /\ x.cur = Cur(a) /\ x.closed = actors[a].closed
                 /\ x.state = actors[a].state /\ x.version = actors[a].version
    BY <1>7, GotoBecomes DEF WorkPcs
  <2>2. call' = call
    BY <1>7, Zenon DEF Goto
  <2>3. TypeOK'
    BY <1>2, <1>3, <2>1, <2>2, Became, Zenon DEF TypeOK
  <2>4. Registry'
    BY <2>1, RegistryStays, Zenon
  <2>6. Mailboxes'
    BY <2>1, <2>2, MailKept, Zenon DEF WorkPcs
  <2>7. Knows(x)'
    BY <1>0, <1>2, <2>1, <1>6 DEF Knows
  <2>8. ActorsKnow'
    BY <1>1, <1>3, <2>1, <2>7, ActorsKnowMore, Zenon
  <2>9. Accounted'
    BY <1>0, <2>1, Became, <1>4, <2>2 DEF Cur, Accounted
  <2>10. Told'
    BY <1>1, <1>2, <2>2, ToldMore
  <2> QED
    BY <1>2, <2>3, <2>4, <2>6, <2>8, <2>9, <2>10, Zenon
<1>8. CASE Fail(a)
  <2>1. PICK x : /\ Becomes(a, x) /\ x.pc = "failed" /\ x.box = actors[a].box
                 /\ x.cur = NoKey /\ x.closed = actors[a].closed
                 /\ x.state = actors[a].state /\ x.version = actors[a].version
    BY <1>8, FailBecomes, Zenon
  <2>2. /\ call' = [call EXCEPT ![Cur(a)] = Answered("PersistenceError")]
        /\ call' \in [Commands -> Calls]
        /\ call'[c0] = Answered("PersistenceError")
        /\ \A c \in Commands : c # c0 => call'[c] = call[c]
    BY <1>0, <1>1, <1>8 DEF Fail, TypeOK, Calls, Replies
  <2>3. TypeOK'
    BY <1>2, <1>3, <2>1, <2>2, Became, Zenon DEF TypeOK
  <2>4. Registry'
    BY <2>1, RegistryStays, Zenon
  <2>5. x.pc \notin WorkPcs
    BY <2>1, Zenon DEF WorkPcs
  <2>6. Mailboxes'
    BY <1>0, <1>1, <2>1, <2>2, <2>5, MailAnswered, Zenon
  <2>7. Knows(x)'
    BY <1>6, <2>1, Zenon DEF Knows
  <2>8. ActorsKnow'
    BY <1>1, <1>3, <2>1, <2>7, ActorsKnowMore, Zenon
  <2>9. Accounted'
    BY <2>1, Became, <1>4, <2>2 DEF Cur, Accounted
  <2>10. Told'
    <3>1. Answered("PersistenceError") \notin
            {Answered("Events"), Answered("Replayed"), Answered("NoEvents")}
      BY CallShapes, Zenon
    <3> QED
      BY <1>1, <1>2, <2>2, <3>1, ToldMore
  <2> QED
    BY <1>2, <2>3, <2>4, <2>6, <2>8, <2>9, <2>10, Zenon
<1> QED
  BY <1>7, <1>8, Zenon

(* What an actor about to append knows.                                    *)
LEMMA ReadyToAppend ==
  ASSUME IInv, NEW a \in Actors, actors[a].pc = "append", Versioned(a), Reconciles(a)
  PROVE  /\ Running(a) /\ actors[a].version = Len(stream)
         /\ Fresh(Cur(a), actors[a].version) /\ Matches(Cur(a))
BY Zenon DEF IInv, ActorsKnow, Knows, Cur, Running, Versioned, Reconciles, Matches

LEMMA CommitIInv ==
  ASSUME IInv, NEW a \in Actors, Commit(a), UNCHANGED Routing
  PROVE  IInv'
BY ReadyToAppend, Publishes, Refuses, Zenon DEF Commit, WorkPcs

LEMMA PublishInMemoryIInv ==
  ASSUME IInv, NEW a \in Actors, PublishInMemory(a), UNCHANGED Routing
  PROVE  IInv'
<1>2. /\ Running(a) /\ actors[a].version = Len(stream)
      /\ Fresh(Cur(a), actors[a].version) /\ Matches(Cur(a))
  BY Zenon DEF IInv, ActorsKnow, Knows, Cur, Running, PublishInMemory
<1> QED
  BY <1>2, Publishes, Zenon DEF PublishInMemory

LEMMA CommitFailsIInv ==
  ASSUME IInv, NEW a \in Actors, CommitFails(a), UNCHANGED Routing
  PROVE  IInv'
BY ReadyToAppend, Publishes, Refuses, Zenon DEF CommitFails, WorkPcs

(* A receipt without events.                                               *)
LEMMA Confirms ==
  ASSUME IInv, NEW a \in Actors, actors[a].pc = "confirm", Reconciles(a),
         receipts' = Receipted(a, 0), NEW r \in {"NoEvents", "PersistenceError"},
         Reply(a, r), UNCHANGED <<Routing, stream, snapshot>>
  PROVE  IInv'
<1> USE DEF IInv
<1>0. PICK c0 : c0 = Cur(a)
  BY Zenon
<1>1. /\ c0 # NoKey /\ c0 \in Commands /\ call[c0] = Sent(a) /\ Running(a) /\ Keyed(c0)
      /\ UNCHANGED <<backend, keyOf, epochs, active>> /\ UNCHANGED Routing
  BY <1>0, AtWork, Zenon DEF WorkPcs, Routing, ActorsKnow, Knows, Cur
<1>2. Matches(c0)
  BY <1>0, Zenon DEF Reconciles, Matches
<1>3. /\ receipts' \in [Keys -> {NoReceipt} \cup Receipt] /\ ReceiptsStand
      /\ receipts'[keyOf[c0]] # NoReceipt /\ receipts'[keyOf[c0]].print = PrintOf[c0]
  BY <1>0, <1>1, <1>2, ReceiptGrows, Zenon
<1>5. PICK x : /\ Becomes(a, x) /\ x.pc = "loop" /\ x.box = actors[a].box
               /\ x.cur = NoKey /\ x.closed = actors[a].closed
               /\ x.state = actors[a].state /\ x.version = actors[a].version
  BY ReplyBecomes, Zenon
<1>6. /\ call' = [call EXCEPT ![Cur(a)] = Answered(r)]
      /\ call' \in [Commands -> Calls]
      /\ call'[c0] = Answered(r)
      /\ \A c \in Commands : c # c0 => call'[c] = call[c]
  BY <1>0, <1>1, Zenon DEF Reply, TypeOK, Calls, Replies
<1>7. TypeOK'
  BY <1>3, <1>5, <1>6, Became, Zenon DEF TypeOK
<1>8. Registry'
  BY <1>1, <1>5, RegistryStays, Zenon
<1>9. Mailboxes'
  BY <1>5, <1>0, <1>1, <1>6, MailAnswered, Zenon DEF WorkPcs
<1>10. ActorsKnow'
  <2>1. Prefix(x.state, x.version)
    BY <1>5, Zenon DEF ActorsKnow, Knows, Running
  <2>2. Prefix(x.state, x.version)'
    BY <2>1, Zenon DEF Prefix
  <2> QED
    BY <1>1, <1>5, ActorsKnowMore, <2>2, Zenon DEF Knows
<1>11. Log'
  <2>1. ASSUME NEW i \in DOMAIN stream, Keyed(stream[i])
        PROVE  receipts'[keyOf[stream[i]]] # NoReceipt
    BY <2>1, KeyIsAKey, <1>3, SMTT(30) DEF TypeOK, ReceiptsStand, Log
  <2>3. AppliedOnce'
    BY <1>1, Zenon DEF Log, AppliedOnce, Keyed
  <2> QED
    BY <1>1, <2>1, <2>3, Zenon DEF Log, Keyed, Prefix
<1>12. Accounted'
  BY <1>1, <1>6, CallShapes, <1>5, StillAccounted
<1>13. Told'
  BY CallShapes, <1>1, <1>3, <1>6, ToldMore
<1> QED
  BY <1>7, <1>8, <1>9, <1>10, <1>11, <1>12, <1>13, Zenon

LEMMA ConfirmNoEventsIInv ==
  ASSUME IInv, NEW a \in Actors, ConfirmNoEvents(a), UNCHANGED Routing
  PROVE  IInv'
BY Confirms, Refuses, Zenon DEF ConfirmNoEvents, WorkPcs, stores

-----------------------------------------------------------------------------
(* Every step keeps the invariant.                                         *)

LEMMA ActorStepIInv ==
  ASSUME IInv, NEW a \in Actors, ActorStep(a)
  PROVE  IInv'
<1>1. UNCHANGED Routing
  BY Zenon DEF ActorStep, Routing
<1>2. \/ LoadSnapshot(a) \/ ReplayEvents(a) \/ RecoveryFails(a)
      \/ Receive(a) \/ Gate(a) \/ GateFails(a) \/ Handle(a)
      \/ Commit(a) \/ StageInMemory(a) \/ PublishInMemory(a) \/ CommitFails(a)
      \/ ConfirmNoEvents(a) \/ Apply(a) \/ TakeSnapshot(a) \/ PostPersist(a)
      \/ Passivate(a) \/ FinalSnapshot(a) \/ DrainFailed(a)
  BY Zenon DEF ActorStep
<1> QED
  BY <1>1, <1>2, LoadSnapshotIInv, ReplayEventsIInv, RecoveryFailsIInv, ReceiveIInv,
     GateIInv, GateFailsIInv, HandleIInv, CommitIInv, StageInMemoryIInv,
     PublishInMemoryIInv, CommitFailsIInv, ConfirmNoEventsIInv, ApplyIInv,
     TakeSnapshotIInv, PostPersistIInv, PassivateIInv, FinalSnapshotIInv, DrainFailedIInv, Zenon

LEMMA InitIInv == Init => IInv
<1> SUFFICES ASSUME Init PROVE IInv
  BY Zenon
<1> USE DEF Init
<1>1. PICK u : u = Unborn(0)
  BY Zenon
<1>2. /\ u \in ActorRecord /\ u.pc = "unborn" /\ u.cur = NoKey /\ u.box = <<>>
  BY <1>1, UnbornShape, Zenon
<1>5. TypeOK
  BY EntityBoundAssumption, <1>1, <1>2 DEF TypeOK, Calls
<1>7. Mailboxes
  BY <1>2, CallShapes, <1>1 DEF Mailboxes, MailOf, Cur, WorkPcs
<1>8. ActorsKnow
  BY <1>2, <1>1, Zenon DEF ActorsKnow, Knows
<1>9. Log
  BY DEF Log, Prefix, AppliedOnce
<1>10. Accounted /\ Told
  BY CallShapes DEF Accounted, Told, Emitted
<1> QED
  BY <1>5, <1>7, <1>8, <1>9, <1>10, <1>2, <1>1 DEF IInv, Registry, Running, Actors

LEMMA NextIInv == IInv /\ [Next]_vars => IInv'
<1> SUFFICES ASSUME IInv, [Next]_vars PROVE IInv'
  BY Zenon
<1>1. CASE UNCHANGED vars
  <2>1. UNCHANGED <<backend, keyOf, active, epochs, actors, call, stream, receipts, snapshot>>
    BY <1>1, Zenon DEF vars
  <2>2. TypeOK' /\ Registry'
    BY <2>1, Zenon DEF IInv, TypeOK, Registry, Running
  <2>3. Mailboxes'
    BY <2>1, MailUntouched, Zenon DEF IInv, Mailboxes
  <2>4. ActorsKnow' /\ Log'
    BY <2>1, NothingLearnt, Zenon DEF IInv
  <2>5. Accounted' /\ Told'
    BY <2>1, Zenon DEF IInv, Accounted, Told, Cur, Matches, Emitted, Keyed
  <2> QED
    BY <2>2, <2>3, <2>4, <2>5, Zenon DEF IInv
<1>2. ASSUME NEW a \in Actors, ActorStep(a) \/ Exit(a) \/ Evict(a) \/ Panic(a)
      PROVE  IInv'
  BY ActorStepIInv, TeardownIInv, EvictIInv, <1>2, Zenon DEF Exit, Running, Panic
<1> QED
  BY <1>1, <1>2, SendIInv, EntityRefIInv, CrashIInv, Zenon DEF Next, Over

(* Every reachable state satisfies the invariant.                          *)
THEOREM EntityInvariant == Spec => []IInv
BY InitIInv, NextIInv, PTL DEF Spec

(* A node never runs two activations of an entity, and routes to the one   *)
(* it runs (TokioEntityRef::new, TeardownGuard::drop).                     *)
THEOREM OneActivation == Spec => []OneActorPerNode
<1>1. IInv => OneActorPerNode
  BY Zenon DEF IInv, Registry, OneActorPerNode
<1> QED
  BY <1>1, EntityInvariant, PTL

(* The events of an operation key are appended once, on both stores        *)
(* (execute_command's receipt gate, append_events, the unit of work).      *)
THEOREM OperationsApplyOnce == Spec => []AppliedOnce
<1> QED
  BY EntityInvariant, PTL DEF IInv, Log

(* If stored snapshots decode, every state an actor decides on is the      *)
(* replay of the stream up to its version (load_for_recovery, apply_events,*)
(* the snapshots of execute_command and passivate).                        *)
THEOREM StateFollowsStream == SnapshotDecodes => (Spec => []StateIsReplay)
<1> SUFFICES ASSUME SnapshotDecodes PROVE Spec => []StateIsReplay
  BY Zenon
<1>1. IInv => StateIsReplay
  <2> SUFFICES ASSUME IInv, NEW a \in Actors, Running(a)
               PROVE  /\ actors[a].version <= Len(stream)
                      /\ actors[a].state = SubSeq(stream, 1, actors[a].version)
    BY Zenon DEF StateIsReplay
  <2>1. PICK v \in Nat : v = actors[a].version
    BY TypedActor, Zenon DEF IInv
  <2>2. PICK s \in Seq(Commands) : s = actors[a].state
    BY TypedActor, Zenon DEF IInv
  <2>3. v <= Len(stream) /\ Len(s) = v /\ \A i \in 1 .. v : s[i] = stream[i]
    BY <2>1, <2>2, Zenon DEF IInv, ActorsKnow, Knows, Prefix, Running
  <2>5. PICK t : t = SubSeq(stream, 1, v)
    BY Zenon
  <2> QED
    BY <2>1, <2>2, <2>3
<1> QED
  BY <1>1, EntityInvariant, PTL

(* A reply says what is so: reported events are committed, an operation    *)
(* reported as done has a receipt of its own content, a refusal committed  *)
(* nothing (execute_command and the drains).                               *)
THEOREM RepliesAreHonest == Spec => []RepliesAreTrue
<1>1. IInv => RepliesAreTrue
  <2> SUFFICES ASSUME IInv, NEW c \in Commands, call[c].at = "answered"
               PROVE  /\ call[c].reply = "Events" => Emitted(c)
                      /\ call[c].reply \in {"DomainError", "OperationConflict",
                           "EntityNotActive", "Replayed", "NoEvents", "MailboxClosed"} =>
                             ~Emitted(c)
                      /\ call[c].reply \in {"Replayed", "NoEvents"} /\ Keyed(c) =>
                           /\ receipts[keyOf[c]] # NoReceipt
                           /\ receipts[keyOf[c]].print = PrintOf[c]
    BY Zenon DEF RepliesAreTrue, Emitted
  <2>1. PICK r : r = call[c].reply
    BY Zenon
  <2>2. r \in Replies /\ call[c] = Answered(r)
    BY <2>1, CallTags, Zenon DEF IInv, TypeOK
  <2>3. r = "Events" => Emitted(c)
    BY <2>2, ZenonT(40) DEF IInv, Told
  <2>4. r \in {"Replayed", "NoEvents"} /\ Keyed(c) =>
          receipts[keyOf[c]] # NoReceipt /\ receipts[keyOf[c]].print = PrintOf[c]
    BY <2>2, Zenon DEF IInv, Told, Matches
  <2>5. ASSUME Emitted(c)
        PROVE  r \in {"Events", "PersistenceError", "ReplyDropped", "ProcessDied"}
    <3>1. \A a \in Actors : Cur(a) # c
      BY <2>2, CallShapes, NoKeyAssumption DEF IInv, Mailboxes, MailOf
    <3>2. \E q \in {"Events", "PersistenceError", "ReplyDropped", "ProcessDied"} :
            call[c] = Answered(q)
      BY <2>5, <3>1, Zenon DEF IInv, Accounted
    <3> QED
      BY <2>2, <3>2, CallShapes, Zenon
  <2> QED
    BY <2>1, <2>3, <2>4, <2>5, Zenon
<1> QED
  BY <1>1, EntityInvariant, PTL

(* A command the mailbox took is with a running actor, queued once or at   *)
(* hand, until it is answered; a sender waits on no mailbox that nobody    *)
(* will drain or close (BoundedMailbox, TeardownGuard::drop).              *)
THEOREM CommandsAreKept == Spec => []NoCommandForgotten
<1>1. ASSUME IInv, NEW c \in Commands, NEW a \in Actors, call[c] = Sent(a)
      PROVE  /\ Running(a)
             /\ c = Cur(a) => ~Queued(a, c)
             /\ c # Cur(a) =>
                  \E i \in DOMAIN actors[a].box :
                    \A j \in DOMAIN actors[a].box : actors[a].box[j] = c <=> j = i
  <2>1. MailOf(a)
    BY <1>1, Zenon DEF IInv, Mailboxes
  <2>3. c = Cur(a) => ~Queued(a, c)
    BY <2>1, Zenon DEF MailOf, Queued
  <2>4. ASSUME c # Cur(a)
        PROVE  \E i \in DOMAIN actors[a].box :
                 \A j \in DOMAIN actors[a].box : actors[a].box[j] = c <=> j = i
    BY <2>4, <1>1, <2>1 DEF Queued, MailOf
  <2> QED
    BY <2>3, <2>4, <1>1, <2>1, Zenon DEF MailOf
<1>2. ASSUME IInv, NEW c \in Commands, NEW a \in Actors, call[c] = Routed(a)
      PROVE  Running(a) \/ actors[a].closed
  BY <1>2, Zenon DEF IInv, Mailboxes, MailOf
<1>3. IInv => NoCommandForgotten
  BY <1>1, <1>2, Zenon DEF NoCommandForgotten
<1> QED
  BY <1>3, EntityInvariant, PTL
=============================================================================
