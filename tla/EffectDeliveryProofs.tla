------------------------- MODULE EffectDeliveryProofs -------------------------
(***************************************************************************)
(* What delivery by one process guarantees, for every number of effects,   *)
(* keys, permits, faults and crashes and for every store.                  *)
(*                                                                         *)
(* An attempt that is to execute, or has executed and not settled the      *)
(* outcome, holds the unconfirmed reservation of its key.  With one permit *)
(* nobody else is at work; with more, as long as no store call failed for  *)
(* good, the state of the row keeps a second attempt from starting.        *)
(***************************************************************************)
EXTENDS EffectDelivery, TLAPS

LivePcs == {"reserve", "look", "execute", "commit", "succeed", "unconfirmed",
            "retry", "requeue", "satisfied", "abandon", "giveup"}
TaskPcs == LivePcs \cup {"mark", "release"}
States == Open \cup Settled \cup {"Unknown", "InFlight", "Purged"}

StoreRow == [state : States, attempt : Nat, due : BOOLEAN]
Taken == [effect_id : Effects, fingerprint : {FingerprintOf[e] : e \in Effects},
          succeeded : BOOLEAN]
TaskRecord == [pc : TaskPcs, id : Effects, attempt : Nat]
Begun == [pc : {"mark", "reserve"}, id : Effects, attempt : Nat]
Entry == [id : Effects, attempt : Nat]
LoopRecord ==
  {Selecting, Stopped} \cup [pc : {"reclaim"}, batch : SUBSET Entry]
    \cup [pc : {"permit"}, task : Begun, batch : SUBSET Entry]

TypeOK ==
  /\ store \in [Effects -> StoreRow]
  /\ dedup \in [Scopes -> {NoReservation} \cup Taken]
  /\ sending \subseteq Effects
  /\ queue \in Seq(Effects)
  /\ loop \in LoopRecord
  /\ tasks \in [Permits -> {Free} \cup TaskRecord]
  /\ executed \in [Effects -> Nat]
  /\ delivered \subseteq Effects
  /\ faults \in Nat

(* The permits in use are those of the setting.                            *)
PermitsInUse == \A p \in Permits : tasks[p].pc # "free" => p \in setting.permits

(* The task of p, or the attempt that waits for a permit, has the row of e *)
(* in flight.                                                              *)
Works(p, e) == tasks[p].pc # "free" /\ tasks[p].id = e
Live(p, e) == Works(p, e) /\ tasks[p].pc \in LivePcs
Releasing(p, e) == Works(p, e) /\ tasks[p].pc = "release"
Waiting(e) ==
  loop.pc = "permit" /\ loop.task.pc = "reserve" /\ loop.task.id = e

(* As long as no call failed for good, an effect has one attempt under     *)
(* way, and its row says so.                                               *)
Flights ==
  faults = 0 => \A e \in Effects :
    /\ \A p \in Permits : Live(p, e) => store[e].state = "InFlight" /\ ~Waiting(e)
    /\ Waiting(e) => store[e].state = "InFlight"
    /\ \A p \in Permits : Releasing(p, e) => store[e].state \in Settled \cup {"Purged"}
    /\ \A p, q \in Permits : Live(p, e) /\ Live(q, e) => p = q
    /\ \A p, q \in Permits : Releasing(p, e) /\ Releasing(q, e) => p = q

(* What a task has to know of its effect: that an executor reported        *)
(* success, that the reservation of its key is its own and unconfirmed, or *)
(* that the success of its content is on record.                           *)
HolderPcs == {"execute", "commit", "retry", "giveup", "release"}
Done(p, e) == tasks[p].pc \in {"commit", "succeed", "unconfirmed"} /\ tasks[p].id = e
Holds(p, e) == tasks[p].pc \in HolderPcs /\ tasks[p].id = e
Knows(p, e) == tasks[p].pc \in {"succeed", "satisfied"} /\ tasks[p].id = e

Recorded(s) == s \in expired \/ Eligible(s)
Delivered(e) ==
  \E d \in delivered : ScopeOf[d] = ScopeOf[e] /\ FingerprintOf[d] = FingerprintOf[e]
Vouched(s) ==
  \E d \in delivered : ScopeOf[d] = s /\ FingerprintOf[d] = dedup[s].fingerprint

DoneIsDelivered ==
  \A p \in Permits, e \in Effects : Done(p, e) => e \in delivered
HoldersHold ==
  \A p \in Permits, e \in Effects : Holds(p, e) => dedup[ScopeOf[e]] = Reservation(e)
SuccessIsRecorded ==
  \A e \in Effects :
    store[e].state = "Succeeded" \/ (\E p \in Permits : Knows(p, e)) =>
      Recorded(ScopeOf[e]) /\ Delivered(e)
RecordsAreTrue == \A s \in Scopes : Eligible(s) => Vouched(s)

Undisturbed == faults = 0 \/ Sequential
Keys ==
  /\ DoneIsDelivered
  /\ Undisturbed => HoldersHold /\ SuccessIsRecorded /\ RecordsAreTrue

IInv == TypeOK /\ PermitsInUse /\ Flights /\ Keys

-----------------------------------------------------------------------------
(* Shapes                                                                  *)

LEMMA Shapes ==
  ASSUME TypeOK, NEW p \in Permits
  PROVE  /\ tasks[p] # Free <=> tasks[p].pc # "free"
         /\ tasks[p].pc # "free" => tasks[p] \in TaskRecord
BY DEF TypeOK, Free, TaskRecord, TaskPcs, LivePcs

LEMMA LoopShapes ==
  ASSUME TypeOK
  PROVE  /\ loop = Selecting <=> loop.pc = "select"
         /\ loop.pc \in {"select", "stopped", "reclaim", "permit"}
         /\ loop.pc \in {"reclaim", "permit"} => loop.batch \in SUBSET Entry
         /\ loop.pc = "permit" => loop.task \in Begun
BY DEF TypeOK, LoopRecord, Selecting, Stopped

(* A move of a task to another point of dispatch.                          *)
LEMMA GotoMoves ==
  ASSUME TypeOK, NEW p \in Permits, tasks[p].pc # "free",
         NEW pc \in TaskPcs \cup {"free"}, Goto(p, pc)
  PROVE  /\ tasks' \in [Permits -> {Free} \cup TaskRecord]
         /\ \A u \in Permits \ {p} : tasks'[u] = tasks[u]
         /\ tasks'[p].pc = pc
         /\ pc # "free" => tasks'[p].id = tasks[p].id
<1>2. [tasks[p] EXCEPT !.pc = pc] \in TaskRecord \/ pc = "free"
  BY Shapes, Zenon DEF TaskRecord
<1> QED
  BY <1>2, Shapes, Zenon DEF Goto, TypeOK, Free, TaskRecord, TaskPcs, LivePcs

LEMMA Reservations ==
  /\ NoReservation \notin Taken
  /\ \A e \in Effects : /\ ScopeOf[e] \in Scopes
                        /\ Reservation(e) \in Taken
                        /\ Reservation(e).effect_id = e
                        /\ ~Reservation(e).succeeded
BY DEF Taken, NoReservation, Reservation, Scopes

(* What the answer to reserve tells of the reservation that was there:     *)
(* only its holder goes on, and only a success of the same content counts. *)
LEMMA Answers ==
  ASSUME NEW e \in Effects, NEW r \in {NoReservation} \cup Taken
  PROVE  /\ Answer(e, r) \in {"execute", "giveup", "abandon", "satisfied",
                              "requeue"}
         /\ r # NoReservation /\ Answer(e, r) \in {"execute", "giveup"} =>
              r = Reservation(e)
         /\ r = NoReservation => Answer(e, r) \in {"execute", "giveup"}
         /\ Answer(e, r) = "satisfied" =>
              r # NoReservation /\ r.succeeded /\ r.fingerprint = FingerprintOf[e]
BY Zenon DEF Answer, Taken, Reservation

(* Two tasks that hold the reservation of one key are the same task.       *)
LEMMA OneHolder ==
  ASSUME TypeOK, PermitsInUse, Flights, Keys, Undisturbed,
         NEW p \in Permits, NEW q \in Permits,
         NEW e \in Effects, NEW f \in Effects,
         Holds(p, e), Holds(q, f), ScopeOf[e] = ScopeOf[f]
  PROVE  p = q
<1>2. CASE Sequential
  BY <1>2, Zenon DEF Sequential, PermitsInUse, Works, Holds, HolderPcs
<1>3. CASE faults = 0
  <2>3. \A x \in {p, q} : Live(x, e) \/ Releasing(x, e)
    BY Reservations DEF Live, Releasing, LivePcs, HolderPcs, Holds, Works, Keys,
       HoldersHold
  <2> QED
    BY <2>3, <1>3, Zenon DEF Flights, Settled
<1> QED
  BY <1>2, <1>3, Zenon DEF Undisturbed

-----------------------------------------------------------------------------
(* Flights                                                                 *)

(* No attempt starts, and the rows of those under way stay as they are.    *)
LEMMA FlightsGoOn ==
  ASSUME Flights, faults' = 0 => faults = 0,
         \A p \in Permits, e \in Effects :
           /\ Live(p, e)' => Live(p, e)
           /\ Releasing(p, e)' => Releasing(p, e),
         \A e \in Effects :
           /\ Waiting(e)' => Waiting(e)
           /\ store[e].state = "InFlight" => store'[e].state = "InFlight"
           /\ store[e].state \in Settled \cup {"Purged"} =>
                store'[e].state \in Settled \cup {"Purged"}
  PROVE  Flights'
BY ZenonT(40) DEF Flights

(* A call that failed for good.                                            *)
LEMMA FlightsDisturbed == ASSUME faults' # 0 PROVE Flights'
BY Zenon DEF Flights

(* A task goes on with its row in flight, or ends.                         *)
LEMMA TaskGoesOn ==
  ASSUME TypeOK, Flights, NEW p \in Permits, tasks[p].pc # "free",
         NEW pc \in TaskPcs \cup {"free"}, Goto(p, pc),
         UNCHANGED <<store, loop>>, faults' = 0 => faults = 0,
         pc = "free" \/ (tasks[p].pc \in LivePcs /\ pc \in LivePcs)
  PROVE  Flights'
BY GotoMoves, FlightsGoOn DEF Releasing, Works, LivePcs, Waiting, Live

(* A task settles its row or puts it back.                                 *)
LEMMA TaskLands ==
  ASSUME TypeOK, Flights, NEW p \in Permits, tasks[p].pc \in LivePcs,
         NEW pc \in {"free", "release"}, Goto(p, pc), UNCHANGED loop,
         NEW row \in StoreRow, store' = [store EXCEPT ![tasks[p].id] = row],
         faults' = 0 => faults = 0,
         pc = "release" => row.state \in Settled
  PROVE  Flights'
<1> SUFFICES ASSUME faults = 0, faults' = 0 PROVE Flights'
  BY FlightsDisturbed, Zenon
<1>1. tasks[p].pc # "free"
  BY Zenon DEF LivePcs
<1>2. /\ \A u \in Permits \ {p} : tasks'[u] = tasks[u]
      /\ tasks'[p].pc = pc
      /\ pc # "free" => tasks'[p].id = tasks[p].id
  BY <1>1, GotoMoves, Zenon DEF TaskPcs
<1>3. PICK e \in Effects : e = tasks[p].id
  BY <1>1, Shapes, Zenon DEF TaskRecord
<1>4. store'[e] = row /\ \A f \in Effects \ {e} : store'[f] = store[f]
  BY <1>3, Zenon DEF TypeOK
<1>6. /\ \A u \in Permits : ~Releasing(u, e)
      /\ \A u \in Permits : Live(u, e) => u = p
      /\ ~Waiting(e)
  BY <1>1, <1>3, Zenon DEF Flights, Settled, Live, Works
<1>7. \A u \in Permits, f \in Effects : Live(u, f)' => Live(u, f) /\ f # e
  BY <1>2, <1>3, <1>6 DEF Live, Works, LivePcs
<1>8. \A u \in Permits, f \in Effects : Releasing(u, f)' =>
        \/ Releasing(u, f) /\ f # e
        \/ u = p /\ f = e /\ pc = "release"
  BY <1>2, <1>3, <1>6, Zenon DEF Releasing, Works
<1> SUFFICES ASSUME NEW f \in Effects
             PROVE  /\ \A u \in Permits : Live(u, f)' =>
                         store'[f].state = "InFlight" /\ ~Waiting(f)'
                    /\ Waiting(f)' => store'[f].state = "InFlight"
                    /\ \A u \in Permits : Releasing(u, f)' =>
                         store'[f].state \in Settled \cup {"Purged"}
                    /\ \A u, v \in Permits : Live(u, f)' /\ Live(v, f)' => u = v
                    /\ \A u, v \in Permits :
                         Releasing(u, f)' /\ Releasing(v, f)' => u = v
  BY Zenon DEF Flights
<1>10. CASE f = e
  BY <1>10, <1>4, <1>7, <1>8, <1>6, Zenon DEF Waiting
<1>11. CASE f # e
  BY <1>11, <1>4, <1>7, <1>8, <1>6 DEF Flights, Waiting
<1> QED
  BY <1>10, <1>11, Zenon

(* A row that may be marked has no attempt under way; one more starts.     *)
LEMMA TakesOff ==
  ASSUME Flights, NEW e \in Effects, Markable(e), faults' = 0 => faults = 0,
         store'[e].state = "InFlight",
         \A f \in Effects \ {e} : store'[f] = store[f],
         \A p \in Permits, f \in Effects :
           /\ Live(p, f)' => Live(p, f) \/ f = e
           /\ Releasing(p, f)' => Releasing(p, f),
         \A f \in Effects : Waiting(f)' => Waiting(f) \/ f = e,
         \A p, q \in Permits :
           /\ Live(p, e)' /\ ~Live(p, e) /\ Live(q, e)' /\ ~Live(q, e) => p = q
           /\ Live(p, e)' /\ ~Live(p, e) /\ Waiting(e)' => Waiting(e)
  PROVE  Flights'
BY FlightsDisturbed DEF Flights, Markable, Open, Settled

-----------------------------------------------------------------------------
(* Keys                                                                    *)

(* What was undisturbed after a step was so before.                        *)
LEMMA UndisturbedBefore ==
  ASSUME setting' = setting, faults' = 0 => faults = 0, Undisturbed'
  PROVE  Undisturbed
BY Zenon DEF Undisturbed, Sequential

(* The reservations stay, and no task learns anything: it goes on within   *)
(* what it knew, ends or begins.  A row succeeds by a task that knew.      *)
LEMMA KeysGoOn ==
  ASSUME Keys, setting' = setting, faults' = 0 => faults = 0,
         dedup' = dedup, expired' = expired, delivered' = delivered,
         \A p \in Permits, e \in Effects :
           /\ Done(p, e)' => Done(p, e)
           /\ Holds(p, e)' => Holds(p, e)
           /\ Knows(p, e)' => Knows(p, e),
         \A e \in Effects : store'[e].state = "Succeeded" =>
           store[e].state = "Succeeded" \/ \E p \in Permits : Knows(p, e)
  PROVE  Keys'
BY UndisturbedBefore DEF Keys, DoneIsDelivered, HoldersHold, SuccessIsRecorded,
   Recorded, Delivered, Eligible, RecordsAreTrue, Vouched

(* A move of one task leaves the keys as KeysGoOn says.                    *)
LEMMA TaskKeeps ==
  ASSUME Keys, TypeOK, NEW p \in Permits, tasks[p].pc # "free",
         NEW pc \in TaskPcs \cup {"free"}, Goto(p, pc),
         UNCHANGED <<setting, dedup, expired, delivered>>, faults' = 0 => faults = 0,
         pc \in HolderPcs => tasks[p].pc \in HolderPcs,
         pc \notin {"succeed", "satisfied"},
         pc \in {"commit", "unconfirmed"} =>
           tasks[p].pc \in {"commit", "succeed", "unconfirmed"},
         \A e \in Effects : store'[e].state = "Succeeded" =>
           store[e].state = "Succeeded" \/ Knows(p, e)
  PROVE  Keys'
BY GotoMoves, KeysGoOn DEF Done, Holds, HolderPcs, Knows

(* The permits a task's move leaves in use.                                *)
LEMMA TaskInUse ==
  ASSUME TypeOK, PermitsInUse, NEW p \in Permits, tasks[p].pc # "free",
         NEW pc \in TaskPcs \cup {"free"}, Goto(p, pc), setting' = setting
  PROVE  PermitsInUse'
BY GotoMoves, Zenon DEF PermitsInUse


-----------------------------------------------------------------------------
(* The steps of the acceptor, the loop, retention and shutdown             *)

LEMMA FaultsGrow ==
  ASSUME TypeOK, faults' \in {faults, faults + 1}
  PROVE  faults' \in Nat /\ (faults' = 0 => faults = 0)
BY DEF TypeOK

(* A step that moves no task.                                              *)
LEMMA QuietStep ==
  ASSUME IInv, TypeOK', UNCHANGED <<setting, dedup, expired, delivered, tasks>>,
         faults' \in {faults, faults + 1},
         \A e \in Effects :
           /\ Waiting(e)' => Waiting(e)
           /\ store'[e].state = "Succeeded" => store[e].state = "Succeeded"
           /\ store[e].state = "InFlight" => store'[e].state = "InFlight"
           /\ store[e].state \in Settled \cup {"Purged"} =>
                store'[e].state \in Settled \cup {"Purged"}
  PROVE  IInv'
BY FaultsGrow, FlightsGoOn, KeysGoOn, Zenon DEF IInv, PermitsInUse, Live, Releasing,
   Works, Done, Holds, Knows

LEMMA AcceptIInv ==
  ASSUME IInv, NEW e \in Effects, Accept(e)
  PROVE  IInv'
<1>1. store[e].state = "Unknown"
  BY DEF Accept, Unknown, Row
<1>4. TypeOK'
  BY FaultsGrow, Zenon DEF IInv, TypeOK, Accept, history, background, Row, StoreRow,
     States, Open
<1> QED
  BY <1>1, <1>4, QuietStep, Zenon DEF Settled, Accept, history, background, IInv,
     TypeOK, Row, Waiting

LEMMA EnqueueIInv ==
  ASSUME IInv, NEW e \in Effects, Enqueue(e)
  PROVE  IInv'
<1>2. TypeOK'
  BY DEF IInv, TypeOK, Enqueue, stores, history, background
<1> QED
  BY <1>2, QuietStep, Zenon DEF Enqueue, stores, history, background, Waiting

LEMMA BackoffElapsesIInv ==
  ASSUME IInv, NEW e \in Effects, BackoffElapses(e)
  PROVE  IInv'
<1>1. /\ store' = [store EXCEPT ![e].due = TRUE]
      /\ UNCHANGED <<dedup, sending, queue, loop, tasks, executed, delivered, expired,
                     setting, faults>>
  BY Zenon DEF BackoffElapses, intake, history, background
<1>2. /\ store' \in [Effects -> StoreRow]
      /\ \A f \in Effects : store'[f].state = store[f].state
  BY <1>1, Zenon DEF IInv, TypeOK, StoreRow
<1>3. TypeOK'
  BY <1>1, <1>2, Zenon DEF IInv, TypeOK
<1> QED
  BY <1>1, <1>2, <1>3, QuietStep, Zenon DEF Waiting

(* A fresh effect waits for a permit before its row is marked.             *)
LEMMA ReceiveIInv ==
  ASSUME IInv, Receive
  PROVE  IInv'
<1>2. Head(queue) \in Effects /\ queue' \in Seq(Effects)
  BY DEF IInv, TypeOK, Receive, stores, history, background
<1>3. loop' \in LoopRecord
  BY <1>2, Zenon DEF Task, LoopRecord, Begun, Entry, Receive, stores, history,
     background
<1>4. TypeOK'
  BY <1>2, <1>3, Zenon DEF IInv, TypeOK, Receive, stores, history, background
<1> QED
  BY <1>4, QuietStep, Zenon DEF Receive, stores, history, background, Waiting, Task

LEMMA BatchesAreDue ==
  ASSUME NEW due, NEW limit, NEW S \in Batches(due, limit)
  PROVE  S \subseteq due
BY DEF Batches

LEMMA ClaimDueIInv ==
  ASSUME IInv, ClaimDue
  PROVE  IInv'
<1>1. PICK S \in SUBSET Effects :
        loop' = [pc |-> "reclaim",
                 batch |-> {[id |-> e, attempt |-> store[e].attempt] : e \in S}]
  BY BatchesAreDue, Zenon DEF ClaimDue, Due
<1>4. loop' \in LoopRecord
  BY <1>1 DEF LoopRecord, IInv, TypeOK, StoreRow, Entry
<1>5. TypeOK'
  BY <1>4, Zenon DEF IInv, TypeOK, ClaimDue, stores, intake, history, background
<1> QED
  BY <1>5, QuietStep, <1>1, Zenon DEF ClaimDue, stores, intake, history, background,
     Waiting

(* reclaim_due: a marked row waits for a permit; any other is skipped.     *)
LEMMA ReclaimOneIInv ==
  ASSUME IInv, NEW r \in Batch, ReclaimOne(r)
  PROVE  IInv'
<1> DEFINE others == Batch \ {r}
           marked == [store EXCEPT ![r.id].state = "InFlight"]
           skip == IF others = {} THEN Selecting ELSE [loop EXCEPT !.batch = others]
<1>2. PICK e \in Effects : e = r.id
  BY DEF Entry, Batch, IInv, TypeOK, LoopRecord, Selecting, Stopped
<1>4. /\ marked \in [Effects -> StoreRow]
      /\ marked[e].state = "InFlight"
      /\ \A f \in Effects \ {e} : marked[f] = store[f]
  BY <1>2, ZenonT(40) DEF IInv, TypeOK, StoreRow, States
<1>6. skip \in LoopRecord /\ skip.pc # "permit"
  BY Zenon DEF LoopRecord, Selecting, Batch, IInv, TypeOK, Stopped, Entry
<1>7. CASE /\ Markable(r.id)
           /\ store' = marked
           /\ loop' = [pc |-> "permit", task |-> Task("reserve", r.id, r.attempt),
                       batch |-> others]
           /\ UNCHANGED faults
  <2>1. loop' \in LoopRecord
    BY <1>7, <1>2 DEF Task, LoopRecord, Begun, Entry, Batch, IInv, TypeOK,
       Selecting, Stopped
  <2>2. TypeOK'
    BY <1>4, <1>7, <2>1, Zenon DEF IInv, TypeOK, ReclaimOne, intake, history,
       background
  <2>3. \A p \in Permits, f \in Effects :
          /\ Live(p, f)' <=> Live(p, f)
          /\ Releasing(p, f)' => Releasing(p, f)
    BY Zenon DEF Live, Releasing, Works, ReclaimOne, intake, history, background
  <2>5. Flights'
    <3> HIDE DEF marked
    <3> QED
      BY <1>2, <1>4, <1>7, <2>3, TakesOff, Zenon DEF IInv, Waiting, Task
  <2>7. \A f \in Effects : store'[f].state = "Succeeded" => store[f].state = "Succeeded"
    BY <1>4, <1>7, Zenon
  <2>8. Keys'
    BY <1>7, <2>7, KeysGoOn, Zenon DEF IInv, ReclaimOne, intake, history,
       background, Done, Holds, Knows
  <2>9. PermitsInUse'
    BY Zenon DEF IInv, PermitsInUse, ReclaimOne, intake, history, background
  <2> QED
    BY <2>2, <2>5, <2>8, <2>9, Zenon DEF IInv
<1>8. CASE /\ loop' = skip
           /\ store' \in {store, IF Markable(r.id) THEN marked ELSE store}
           /\ faults' \in {faults, faults + 1}
  <2>1. TypeOK'
    BY <1>4, <1>8, <1>6, FaultsGrow, Zenon DEF IInv, TypeOK, ReclaimOne, intake,
       history, background
  <2>3. \A f \in Effects : \/ store'[f].state = store[f].state
                           \/ /\ store'[f].state = "InFlight"
                              /\ store[f].state \in Open
    <3> HIDE DEF marked
    <3> QED
      BY <1>2, <1>4, <1>8, Zenon DEF Markable
  <2>4. \A f \in Effects :
          /\ store'[f].state = "Succeeded" => store[f].state = "Succeeded"
          /\ store[f].state = "InFlight" => store'[f].state = "InFlight"
          /\ store[f].state \in Settled \cup {"Purged"} =>
               store'[f].state \in Settled \cup {"Purged"}
    BY <2>3, Zenon DEF Open, Settled
  <2> QED
    BY <1>8, <2>1, <2>4, QuietStep, <1>6, Zenon DEF ReclaimOne, intake, history,
       background, Waiting
<1> QED
  BY <1>7, <1>8, Zenon DEF ReclaimOne

(* acquire_permit_and_spawn hands the attempt that waits to a free permit. *)
LEMMA SpawnIInv ==
  ASSUME IInv, NEW p \in Permits, Spawn(p)
  PROVE  IInv'
<1>1. /\ loop.pc = "permit" /\ p \in setting.permits /\ tasks[p] = Free
      /\ tasks' = [tasks EXCEPT ![p] = loop.task]
      /\ loop' = IF loop.batch = {} THEN Selecting
                 ELSE [pc |-> "reclaim", batch |-> loop.batch]
      /\ UNCHANGED <<store, dedup, sending, queue, executed, delivered, expired, setting,
                     faults>>
  BY Zenon DEF Spawn, stores, intake, history, background
<1>3. loop.task \in TaskRecord /\ loop.task.pc \in {"mark", "reserve"}
  BY <1>1, LoopShapes, Zenon DEF Begun, TaskRecord, TaskPcs, LivePcs, IInv
<1>5. loop' \in LoopRecord /\ loop'.pc # "permit"
  BY <1>1, LoopShapes, Zenon DEF LoopRecord, Selecting, IInv
<1>6. TypeOK'
  BY <1>1, <1>5, <1>3, Zenon DEF IInv, TypeOK
<1>7. PermitsInUse'
  BY <1>1, <1>3, Zenon DEF IInv, PermitsInUse, TypeOK
<1>8. \A f \in Effects : ~Waiting(f)'
  BY <1>5, Zenon DEF Waiting
<1>9. /\ \A u \in Permits \ {p}, f \in Effects : Live(u, f)' <=> Live(u, f)
      /\ \A f \in Effects : Live(p, f)' => Waiting(f)
      /\ \A u \in Permits, f \in Effects : Releasing(u, f)' => Releasing(u, f)
  BY <1>3, <1>1 DEF Live, Releasing, Works, Waiting, LivePcs, IInv, TypeOK
<1>10. Flights'
  BY <1>9, <1>1, <1>8 DEF IInv, Flights
<1>11. \A u \in Permits, f \in Effects :
         /\ Done(u, f)' => Done(u, f)
         /\ Holds(u, f)' => Holds(u, f)
         /\ Knows(u, f)' => Knows(u, f)
  BY <1>3, <1>1 DEF Done, Holds, Knows, HolderPcs, IInv, TypeOK
<1>12. Keys'
  BY <1>1, <1>11, KeysGoOn, Zenon DEF IInv
<1> QED
  BY <1>6, <1>7, <1>10, <1>12, Zenon DEF IInv

-----------------------------------------------------------------------------
(* The steps of a dispatch task                                            *)

(* A write that ends the flight of the task's row.                         *)
LEMMA WriteLands ==
  ASSUME IInv, NEW p \in Permits, tasks[p].pc \in LivePcs,
         NEW from, "InFlight" \in from, from \cap (Settled \cup {"Purged"}) = {},
         NEW row \in StoreRow, NEW onOk \in {"free", "release"},
         NEW onErr \in {"free", "unconfirmed", "giveup"},
         WriteRow(p, from, row, onOk, onErr),
         row.state = "Succeeded" => tasks[p].pc \in {"succeed", "satisfied"},
         onOk = "release" => tasks[p].pc = "giveup" /\ row.state \in Settled,
         onErr = "unconfirmed" => tasks[p].pc = "succeed",
         onErr = "giveup" => tasks[p].pc = "retry"
  PROVE  IInv'
<1>1. PICK e \in Effects : e = tasks[p].id
  BY Shapes, Zenon DEF IInv, TaskRecord, LivePcs
<1>2. tasks[p].pc # "free"
  BY Zenon DEF LivePcs
<1>3. UNCHANGED <<dedup, sending, queue, loop, executed, delivered, expired, setting>>
  BY Zenon DEF WriteRow, intake, history, background
<1>4. PICK pc \in {onOk, onErr} :
        /\ Goto(p, pc)
        /\ \/ store' = [store EXCEPT ![e] = row] /\ pc = onOk /\ faults' = faults
           \/ store' = store /\ pc = onErr /\ faults' = faults
              /\ store[e].state \notin from
           \/ store' \in {store, [store EXCEPT ![e] = row]} /\ pc = onErr
              /\ faults' = faults + 1
  BY <1>1, Zenon DEF WriteRow
<1>5. pc \in TaskPcs \cup {"free"}
  BY Zenon DEF TaskPcs, LivePcs
<1>6. faults' \in Nat /\ (faults' = 0 => faults = 0) /\ (faults' = faults + 1 => faults' # 0)
  BY <1>4, FaultsGrow DEF IInv, TypeOK
<1>7. store' \in [Effects -> StoreRow]
  BY <1>4, Zenon DEF IInv, TypeOK
<1>8. TypeOK'
  BY <1>2, <1>3, <1>4, <1>5, <1>6, <1>7, GotoMoves, Zenon DEF IInv, TypeOK
<1>9. PermitsInUse'
  BY <1>2, <1>3, <1>4, <1>5, TaskInUse, Zenon DEF IInv
<1>10. Flights'
  <2>1. CASE faults' = faults + 1
    BY <2>1, <1>6, FlightsDisturbed, Zenon
  <2>2. CASE store' = [store EXCEPT ![e] = row] /\ pc = onOk /\ faults' = faults
    BY <2>2, <1>1, <1>3, <1>4, TaskLands, ZenonT(40) DEF IInv
  <2>3. CASE store' = store /\ pc = onErr /\ faults' = faults /\ store[e].state \notin from
    <3>1. Live(p, e)
      BY <1>1, <1>2, Zenon DEF Live, Works
    <3> QED
      BY <1>6, FlightsDisturbed, <3>1, <2>3, Zenon DEF IInv, Flights
  <2> QED
    BY <2>1, <2>2, <2>3, <1>4, Zenon
<1>11. Keys'
  <2>1. \A f \in Effects : store'[f].state = "Succeeded" =>
          store[f].state = "Succeeded" \/ Knows(p, f)
    BY <1>1, <1>4, Zenon DEF IInv, TypeOK, Knows
  <2>2. /\ pc \in HolderPcs => tasks[p].pc \in HolderPcs
        /\ pc \notin {"succeed", "satisfied"}
        /\ pc \in {"commit", "unconfirmed"} =>
             tasks[p].pc \in {"commit", "succeed", "unconfirmed"}
    BY <1>4, Zenon DEF HolderPcs
  <2> QED
    BY <2>1, <2>2, <1>2, <1>3, <1>4, <1>5, <1>6, TaskKeeps, Zenon DEF IInv
<1> QED
  BY <1>8, <1>9, <1>10, <1>11, Zenon DEF IInv

(* mark_succeeded, mark_retryable and mark_terminal.                       *)
LEMMA MarksIInv ==
  ASSUME IInv, NEW p \in Permits,
         MarkSucceeded(p) \/ MarkRetryable(p) \/ MarkTerminal(p)
  PROVE  IInv'
<1>1. tasks[p].pc \in LivePcs
  BY Zenon DEF MarkSucceeded, MarkRetryable, MarkTerminal, LivePcs
<1>2. PICK n \in Nat : n = tasks[p].attempt
  BY <1>1, Shapes, Zenon DEF IInv, TaskRecord, LivePcs
<1>3. /\ Row("Succeeded", n, FALSE) \in StoreRow
      /\ Row("Succeeded", n, FALSE).state = "Succeeded"
      /\ Row("TerminalFailed", n, FALSE) \in StoreRow
      /\ Row("TerminalFailed", n, FALSE).state = "TerminalFailed"
      /\ Row("RetryableFailed", n, TRUE) \in StoreRow
      /\ Row("RetryableFailed", n, TRUE).state = "RetryableFailed"
      /\ Row("RetryableFailed", n + 1, FALSE) \in StoreRow
      /\ Row("RetryableFailed", n + 1, FALSE).state = "RetryableFailed"
  BY DEF Row, StoreRow, States, Open, Settled
<1>6. CASE tasks[p].pc = "succeed"
  BY <1>2, <1>6, <1>1, <1>3, WriteLands, Zenon DEF MarkSucceeded, MarkRetryable,
     MarkTerminal, Settled
<1>7. CASE tasks[p].pc = "satisfied"
  BY <1>2, <1>7, <1>1, <1>3, WriteLands, Zenon DEF MarkSucceeded, MarkRetryable,
     MarkTerminal, Settled
<1>8. CASE tasks[p].pc = "unconfirmed"
  BY <1>2, <1>8, <1>1, <1>3, WriteLands, Zenon DEF MarkSucceeded, MarkRetryable,
     MarkTerminal, Settled
<1>9. CASE tasks[p].pc = "retry"
  BY <1>2, <1>9, <1>1, <1>3, WriteLands, Zenon DEF MarkSucceeded, MarkRetryable,
     MarkTerminal, Settled
<1>10. CASE tasks[p].pc = "requeue"
  BY <1>2, <1>10, <1>1, <1>3, WriteLands, Zenon DEF MarkSucceeded, MarkRetryable,
     MarkTerminal, Settled
<1>11. CASE tasks[p].pc = "abandon"
  BY <1>2, <1>11, <1>1, <1>3, WriteLands, Zenon DEF MarkSucceeded, MarkRetryable,
     MarkTerminal, Settled
<1>12. CASE tasks[p].pc = "giveup"
  BY <1>2, <1>12, <1>1, <1>3, WriteLands, Zenon DEF MarkSucceeded, MarkRetryable,
     MarkTerminal, Settled
<1> QED
  BY <1>6, <1>7, <1>8, <1>9, <1>10, <1>11, <1>12, Zenon DEF MarkSucceeded,
     MarkRetryable, MarkTerminal

(* mark_in_flight, the start of the flight of a fresh effect's row.        *)
LEMMA MarkInFlightIInv ==
  ASSUME IInv, NEW p \in Permits, MarkInFlight(p)
  PROVE  IInv'
<1>1. tasks[p].pc = "mark"
  BY Zenon DEF MarkInFlight
<1>2. PICK e \in Effects : e = tasks[p].id
  BY <1>1, Shapes, Zenon DEF IInv, TaskRecord
<1> DEFINE marked == [store EXCEPT ![e] = [store[e] EXCEPT !.state = "InFlight"]]
<1>3. /\ marked \in [Effects -> StoreRow]
      /\ marked[e].state = "InFlight"
      /\ \A f \in Effects \ {e} : marked[f] = store[f]
  BY ZenonT(40) DEF IInv, TypeOK, StoreRow, States
<1>4. UNCHANGED <<dedup, sending, queue, loop, executed, delivered, expired, setting>>
  BY Zenon DEF MarkInFlight, WriteRow, intake, history, background
<1>5. \/ /\ store[e].state \in Open /\ store' = marked
         /\ Goto(p, "reserve") /\ faults' = faults
      \/ /\ \/ store' = store
            \/ store[e].state \in Open /\ store' = marked
         /\ Goto(p, "free") /\ faults' \in {faults, faults + 1}
  BY <1>2, <1>3, Zenon DEF MarkInFlight, WriteRow
<1> HIDE DEF marked
<1>6. faults' \in Nat /\ (faults' = 0 => faults = 0)
  BY <1>5, FaultsGrow, Zenon DEF IInv
<1>7. PICK pc \in {"reserve", "free"} : Goto(p, pc)
  BY <1>5, Zenon
<1>8. pc \in TaskPcs \cup {"free"}
  BY Zenon DEF TaskPcs, LivePcs
<1>9. /\ tasks' \in [Permits -> {Free} \cup TaskRecord]
      /\ \A u \in Permits \ {p} : tasks'[u] = tasks[u]
      /\ tasks'[p].pc = pc
      /\ pc # "free" => tasks'[p].id = tasks[p].id
  BY <1>1, <1>7, <1>8, GotoMoves, Zenon DEF IInv
<1>10. TypeOK'
  BY <1>3, <1>4, <1>5, <1>6, <1>9, Zenon DEF IInv, TypeOK
<1>11. PermitsInUse'
  BY <1>1, <1>4, <1>7, <1>8, TaskInUse, Zenon DEF IInv
<1>12. \A f \in Effects :
         \/ store'[f] = store[f]
         \/ store'[f].state = "InFlight" /\ store[f].state \in Open
  BY <1>3, <1>5, Zenon
<1>13. Keys'
  BY <1>12, <1>1, <1>4, <1>6, <1>7, <1>8, TaskKeeps, Zenon DEF IInv, HolderPcs
<1>14. /\ \A u \in Permits, f \in Effects : Releasing(u, f)' => Releasing(u, f)
       /\ \A u \in Permits \ {p}, f \in Effects : Live(u, f)' <=> Live(u, f)
       /\ \A f \in Effects : Live(p, f)' => f = e /\ pc = "reserve"
       /\ \A f \in Effects : Waiting(f)' <=> Waiting(f)
  BY <1>2, <1>4, <1>9, ZenonT(40) DEF Releasing, Live, Works, Waiting, LivePcs
<1>15. Flights'
  <2>1. CASE store[e].state \in Open /\ store' = marked /\ faults' = faults
    BY <2>1, <1>3, <1>14, TakesOff DEF IInv, Markable
  <2>2. CASE Goto(p, "free")
    BY <2>2, <1>1, GotoMoves, <1>12, <1>6, <1>14, FlightsGoOn DEF IInv, Live, Works,
       Open, Settled
  <2> QED
    BY <2>1, <2>2, <1>5, Zenon
<1> QED
  BY <1>10, <1>11, <1>13, <1>15, Zenon DEF IInv

(* The executor answers; a success is delivered before it is recorded.     *)
LEMMA ExecuteIInv ==
  ASSUME IInv, NEW p \in Permits, Execute(p)
  PROVE  IInv'
<1>1. tasks[p].pc = "execute" /\ tasks[p].pc # "free"
  BY Zenon DEF Execute
<1>2. PICK e \in Effects : e = tasks[p].id
  BY <1>1, Shapes, Zenon DEF IInv, TaskRecord
<1>3. UNCHANGED <<store, dedup, sending, queue, loop, executed, expired, setting, faults>>
  BY Zenon DEF Execute, stores, intake, background
<1>4. PICK pc \in {"commit", "retry", "giveup"} :
        /\ Goto(p, pc)
        /\ delivered' = IF pc = "commit" THEN delivered \cup {e} ELSE delivered
  BY <1>2, Zenon DEF Execute
<1>6. /\ tasks' \in [Permits -> {Free} \cup TaskRecord]
      /\ \A u \in Permits \ {p} : tasks'[u] = tasks[u]
      /\ tasks'[p].pc = pc /\ tasks'[p].id = e
  BY <1>1, <1>2, <1>4, GotoMoves, Zenon DEF IInv, LivePcs, TaskPcs
<1>7. TypeOK'
  BY <1>3, <1>4, <1>6, Zenon DEF IInv, TypeOK
<1>8. PermitsInUse'
  BY <1>1, <1>3, <1>4, TaskInUse, Zenon DEF IInv, TaskPcs, LivePcs
<1>9. Flights'
  BY <1>1, <1>3, <1>4, TaskGoesOn, Zenon DEF IInv, TaskPcs, LivePcs
<1>10. Keys'
  <2>2. \A u \in Permits, f \in Effects : Knows(u, f)' => Knows(u, f)
    BY <1>6, Zenon DEF Knows
  <2>4. DoneIsDelivered'
    BY <1>4, <1>6, Zenon DEF IInv, Keys, DoneIsDelivered, Done
  <2>6. ASSUME Undisturbed' PROVE HoldersHold'
    BY <2>6, <1>3, UndisturbedBefore, <1>1, <1>2, <1>6 DEF IInv, Keys, HoldersHold,
       Holds, HolderPcs
  <2>7. ASSUME Undisturbed' PROVE SuccessIsRecorded'
    BY <2>7, <2>2, <1>3, UndisturbedBefore, <1>4, Zenon DEF IInv, Keys,
       SuccessIsRecorded, Recorded, Eligible, Delivered
  <2>8. ASSUME Undisturbed' PROVE RecordsAreTrue'
    BY <2>8, <1>3, UndisturbedBefore, <1>4, Zenon DEF IInv, Keys, RecordsAreTrue,
       Eligible, Vouched
  <2> QED
    BY <2>4, <2>6, <2>7, <2>8, Zenon DEF Keys
<1> QED
  BY <1>7, <1>8, <1>9, <1>10, Zenon DEF IInv

-----------------------------------------------------------------------------
(* The steps on the reservation of a key                                   *)

LEMMA KeyChanges ==
  ASSUME Keys, setting' = setting, faults' = 0 => faults = 0,
         NEW s \in Scopes, \A t \in Scopes \ {s} : dedup'[t] = dedup[t],
         expired \subseteq expired', UNCHANGED <<store, delivered>>,
         \A p \in Permits, e \in Effects : Done(p, e)' => Done(p, e),
         Undisturbed => \A p \in Permits, e \in Effects :
           /\ Holds(p, e)' => \/ Holds(p, e) /\ ScopeOf[e] # s
                              \/ dedup'[ScopeOf[e]] = Reservation(e)
           /\ Knows(p, e)' => \/ Knows(p, e)
                              \/ Recorded(ScopeOf[e])' /\ Delivered(e),
         Undisturbed /\ Recorded(s) => Recorded(s)',
         Undisturbed /\ Eligible(s)' => Vouched(s)'
  PROVE  Keys'
<1>1. DoneIsDelivered'
  BY Zenon DEF Keys, DoneIsDelivered
<1>4. ASSUME Undisturbed' PROVE HoldersHold'
  BY <1>4, UndisturbedBefore, Reservations DEF Keys, HoldersHold, Delivered
<1>5. ASSUME Undisturbed' PROVE SuccessIsRecorded'
  BY <1>5, UndisturbedBefore, Reservations DEF Keys, SuccessIsRecorded, Recorded,
     Eligible, Delivered
<1>6. ASSUME Undisturbed' PROVE RecordsAreTrue'
  BY <1>6, UndisturbedBefore DEF Eligible, Keys, RecordsAreTrue, Vouched
<1> QED
  BY <1>1, <1>4, <1>5, <1>6, Zenon DEF Keys

(* The answer to reserve sends the task where what it found allows.        *)
LEMMA TaskDecides ==
  ASSUME IInv, NEW p \in Permits, tasks[p].pc \in {"reserve", "look"},
         NEW e \in Effects, e = tasks[p].id,
         NEW pc \in {"reserve", "look", "execute", "giveup", "abandon", "satisfied",
                     "requeue"},
         Decide(p, pc), faults' \in {faults, faults + 1},
         UNCHANGED <<store, sending, queue, loop, delivered, expired, setting>>,
         dedup' \in [Scopes -> {NoReservation} \cup Taken],
         \A t \in Scopes \ {ScopeOf[e]} : dedup'[t] = dedup[t],
         \/ dedup'[ScopeOf[e]] = dedup[ScopeOf[e]]
         \/ /\ dedup[ScopeOf[e]] = NoReservation
            /\ dedup'[ScopeOf[e]] = Reservation(e),
         pc \in {"execute", "giveup"} => dedup'[ScopeOf[e]] = Reservation(e),
         pc = "satisfied" => Eligible(ScopeOf[e])'
           /\ dedup'[ScopeOf[e]].fingerprint = FingerprintOf[e]
  PROVE  IInv'
<1>1. /\ Goto(p, pc) /\ pc \in TaskPcs /\ pc \in LivePcs
      /\ tasks[p].pc \in LivePcs /\ tasks[p].pc # "free"
      /\ faults' \in Nat /\ (faults' = 0 => faults = 0)
  BY FaultsGrow, Zenon DEF IInv, Decide, TaskPcs, LivePcs
<1>2. /\ tasks' \in [Permits -> {Free} \cup TaskRecord]
      /\ \A u \in Permits \ {p} : tasks'[u] = tasks[u]
      /\ tasks'[p].pc = pc /\ tasks'[p].id = e
  BY <1>1, GotoMoves, Zenon DEF IInv, LivePcs
<1>3. executed' \in [Effects -> Nat]
  <2>1. executed \in [Effects -> Nat]
    BY Zenon DEF IInv, TypeOK
  <2>2. executed' = [executed EXCEPT ![e] = IF pc = "execute" THEN @ + 1 ELSE @]
    BY Zenon DEF Decide
  <2> QED
    BY <2>1, <2>2
<1>4. TypeOK'
  BY <1>1, <1>2, <1>3, Zenon DEF IInv, TypeOK
<1>5. PermitsInUse'
  BY <1>1, TaskInUse, Zenon DEF IInv
<1>6. Flights'
  BY <1>1, TaskGoesOn, Zenon DEF IInv
<1>7. /\ ScopeOf[e] \in Scopes
      /\ Reservation(e) # NoReservation /\ ~Reservation(e).succeeded
      /\ \A f \in Effects : ScopeOf[f] \in Scopes /\ Reservation(f) # NoReservation
  BY Reservations, Zenon
<1>8. \A u \in Permits, f \in Effects : Done(u, f)' => Done(u, f)
  BY <1>2, Zenon DEF Done
<1>9. ASSUME Undisturbed, NEW u \in Permits, NEW f \in Effects, Holds(u, f)'
      PROVE  \/ Holds(u, f) /\ ScopeOf[f] # ScopeOf[e]
             \/ dedup'[ScopeOf[f]] = Reservation(f)
  <2>1. CASE u = p
    BY <2>1, <1>2, <1>9, Zenon DEF Holds, HolderPcs
  <2>2. CASE u # p
    <3>1. Holds(u, f)
      BY <2>2, <1>2, <1>9, Zenon DEF Holds
    <3>2. dedup[ScopeOf[f]] = Reservation(f)
      BY <3>1, <1>9, Zenon DEF IInv, Keys, HoldersHold
    <3> QED
      BY <3>1, <3>2, <1>7
  <2> QED
    BY <2>1, <2>2, Zenon
<1>10. Undisturbed /\ Recorded(ScopeOf[e]) => Recorded(ScopeOf[e])'
  BY <1>7, Zenon DEF Recorded, Eligible
<1>11. Undisturbed /\ Eligible(ScopeOf[e])' => Vouched(ScopeOf[e])'
  <2> SUFFICES ASSUME Undisturbed, Eligible(ScopeOf[e])'
               PROVE  Vouched(ScopeOf[e])'
    BY Zenon
  <2>1. dedup'[ScopeOf[e]] = dedup[ScopeOf[e]]
    BY <1>7, Zenon DEF Eligible
  <2>2. Vouched(ScopeOf[e])
    BY <2>1, <1>7, Zenon DEF IInv, Keys, RecordsAreTrue, Eligible
  <2> QED
    BY <2>1, <2>2, ZenonT(40) DEF Vouched
<1>12. ASSUME Undisturbed, NEW u \in Permits, NEW f \in Effects, Knows(u, f)'
       PROVE  Knows(u, f) \/ (Recorded(ScopeOf[f])' /\ Delivered(f))
  <2>1. CASE u = p
    <3>1. f = e /\ pc = "satisfied"
      BY <2>1, <1>2, <1>12, Zenon DEF Knows
    <3>2. Recorded(ScopeOf[e])' /\ Vouched(ScopeOf[e])'
      BY <3>1, <1>11, <1>12, Zenon DEF Recorded
    <3>3. Delivered(e)
      BY <3>1, <3>2, Zenon DEF Vouched, Delivered
    <3> QED
      BY <3>1, <3>2, <3>3, Zenon
  <2>2. CASE u # p
    BY <2>2, <1>2, <1>12, Zenon DEF Knows
  <2> QED
    BY <2>1, <2>2, Zenon
<1>13. Keys'
  BY <1>1, <1>7, <1>8, <1>9, <1>10, <1>11, <1>12, KeyChanges, ZenonT(40) DEF IInv
<1> QED
  BY <1>4, <1>5, <1>6, <1>13, Zenon DEF IInv

LEMMA ReserveIInv ==
  ASSUME IInv, NEW p \in Permits, Reserve(p)
  PROVE  IInv'
<1>1. tasks[p].pc = "reserve"
  BY Zenon DEF Reserve
<1>2. PICK e \in Effects : e = tasks[p].id
  BY <1>1, Shapes, Zenon DEF IInv, TaskRecord
<1>3. UNCHANGED <<store, sending, queue, loop, delivered, expired, setting>>
  BY Zenon DEF Reserve, intake, background
<1>4. PICK r \in {NoReservation} \cup Taken : r = dedup[ScopeOf[e]]
  BY Reservations, Zenon DEF IInv, TypeOK
<1>5. /\ Reserved(dedup, e) \in [Scopes -> {NoReservation} \cup Taken]
      /\ \A t \in Scopes \ {ScopeOf[e]} : Reserved(dedup, e)[t] = dedup[t]
      /\ Reserved(dedup, e)[ScopeOf[e]] = IF r = NoReservation THEN Reservation(e) ELSE r
  BY <1>4, Reservations, Zenon DEF Reserved, IInv, TypeOK
<1>6. CASE dedup' = Reserved(dedup, e) /\ Decide(p, Answer(e, r)) /\ faults' = faults
  <2>1. PICK pc : pc = Answer(e, r)
    BY Zenon
  <2>2. /\ pc \in {"execute", "giveup", "abandon", "satisfied", "requeue"}
        /\ pc \in {"execute", "giveup"} => dedup'[ScopeOf[e]] = Reservation(e)
        /\ pc = "satisfied" => /\ dedup'[ScopeOf[e]] = r
                               /\ r # NoReservation /\ r.succeeded
                               /\ r.fingerprint = FingerprintOf[e]
    BY <1>5, <1>6, <2>1, Answers, Zenon
  <2>3. pc = "satisfied" => /\ Eligible(ScopeOf[e])'
                            /\ dedup'[ScopeOf[e]].fingerprint = FingerprintOf[e]
    BY <2>2, Zenon DEF Eligible
  <2> QED
    BY <1>1, <1>2, <1>3, <1>4, <1>5, <1>6, <2>1, <2>2, <2>3, TaskDecides, ZenonT(40)
<1>7. CASE /\ dedup' \in {dedup, Reserved(dedup, e)} /\ faults' \in {faults, faults + 1}
           /\ \E pc \in {"look", "abandon"} : Decide(p, pc)
  <2>1. /\ dedup' \in [Scopes -> {NoReservation} \cup Taken]
        /\ \A t \in Scopes \ {ScopeOf[e]} : dedup'[t] = dedup[t]
        /\ \/ dedup'[ScopeOf[e]] = dedup[ScopeOf[e]]
           \/ /\ dedup[ScopeOf[e]] = NoReservation
              /\ dedup'[ScopeOf[e]] = Reservation(e)
    BY <1>4, <1>5, <1>7, Zenon DEF IInv, TypeOK
  <2> QED
    BY <1>1, <1>2, <1>3, <1>7, <2>1, TaskDecides, ZenonT(40)
<1> QED
  BY <1>2, <1>4, <1>6, <1>7, Zenon DEF Reserve

(* The SELECT that finds who took the scope on Stoolap.                    *)
LEMMA LookUpReservationIInv ==
  ASSUME IInv, NEW p \in Permits, LookUpReservation(p)
  PROVE  IInv'
<1>1. tasks[p].pc = "look"
  BY Zenon DEF LookUpReservation
<1>2. PICK e \in Effects : e = tasks[p].id
  BY <1>1, Shapes, Zenon DEF IInv, TaskRecord
<1>3. UNCHANGED <<store, dedup, sending, queue, loop, delivered, expired, setting>>
  BY Zenon DEF LookUpReservation, stores, intake, background
<1>4. PICK r \in {NoReservation} \cup Taken : r = dedup[ScopeOf[e]]
  BY Reservations, Zenon DEF IInv, TypeOK
<1>5. dedup' \in [Scopes -> {NoReservation} \cup Taken]
  BY <1>3, Zenon DEF IInv, TypeOK
<1>6. CASE r # NoReservation /\ Decide(p, Answer(e, r)) /\ faults' = faults
  <2>1. PICK pc : pc = Answer(e, r)
    BY Zenon
  <2>2. /\ pc \in {"execute", "giveup", "abandon", "satisfied", "requeue"}
        /\ pc \in {"execute", "giveup"} => dedup'[ScopeOf[e]] = Reservation(e)
        /\ pc = "satisfied" => r.succeeded /\ r.fingerprint = FingerprintOf[e]
    BY <1>3, <1>4, <1>6, <2>1, Answers, Zenon
  <2>3. pc = "satisfied" => /\ Eligible(ScopeOf[e])'
                            /\ dedup'[ScopeOf[e]].fingerprint = FingerprintOf[e]
    BY <1>3, <1>4, <1>6, <2>2, Zenon DEF Eligible
  <2> QED
    BY <1>1, <1>2, <1>3, <1>5, <1>6, <2>1, <2>2, <2>3, TaskDecides, ZenonT(40)
<1>7. CASE /\ faults' \in {faults, faults + 1}
           /\ \E pc \in {"reserve", "abandon"} : Decide(p, pc)
  BY <1>1, <1>2, <1>3, <1>5, <1>7, TaskDecides, Zenon
<1> QED
  BY <1>2, <1>4, <1>6, <1>7, Zenon DEF LookUpReservation

(* commit_success confirms the task's own reservation.                     *)
LEMMA CommitSuccessIInv ==
  ASSUME IInv, NEW p \in Permits, CommitSuccess(p)
  PROVE  IInv'
<1>1. tasks[p].pc = "commit" /\ tasks[p].pc # "free" /\ tasks[p].pc \in LivePcs
  BY Zenon DEF CommitSuccess, LivePcs
<1>2. PICK e \in Effects : e = tasks[p].id
  BY <1>1, Shapes, Zenon DEF IInv, TaskRecord
<1>3. UNCHANGED <<store, sending, queue, loop, executed, delivered, expired, setting>>
  BY Zenon DEF CommitSuccess, intake, history, background
<1>4. PICK s \in Scopes : s = ScopeOf[e]
  BY Reservations, Zenon
<1>5. /\ Committed(dedup, s) \in [Scopes -> {NoReservation} \cup Taken]
      /\ \A t \in Scopes \ {s} : Committed(dedup, s)[t] = dedup[t]
      /\ dedup[s] # NoReservation =>
           /\ Committed(dedup, s)[s] # NoReservation
           /\ Committed(dedup, s)[s].succeeded
           /\ Committed(dedup, s)[s].fingerprint = dedup[s].fingerprint
  <2>1. ASSUME NEW r \in Taken
        PROVE  /\ [r EXCEPT !.succeeded = TRUE] \in Taken
               /\ [r EXCEPT !.succeeded = TRUE].succeeded
               /\ [r EXCEPT !.succeeded = TRUE].fingerprint = r.fingerprint
    BY Zenon DEF Taken
  <2>2. CASE dedup[s] = NoReservation
    BY <2>2, Zenon DEF Committed, IInv, TypeOK
  <2>3. CASE dedup[s] # NoReservation
    BY <2>3, <2>1, Reservations DEF IInv, TypeOK, Committed
  <2> QED
    BY <2>2, <2>3, Zenon
<1>6. PICK pc \in {"succeed", "unconfirmed"} :
        /\ Goto(p, pc)
        /\ dedup' \in {dedup, Committed(dedup, s)}
        /\ pc = "succeed" => dedup' = Committed(dedup, s)
        /\ faults' \in {faults, faults + 1}
  BY <1>2, <1>4, Zenon DEF CommitSuccess
<1>7. /\ pc \in TaskPcs /\ pc \in LivePcs
      /\ faults' \in Nat /\ (faults' = 0 => faults = 0)
  BY <1>6, FaultsGrow, Zenon DEF IInv, TaskPcs, LivePcs
<1>8. /\ tasks' \in [Permits -> {Free} \cup TaskRecord]
      /\ \A u \in Permits \ {p} : tasks'[u] = tasks[u]
      /\ tasks'[p].pc = pc /\ tasks'[p].id = e
  BY <1>1, <1>2, <1>6, <1>7, GotoMoves, Zenon DEF IInv, LivePcs
<1>10. TypeOK'
  BY <1>3, <1>7, <1>8, <1>5, <1>6, Zenon DEF IInv, TypeOK
<1>11. PermitsInUse'
  BY <1>1, <1>3, <1>6, <1>7, TaskInUse, Zenon DEF IInv
<1>12. Flights'
  BY <1>1, <1>3, <1>6, <1>7, TaskGoesOn, Zenon DEF IInv
<1>13. Keys'
  <2>1. Done(p, e) /\ Holds(p, e) /\ e \in delivered
    BY <1>1, <1>2, Zenon DEF Done, Holds, HolderPcs, IInv, Keys, DoneIsDelivered
  <2>2. Undisturbed => dedup[s] = Reservation(e) /\ dedup[s] # NoReservation
    BY <2>1, <1>4, Reservations, Zenon DEF IInv, Keys, HoldersHold
  <2>3. \A u \in Permits, f \in Effects : Done(u, f)' => Done(u, f)
    BY <1>8, <2>1, Zenon DEF Done
  <2>5. Undisturbed => \A u \in Permits, f \in Effects :
          Holds(u, f)' => Holds(u, f) /\ ScopeOf[f] # s
    BY <2>1, <1>4, OneHolder, <1>8 DEF IInv, Holds, HolderPcs
  <2>6. Undisturbed => dedup'[s].fingerprint = FingerprintOf[e]
    BY <2>2, <1>5, <1>6 DEF Reservation
  <2>8. Undisturbed /\ Eligible(s)' => Vouched(s)'
    BY <2>1, <2>6, <1>4, <1>3, Zenon DEF Vouched
  <2>9. Undisturbed /\ Recorded(s) => Recorded(s)'
    BY <2>2, <1>3, <1>5, <1>6, Zenon DEF Recorded, Eligible
  <2>10. Undisturbed /\ pc = "succeed" => Recorded(s)' /\ Delivered(e)
    BY <2>1, <2>2, <1>5, <1>6, Zenon DEF Recorded, Eligible, Delivered
  <2>11. \A u \in Permits, f \in Effects : Knows(u, f)' =>
           Knows(u, f) \/ (f = e /\ pc = "succeed")
    BY <1>8, Zenon DEF Knows
  <2> QED
    BY <2>3, <2>5, <2>8, <2>9, <2>10, <2>11, <1>3, <1>4, <1>5, <1>6, <1>7,
       KeyChanges DEF IInv
<1> QED
  BY <1>10, <1>11, <1>12, <1>13, Zenon DEF IInv

(* release gives up the task's own reservation, which never was confirmed. *)
LEMMA ReleaseIInv ==
  ASSUME IInv, NEW p \in Permits, Release(p)
  PROVE  IInv'
<1>1. tasks[p].pc = "release" /\ tasks[p].pc # "free" /\ Goto(p, "free")
  BY Zenon DEF Release
<1>2. PICK e \in Effects : e = tasks[p].id
  BY <1>1, Shapes, Zenon DEF IInv, TaskRecord
<1>3. UNCHANGED <<store, sending, queue, loop, executed, delivered, expired, setting>>
  BY Zenon DEF Release, intake, history, background
<1>4. PICK s \in Scopes : s = ScopeOf[e]
  BY Reservations, Zenon
<1>5. /\ dedup' \in {dedup, [dedup EXCEPT ![s] = NoReservation]}
      /\ faults' \in {faults, faults + 1}
  BY <1>2, <1>4, Zenon DEF Release
<1>6. faults' \in Nat /\ (faults' = 0 => faults = 0)
  BY <1>5, FaultsGrow, Zenon DEF IInv
<1>7. /\ dedup' \in [Scopes -> {NoReservation} \cup Taken]
      /\ \A t \in Scopes \ {s} : dedup'[t] = dedup[t]
      /\ dedup'[s] \in {dedup[s], NoReservation}
  BY <1>5, Zenon DEF IInv, TypeOK
<1>8. /\ tasks' \in [Permits -> {Free} \cup TaskRecord]
      /\ \A u \in Permits \ {p} : tasks'[u] = tasks[u]
      /\ tasks'[p].pc = "free"
  BY <1>1, GotoMoves, Zenon DEF IInv
<1>9. TypeOK'
  BY <1>3, <1>6, <1>7, <1>8, Zenon DEF IInv, TypeOK
<1>10. PermitsInUse'
  BY <1>1, <1>3, TaskInUse, Zenon DEF IInv
<1>11. Flights'
  BY <1>1, <1>3, <1>6, TaskGoesOn, Zenon DEF IInv
<1>12. Keys'
  <2>1. Holds(p, e)
    BY <1>1, <1>2, Zenon DEF Holds, HolderPcs
  <2>2. Undisturbed => ~Eligible(s) /\ ~Eligible(s)'
    BY <2>1, <1>4, <1>7, Reservations DEF IInv, Keys, HoldersHold, Eligible
  <2>3. \A u \in Permits, f \in Effects : Done(u, f)' => Done(u, f)
    BY <1>8, Zenon DEF Done
  <2>4. \A u \in Permits, f \in Effects : Knows(u, f)' => Knows(u, f)
    BY <1>8, Zenon DEF Knows
  <2>6. Undisturbed => \A u \in Permits, f \in Effects :
          Holds(u, f)' => Holds(u, f) /\ ScopeOf[f] # s
    BY <2>1, <1>4, OneHolder, <1>8 DEF IInv, Holds, HolderPcs
  <2>7. Undisturbed /\ Recorded(s) => Recorded(s)'
    BY <2>2, <1>3, Zenon DEF Recorded
  <2> QED
    BY <2>2, <2>3, <2>4, <2>6, <2>7, <1>3, <1>4, <1>6, <1>7, KeyChanges DEF IInv
<1> QED
  BY <1>9, <1>10, <1>11, <1>12, Zenon DEF IInv

(* Retention removes a reservation only once it is confirmed, so never one *)
(* that a task holds.                                                      *)
LEMMA DeleteExpiredIInv ==
  ASSUME IInv, NEW s \in Scopes, DeleteExpired(s)
  PROVE  IInv'
<1>1. /\ dedup' = IF Eligible(s) THEN [dedup EXCEPT ![s] = NoReservation] ELSE dedup
      /\ expired' = IF Eligible(s) THEN expired \cup {s} ELSE expired
      /\ UNCHANGED <<store, sending, queue, loop, tasks, executed, delivered, setting, faults>>
  BY Zenon DEF DeleteExpired, intake
<1>2. /\ dedup' \in [Scopes -> {NoReservation} \cup Taken]
      /\ \A t \in Scopes \ {s} : dedup'[t] = dedup[t]
      /\ Eligible(s) => dedup'[s] = NoReservation /\ s \in expired'
      /\ ~Eligible(s) => dedup'[s] = dedup[s]
      /\ expired \subseteq expired'
  BY <1>1, Zenon DEF IInv, TypeOK
<1>3. TypeOK'
  BY <1>1, <1>2, Zenon DEF IInv, TypeOK
<1>4. PermitsInUse'
  BY <1>1, Zenon DEF IInv, PermitsInUse
<1>5. Flights'
  <2>1. Flights /\ UNCHANGED <<store, loop, tasks, faults>>
    BY <1>1, Zenon DEF IInv
  <2> QED
    BY <2>1 DEF Flights, Live, Releasing, Works, Waiting
<1>6. \A u \in Permits, f \in Effects :
        /\ Done(u, f)' <=> Done(u, f)
        /\ Holds(u, f)' <=> Holds(u, f)
        /\ Knows(u, f)' <=> Knows(u, f)
  BY <1>1, Zenon DEF Done, Holds, Knows
<1>7. ASSUME Undisturbed, NEW u \in Permits, NEW f \in Effects, Holds(u, f)
      PROVE  dedup'[ScopeOf[f]] = Reservation(f)
  BY <1>7, Reservations, <1>2 DEF IInv, Keys, HoldersHold, Eligible
<1>8. Recorded(s) => Recorded(s)'
  BY <1>2, Zenon DEF Recorded, Eligible
<1>9. Undisturbed /\ Eligible(s)' => Vouched(s)'
  BY <1>2, <1>1, Zenon DEF Eligible, IInv, Keys, RecordsAreTrue, Vouched
<1>10. Keys'
  BY <1>1, <1>2, <1>6, <1>7, <1>8, <1>9, KeyChanges, ZenonT(40) DEF IInv
<1> QED
  BY <1>3, <1>4, <1>5, <1>10, Zenon DEF IInv

LEMMA DeleteSettledIInv ==
  ASSUME IInv, NEW e \in Effects, DeleteSettled(e)
  PROVE  IInv'
<1>3. TypeOK'
  BY Zenon DEF IInv, TypeOK, DeleteSettled, intake, history, background, Row,
     StoreRow, States
<1>5. \A f \in Effects : Waiting(f)' => Waiting(f)
  BY Zenon DEF Waiting, DeleteSettled, intake, history, background
<1>6. store[e].state # "InFlight"
  BY Zenon DEF Settled, DeleteSettled, intake, history, background
<1> QED
  BY <1>3, <1>5, <1>6, QuietStep, Zenon DEF DeleteSettled, intake, history,
     background, IInv, TypeOK, Row, StoreRow, States

(* SelectExpired, the shutdown signal, the end of the loop, and a step     *)
(* that changes nothing.                                                   *)
LEMMA RestIInv ==
  ASSUME IInv, loop' \in {loop, Stopped},
         UNCHANGED <<store, dedup, sending, queue, tasks, executed, delivered, expired,
                     setting, faults>>
  PROVE  IInv'
<1>1. TypeOK'
  BY Zenon DEF IInv, TypeOK, LoopRecord
<1> QED
  BY <1>1, QuietStep DEF Waiting, Stopped

LEMMA AbortIInv ==
  ASSUME IInv, NEW p \in Permits, AbortExecutor(p) \/ AbortTask(p)
  PROVE  IInv'
<1>1. PICK pc \in {"requeue", "free"} :
        /\ Goto(p, pc) /\ tasks[p].pc # "free"
        /\ pc = "requeue" => tasks[p].pc = "execute"
  BY Shapes, Zenon DEF AbortExecutor, AbortTask, IInv
<1>3. /\ pc \in TaskPcs \cup {"free"}
      /\ pc = "free" \/ (tasks[p].pc \in LivePcs /\ pc \in LivePcs)
  BY <1>1, Zenon DEF TaskPcs, LivePcs
<1>5. TypeOK'
  BY <1>1, <1>3, GotoMoves, Zenon DEF IInv, TypeOK, AbortExecutor, AbortTask,
     stores, intake, history, background
<1>6. PermitsInUse'
  BY <1>1, <1>3, TaskInUse, Zenon DEF IInv, AbortExecutor, AbortTask, stores,
     intake, history, background
<1>7. Flights'
  BY <1>1, <1>3, TaskGoesOn, Zenon DEF IInv, AbortExecutor, AbortTask, stores,
     intake, history, background
<1>8. Keys'
  BY <1>1, <1>3, TaskKeeps, Zenon DEF IInv, HolderPcs, AbortExecutor, AbortTask,
     stores, intake, history, background
<1> QED
  BY <1>5, <1>6, <1>7, <1>8, Zenon DEF IInv

(* A crash ends every attempt and leaves the stores as they are.           *)
LEMMA CrashIInv ==
  ASSUME IInv, Crash
  PROVE  IInv'
<1>2. \A p \in Permits : tasks'[p].pc = "free"
  BY Zenon DEF Free, Crash, stores
<1>3. TypeOK'
  BY DEF IInv, TypeOK, LoopRecord, Crash, stores
<1>4. PermitsInUse'
  BY <1>2, Zenon DEF PermitsInUse
<1>5. \A p \in Permits, e \in Effects :
        /\ ~Live(p, e)' /\ ~Releasing(p, e)'
        /\ ~Done(p, e)' /\ ~Holds(p, e)' /\ ~Knows(p, e)'
  BY <1>2, Zenon DEF Live, Releasing, Works, Done, Holds, Knows, HolderPcs
<1>7. Flights'
  BY <1>5, Zenon DEF Flights, Crash, stores, Waiting, Selecting
<1>8. Keys'
  BY <1>5, KeysGoOn, Zenon DEF IInv, Crash, stores
<1> QED
  BY <1>3, <1>4, <1>7, <1>8, Zenon DEF IInv

-----------------------------------------------------------------------------
(* The invariant                                                           *)

LEMMA InitIInv == Init => IInv
<1> SUFFICES ASSUME Init PROVE IInv
  BY Zenon
<1>1. /\ Unknown \in StoreRow
      /\ \A e \in Effects : store[e].state = "Unknown"
  BY Zenon DEF Init, Unknown, Row, StoreRow, States
<1>3. \A p \in Permits : tasks[p].pc = "free"
  BY Zenon DEF Init, Free
<1>5. \A p \in Permits, e \in Effects :
        /\ ~Live(p, e) /\ ~Releasing(p, e)
        /\ ~Done(p, e) /\ ~Holds(p, e) /\ ~Knows(p, e)
  BY <1>3, Zenon DEF Live, Releasing, Works, Done, Holds, Knows, HolderPcs
<1>9. Keys
  BY <1>1, <1>5, Zenon DEF Keys, DoneIsDelivered, HoldersHold, SuccessIsRecorded,
     RecordsAreTrue, Init, Eligible
<1> QED
  BY <1>9, <1>1, <1>3, <1>5 DEF IInv, Init, TypeOK, LoopRecord, PermitsInUse,
     Flights, Waiting, Selecting

LEMMA NextIInv == IInv /\ [Next]_vars => IInv'
<1> SUFFICES ASSUME IInv, [Next]_vars PROVE IInv'
  BY Zenon
<1>1. ASSUME NEW e \in Effects,
             Accept(e) \/ Enqueue(e) \/ BackoffElapses(e) \/ DeleteSettled(e)
      PROVE  IInv'
  BY <1>1, AcceptIInv, EnqueueIInv, BackoffElapsesIInv, DeleteSettledIInv, Zenon
<1>2. CASE Receive
  BY <1>2, ReceiveIInv, Zenon
<1>3. CASE ClaimDue
  BY <1>3, ClaimDueIInv, Zenon
<1>4. ASSUME NEW r \in Batch, ReclaimOne(r) PROVE IInv'
  BY <1>4, ReclaimOneIInv, Zenon
<1>5. ASSUME NEW p \in Permits, Spawn(p) \/ TaskStep(p) PROVE IInv'
  <2>1. CASE Spawn(p)
    BY <2>1, SpawnIInv, Zenon
  <2>2. CASE MarkInFlight(p)
    BY <2>2, MarkInFlightIInv, Zenon
  <2>3. CASE Reserve(p)
    BY <2>3, ReserveIInv, Zenon
  <2>4. CASE LookUpReservation(p)
    BY <2>4, LookUpReservationIInv, Zenon
  <2>5. CASE Execute(p)
    BY <2>5, ExecuteIInv, Zenon
  <2>6. CASE CommitSuccess(p)
    BY <2>6, CommitSuccessIInv, Zenon
  <2>7. CASE MarkSucceeded(p) \/ MarkRetryable(p) \/ MarkTerminal(p)
    BY <2>7, MarksIInv, Zenon
  <2>8. CASE Release(p)
    BY <2>8, ReleaseIInv, Zenon
  <2> QED
    BY <1>5, <2>1, <2>2, <2>3, <2>4, <2>5, <2>6, <2>7, <2>8, Zenon DEF TaskStep
<1>6. ASSUME NEW s \in Scopes, DeleteExpired(s) PROVE IInv'
  BY <1>6, DeleteExpiredIInv, Zenon
<1>7. ASSUME NEW p \in Permits, AbortExecutor(p) \/ AbortTask(p) PROVE IInv'
  BY <1>7, AbortIInv, Zenon
<1>8. CASE Crash
  BY <1>8, CrashIInv, Zenon
<1>9. CASE SelectExpired \/ RequestShutdown \/ StopLoop \/ UNCHANGED vars
  BY <1>9, RestIInv, Zenon DEF SelectExpired, RequestShutdown, StopLoop, vars,
     stores, intake, history, background
<1> QED
  BY <1>1, <1>2, <1>3, <1>4, <1>5, <1>6, <1>7, <1>8, <1>9, Zenon DEF Next

(* One attempt per row, one holder per key, true records: in every state.  *)
THEOREM DeliveryInvariant == Spec => []IInv
BY InitIInv, NextIInv, PTL DEF Spec

(* runner.rs: with any number of permits, two effects of one key are not   *)
(* in their executors at once as long as no store call failed for good.    *)
THEOREM ScopesAreExclusive == Spec => []ScopeExclusive
<1>1. ASSUME IInv PROVE ScopeExclusive
  BY <1>1, Shapes, OneHolder, ZenonT(40) DEF ScopeExclusive, IInv, TaskRecord,
     Holds, HolderPcs, Undisturbed
<1> QED
  BY <1>1, DeliveryInvariant, PTL

(* finish_success and satisfied duplicates: a row says Succeeded only if   *)
(* an executor reported success for that key and content.                  *)
THEOREM SuccessIsReal == Spec => []NoFalseSuccess
<1>1. ASSUME IInv PROVE NoFalseSuccess
  BY <1>1, Zenon DEF IInv, Keys, Undisturbed, SuccessIsRecorded, Delivered,
     NoFalseSuccess
<1> QED
  BY <1>1, DeliveryInvariant, PTL

(* dispatch_in_flight: an executor is called only on a reservation that is *)
(* the task's own and unconfirmed, so never for a key whose success is on  *)
(* record.                                                                 *)
THEOREM SuccessIsFinal == Spec => ConfirmedNeverRepeated
<1>1. ASSUME IInv, [Next]_vars
      PROVE  [faults = 0 \/ Sequential => \A e, d \in Effects :
                executed'[d] # executed[d] /\ ScopeOf[d] = ScopeOf[e] =>
                  store[e].state # "Succeeded" \/ ScopeOf[e] \in expired]_vars
  <2> SUFFICES ASSUME faults = 0 \/ Sequential, NEW e \in Effects, NEW d \in Effects,
                      executed'[d] # executed[d], ScopeOf[d] = ScopeOf[e],
                      store[e].state = "Succeeded", ScopeOf[e] \notin expired
               PROVE  FALSE
    BY Zenon
  <2>2. PICK p \in Permits : Reserve(p) \/ LookUpReservation(p)
    BY <1>1, ZenonT(40) DEF Next, vars, history, Accept, Enqueue, BackoffElapses,
       Receive, ClaimDue, ReclaimOne, Spawn, TaskStep, MarkInFlight, WriteRow,
       Execute, CommitSuccess, MarkSucceeded, MarkRetryable, MarkTerminal, Release,
       SelectExpired, DeleteSettled, DeleteExpired, RequestShutdown, StopLoop,
       AbortExecutor, AbortTask, Crash
  <2>3. PICK f \in Effects : f = tasks[p].id
    BY <1>1, <2>2, Shapes, Zenon DEF IInv, TaskRecord, Reserve, LookUpReservation
  <2>4. PICK r \in {NoReservation} \cup Taken : r = dedup[ScopeOf[f]]
    BY <1>1, Reservations, Zenon DEF IInv, TypeOK
  <2>5. PICK pc : /\ Decide(p, pc)
                  /\ pc \in {"reserve", "look", "abandon"} \/ pc = Answer(f, r)
    BY <2>2, <2>3, <2>4, Zenon DEF Reserve, LookUpReservation
  <2>6. pc = "execute" /\ d = f
    BY <1>1, <2>3, <2>5, Zenon DEF IInv, TypeOK, Decide
  <2> QED
    BY <2>4, <2>6, Reservations, <1>1, <2>5, Answers DEF Eligible, IInv, Keys,
       Undisturbed, SuccessIsRecorded, Recorded
<1> QED
  BY <1>1, DeliveryInvariant, PTL DEF Spec, ConfirmedNeverRepeated
=============================================================================
