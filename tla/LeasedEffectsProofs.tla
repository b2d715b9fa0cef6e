------------------------- MODULE LeasedEffectsProofs -------------------------
(***************************************************************************)
(* What fencing by claim_owner gives the processes that share one effect   *)
(* store, for every number of processes, effects, keys, faults and deaths. *)
(*                                                                         *)
(* An attempt is live while its row is in flight on its behalf.  For an    *)
(* effect that no process claimed a second time under an attempt of its    *)
(* own, at most one attempt is live, and every write that the owner check  *)
(* lets through comes from that one.  An attempt that lost its claim may   *)
(* linger; it then can neither move the row nor release the key.           *)
(***************************************************************************)
EXTENDS LeasedEffects, TLAPS

LivePcs == {"reserve", "look", "execute", "commit", "succeed", "retry",
            "requeue", "satisfied", "abandon"}
TaskPcs == LivePcs \cup {"mark", "unconfirmed", "giveup", "release"}
States == Open \cup Settled \cup {"Unknown", "InFlight", "Purged"}

Row == [state : States, attempt : Nat, due : BOOLEAN,
        owner : Workers \cup {None}, expired : SUBSET Workers]
Taken == [effect_id : Effects, fingerprint : {FingerprintOf[e] : e \in Effects},
          succeeded : BOOLEAN]
TaskRecord == [pc : TaskPcs, id : Effects, attempt : Nat]
Begun == [pc : {"mark", "reserve"}, id : Effects, attempt : Nat]
Entry == [id : Effects, attempt : Nat]
LoopRecord ==
  {Selecting} \cup [pc : {"reclaim"}, batch : SUBSET Entry]
    \cup [pc : {"permit"}, task : Begun, batch : SUBSET Entry]

TypeOK ==
  /\ rows \in [Effects -> Row]
  /\ dedup \in [Scopes -> {NoReservation} \cup Taken]
  /\ queued \in [Workers -> SUBSET Effects]
  /\ loop \in [Workers -> LoopRecord]
  /\ task \in [Workers -> {Free} \cup TaskRecord]

(* The dispatch task of w works on e.                                      *)
Works(w, e) == task[w].pc # "free" /\ task[w].id = e

(* The entries of a claimed batch that reclaim_due has not reached yet.    *)
Ahead(w) == IF loop[w].pc = "select" THEN {} ELSE loop[w].batch

(* The row of e is in flight for the task of w, or for the attempt that    *)
(* waits for w's permit.                                                   *)
LiveTask(w, e) ==
  /\ Works(w, e)
  /\ \/ task[w].pc \in LivePcs
     \/ task[w].pc = "unconfirmed" /\ rows[e].state = "InFlight"
     \/ /\ task[w].pc = "giveup"
        /\ rows[e].state = "InFlight" /\ rows[e].owner = w
Waiting(w, e) ==
  loop[w].pc = "permit" /\ loop[w].task.pc = "reserve" /\ loop[w].task.id = e
Live(w, e) == LiveTask(w, e) \/ Waiting(w, e)

(* A batch names an effect once, and not the effect at the permit.         *)
BatchesAreSets ==
  \A w \in Workers :
    /\ \A q, r \in Ahead(w) : q.id = r.id => q = r
    /\ loop[w].pc = "permit" => \A r \in Ahead(w) : r.id # loop[w].task.id

(* No process queues up an effect it works on.                             *)
NotTwice ==
  \A w \in Workers, e \in Effects \ reclaimed :
    Works(w, e) => ~Waiting(w, e) /\ \A r \in Ahead(w) : r.id # e

OneLive ==
  \A e \in Effects \ reclaimed :
    /\ \A w \in Workers : Live(w, e) => rows[e].state = "InFlight"
    /\ \A v, w \in Workers : Live(v, e) /\ Live(w, e) => v = w

(* What the tail of an attempt knows of its row.                           *)
Tails ==
  \A w \in Workers, e \in Effects \ reclaimed : Works(w, e) =>
    /\ task[w].pc = "giveup" /\ rows[e].owner = w =>
         rows[e].state \in Settled \cup {"InFlight"}
    /\ task[w].pc = "unconfirmed" =>
         rows[e].state \in Settled \cup {"InFlight", "Purged"}
    /\ task[w].pc = "release" => rows[e].state \in Settled \cup {"Purged"}
OneRelease ==
  \A e \in Effects \ reclaimed, v, w \in Workers :
    /\ Works(v, e) /\ task[v].pc = "release"
    /\ Works(w, e) /\ task[w].pc = "release"
    => v = w

Flights ==
  BatchesAreSets /\ NotTwice /\ OneLive /\ Tails /\ OneRelease

(* An attempt that is to run the executor, is running it or has not        *)
(* settled the outcome yet holds the reservation of a fenced key,          *)
(* unconfirmed.                                                            *)
Holder(w, e) ==
  /\ Works(w, e)
  /\ \/ task[w].pc \in {"execute", "commit", "retry", "release"}
     \/ task[w].pc = "giveup" /\ LiveTask(w, e)
HoldersHold ==
  \A w \in Workers, e \in Effects :
    Holder(w, e) /\ Fenced(ScopeOf[e]) => dedup[ScopeOf[e]] = Reservation(e)

IInv == TypeOK /\ Flights /\ HoldersHold

-----------------------------------------------------------------------------
(* Shapes                                                                  *)

LEMMA Shapes ==
  ASSUME TypeOK, NEW w \in Workers
  PROVE  /\ task[w] # Free <=> task[w].pc # "free"
         /\ task[w].pc # "free" => task[w] \in TaskRecord
         /\ loop[w] = Selecting <=> loop[w].pc = "select"
         /\ loop[w].pc \in {"select", "reclaim", "permit"}
         /\ loop[w].pc # "select" => loop[w].batch \in SUBSET Entry
         /\ loop[w].pc = "permit" => loop[w].task \in Begun
BY DEF TypeOK, Free, TaskRecord, Begun, TaskPcs, LivePcs, LoopRecord, Selecting

(* A move of w's task to another point of dispatch.                        *)
LEMMA GotoMoves ==
  ASSUME TypeOK, NEW w \in Workers, task[w].pc # "free",
         NEW pc \in TaskPcs \cup {"free"}, Goto(w, pc)
  PROVE  /\ task' \in [Workers -> {Free} \cup TaskRecord]
         /\ \A u \in Workers \ {w} : task'[u] = task[u]
         /\ task'[w].pc = pc
         /\ pc # "free" =>
              /\ task'[w].id = task[w].id
              /\ task'[w].attempt = task[w].attempt
<1>3. "free" \notin TaskPcs
  BY Zenon DEF TaskPcs, LivePcs
<1> QED
  BY <1>3, Shapes, ZenonT(40) DEF Goto, TypeOK, Free, TaskRecord

LEMMA Reservations ==
  /\ NoReservation \notin Taken
  /\ \A e \in Effects : Reservation(e) \in Taken
BY DEF Taken, NoReservation, Reservation

(* Only the effect that holds the reservation is told to go on.            *)
LEMMA Answers ==
  ASSUME NEW e \in Effects, NEW r \in {NoReservation} \cup Taken
  PROVE  /\ Answer(e, r) \in {"execute", "giveup", "abandon", "satisfied",
                              "requeue"}
         /\ r # NoReservation /\ Answer(e, r) \in {"execute", "giveup"} =>
              r = Reservation(e)
         /\ Answer(e, NoReservation) \in {"execute", "giveup"}
BY Zenon DEF Answer, Taken, Reservation

(* A fenced key was fenced before, and its effects claimed once at a time. *)
LEMMA FencedBefore ==
  ASSUME reclaimed \subseteq reclaimed', NEW e \in Effects, Fenced(ScopeOf[e])'
  PROVE  Fenced(ScopeOf[e]) /\ e \notin reclaimed'
BY Zenon DEF Fenced

LEMMA HoldersStay ==
  ASSUME HoldersHold, dedup' = dedup, reclaimed \subseteq reclaimed',
         \A u \in Workers, f \in Effects \ reclaimed' :
           Holder(u, f)' => Holder(u, f)
  PROVE  HoldersHold'
BY FencedBefore, Zenon DEF HoldersHold

-----------------------------------------------------------------------------
(* How steps of a dispatch task leave the flights                          *)

(* The row stays as it is, and a live attempt stays live or ends.          *)
LEMMA KeepsRow ==
  ASSUME TypeOK, Flights, NEW w \in Workers, task[w].pc # "free",
         NEW pc \in TaskPcs \cup {"free"}, Goto(w, pc),
         UNCHANGED <<rows, loop, reclaimed>>,
         \/ pc = "free"
         \/ task[w].pc \in LivePcs /\ pc \in LivePcs \cup {"giveup", "unconfirmed"}
  PROVE  Flights'
<1>1. /\ \A u \in Workers \ {w} : task'[u] = task[u]
      /\ task'[w].pc = pc
      /\ pc # "free" => task'[w].id = task[w].id
  BY GotoMoves, Zenon
<1>6. \A u \in Workers, f \in Effects : Live(u, f)' => Live(u, f)
  BY <1>1 DEF Live, Waiting, LiveTask, LivePcs, Works
<1>7. BatchesAreSets'
  BY Zenon DEF Flights, BatchesAreSets, Ahead
<1>8. NotTwice'
  BY <1>1 DEF Flights, NotTwice, Works, Waiting, Ahead
<1>9. OneLive'
  BY <1>6, Zenon DEF Flights, OneLive
<1>10. Tails'
  <2> SUFFICES ASSUME NEW u \in Workers, NEW f \in Effects \ reclaimed, Works(u, f)'
               PROVE  /\ task'[u].pc = "giveup" /\ rows[f].owner = u =>
                           rows[f].state \in Settled \cup {"InFlight"}
                      /\ task'[u].pc = "unconfirmed" =>
                           rows[f].state \in Settled \cup {"InFlight", "Purged"}
                      /\ task'[u].pc = "release" =>
                           rows[f].state \in Settled \cup {"Purged"}
    BY Zenon DEF Tails
  <2>1. CASE u # w
    BY <2>1, <1>1, ZenonT(40) DEF Flights, Tails, Works
  <2>2. CASE u = w /\ task[w].pc \in LivePcs
    BY <2>2, <1>1, Zenon DEF Flights, OneLive, Live, LiveTask, Works, LivePcs
  <2>3. CASE u = w /\ pc = "free"
    BY <2>3, <1>1, Zenon DEF Works
  <2> QED
    BY <2>1, <2>2, <2>3, Zenon
<1>11. OneRelease'
  BY <1>1 DEF LivePcs, Flights, OneRelease, Works
<1> QED
  BY <1>7, <1>8, <1>9, <1>10, <1>11, Zenon DEF Flights

(* The attempt that is live ends the flight of its row.                    *)
LEMMA LandsRow ==
  ASSUME TypeOK, Flights, NEW w \in Workers, task[w].pc # "free",
         NEW pc \in {"free", "unconfirmed", "giveup", "release"}, Goto(w, pc),
         NEW row \in Row, rows' = [rows EXCEPT ![task[w].id] = row],
         UNCHANGED <<dedup, loop, reclaimed>>, HoldersHold,
         task[w].id \notin reclaimed => LiveTask(w, task[w].id),
         \/ row.state \in Settled
         \/ row.state = "RetryableFailed" /\ row.owner = None,
         pc \in {"unconfirmed", "release"} => row.state \in Settled,
         pc = "release" => task[w].pc = "giveup"
  PROVE  Flights' /\ HoldersHold'
<1>1. /\ \A u \in Workers \ {w} : task'[u] = task[u]
      /\ task'[w].pc = pc
      /\ pc # "free" => task'[w].id = task[w].id
  BY GotoMoves, Zenon DEF TaskPcs
<1>2. \A u \in Workers, f \in Effects : Works(u, f)' => Works(u, f)
  BY <1>1, Zenon DEF Works
<1>5. PICK e \in Effects : e = task[w].id
  BY Shapes, Zenon DEF TaskRecord
<1>6. /\ rows'[e] = row
      /\ \A f \in Effects \ {e} : rows'[f] = rows[f]
  BY <1>5, Zenon DEF TypeOK
<1>7. e \notin reclaimed =>
        /\ rows[e].state = "InFlight"
        /\ \A u \in Workers : Live(u, e) => u = w
        /\ ~Waiting(w, e)
  <2> SUFFICES ASSUME e \notin reclaimed
               PROVE  /\ rows[e].state = "InFlight"
                      /\ \A u \in Workers : Live(u, e) => u = w
                      /\ ~Waiting(w, e)
    BY Zenon
  <2>2. Works(w, e)
    BY <1>5, Zenon DEF LiveTask, Live
  <2> QED
    BY <2>2, <1>5, Zenon DEF Flights, OneLive, NotTwice, Live
<1>9. \A u \in Workers : e \notin reclaimed => ~LiveTask(u, e)'
  <2> SUFFICES ASSUME NEW u \in Workers, e \notin reclaimed, LiveTask(u, e)'
               PROVE  FALSE
    BY Zenon
  <2>1. task'[u].pc \in LivePcs
    BY <1>6, Zenon DEF LiveTask, Settled
  <2>2. u # w
    BY <2>1, <1>1, Zenon DEF LivePcs
  <2>3. LiveTask(u, e)
    BY <2>1, <2>2, <1>1, <1>2, <1>5, Zenon DEF LiveTask
  <2> QED
    BY <2>2, <2>3, <1>7, Zenon DEF Live
<1>10. \A u \in Workers : e \notin reclaimed => ~Live(u, e)'
  BY <1>9, <1>7, <1>5, Zenon DEF Live, Waiting
<1>11. \A u \in Workers, f \in Effects : f # e /\ Live(u, f)' => Live(u, f)
  <2>1. ASSUME NEW u \in Workers, NEW f \in Effects, f # e, LiveTask(u, f)'
        PROVE  LiveTask(u, f)
    <3> QED
      BY <2>1, <1>1, <1>6, <1>5 DEF LiveTask, Works, LivePcs
  <2> QED
    BY <2>1, Zenon DEF Live, Waiting
<1>12. BatchesAreSets'
  BY Zenon DEF Flights, BatchesAreSets, Ahead
<1>13. NotTwice'
  BY <1>2, ZenonT(40) DEF Flights, NotTwice, Waiting, Ahead
<1>14. OneLive'
  BY <1>10, <1>11, <1>6 DEF OneLive, Flights
<1>15. Tails'
  <2> SUFFICES ASSUME NEW u \in Workers, NEW f \in Effects \ reclaimed, Works(u, f)'
               PROVE  /\ task'[u].pc = "giveup" /\ rows'[f].owner = u =>
                           rows'[f].state \in Settled \cup {"InFlight"}
                      /\ task'[u].pc = "unconfirmed" =>
                           rows'[f].state \in Settled \cup {"InFlight", "Purged"}
                      /\ task'[u].pc = "release" =>
                           rows'[f].state \in Settled \cup {"Purged"}
    BY Zenon DEF Tails
  <2>1. CASE f # e
    BY <2>1, <1>1, <1>5, <1>2, <1>6 DEF Works, Flights, Tails
  <2>2. CASE f = e /\ u = w
    BY <2>2, <1>1, <1>5, <1>6, LeaseShapeAssumption
  <2>3. CASE f = e /\ u # w
    BY <2>3, <1>7, <1>1, <1>2, <1>6, LeaseShapeAssumption DEF Live, LiveTask,
       Flights, Tails, Settled
  <2> QED
    BY <2>1, <2>2, <2>3, Zenon
<1>16. OneRelease'
  <2> SUFFICES ASSUME NEW f \in Effects \ reclaimed, NEW u \in Workers, NEW v \in Workers,
                      Works(u, f)', task'[u].pc = "release",
                      Works(v, f)', task'[v].pc = "release"
               PROVE  u = v
    BY Zenon DEF OneRelease
  <2>1. CASE u # w /\ v # w
    BY <2>1, <1>1, <1>2, Zenon DEF Flights, OneRelease
  <2>2. \A x \in Workers : x # w /\ Works(x, e)' /\ e \notin reclaimed =>
          task'[x].pc # "release"
    BY <1>1, <1>2, <1>5, <1>7, ZenonT(40) DEF Flights, Tails, Settled
  <2> QED
    BY <2>1, <2>2, <1>1, <1>5, ZenonT(40) DEF Works
<1>17. HoldersHold'
  <2>1. ASSUME NEW u \in Workers, NEW f \in Effects \ reclaimed', Holder(u, f)'
        PROVE  Holder(u, f)
    <3>1. Works(u, f)
      BY <2>1, <1>2, Zenon DEF Holder
    <3>2. CASE u = w
      BY <3>2, <2>1, <1>1, <1>5, <1>9, <3>1, Zenon DEF Holder, Works
    <3>3. CASE u # w
      BY <3>3, <1>1, <1>9, <2>1, <1>6, <3>1 DEF LiveTask, Holder
    <3> QED
      BY <3>2, <3>3, Zenon
  <2> QED
    BY <2>1, HoldersStay, Zenon
<1> QED
  BY <1>12, <1>13, <1>14, <1>15, <1>16, <1>17, Zenon DEF Flights

-----------------------------------------------------------------------------
(* How rows take off                                                       *)

(* Nothing is live on a row that may be marked in flight.                  *)
LEMMA Grounded ==
  ASSUME Flights, NEW e \in Effects \ reclaimed, rows[e].state \in Open,
         NEW u \in Workers
  PROVE  /\ ~Live(u, e)
         /\ Works(u, e) => /\ task[u].pc \notin LivePcs
                           /\ task[u].pc \notin {"unconfirmed", "release"}
                           /\ task[u].pc = "giveup" => rows[e].owner # u
BY Zenon DEF Open, Settled, Flights, OneLive, Tails, Live, LiveTask

(* w marks the row of e in flight.  Whatever becomes live is w's, and w    *)
(* had no attempt on e past its own mark.                                  *)
LEMMA TakesOff ==
  ASSUME TypeOK, Flights, HoldersHold, NEW w \in Workers, NEW e \in Effects,
         Markable(w, rows[e]),
         rows' = [rows EXCEPT ![e] =
                    Stamped([rows[e] EXCEPT !.state = "InFlight"], w)],
         UNCHANGED <<dedup, reclaimed>>,
         \A u \in Workers \ {w} : task'[u] = task[u] /\ loop'[u] = loop[u],
         \A f \in Effects : f # e =>
           /\ Works(w, f)' => Works(w, f) /\ task'[w] = task[w]
           /\ Waiting(w, f)' => Waiting(w, f),
         e \notin reclaimed => ~(Works(w, e)' /\ Waiting(w, e)'),
         Works(w, e)' => e \in reclaimed \/ task'[w].pc = "reserve",
         BatchesAreSets', NotTwice'
  PROVE  Flights' /\ HoldersHold'
<1>2. ASSUME NEW u \in Workers, NEW f \in Effects, u # w
      PROVE  /\ Works(u, f)' <=> Works(u, f)
             /\ Waiting(u, f)' <=> Waiting(u, f)
  BY <1>2, Zenon DEF Works, Waiting
<1>3. ASSUME NEW u \in Workers, NEW f \in Effects \ reclaimed, Live(u, f)'
      PROVE  \/ Live(u, f) /\ f # e
             \/ u = w /\ f = e
  BY <1>2, <1>3, Grounded DEF Live, LiveTask, TypeOK, Row, Stamped, Markable
<1>4. OneLive'
  BY <1>3 DEF Flights, OneLive, TypeOK, Row, Stamped, Markable
<1>5. Tails'
  BY <1>2, Grounded DEF Tails, Flights, TypeOK, Row, Stamped, Markable
<1>6. OneRelease'
  BY <1>2 DEF Flights, OneRelease
<1>7. HoldersHold'
  BY <1>2, Grounded, HoldersStay DEF Holder, LiveTask, TypeOK, Row, Stamped,
     Markable
<1> QED
  BY <1>4, <1>5, <1>6, <1>7, Zenon DEF Flights

LEMMA MarkInFlightIInv ==
  ASSUME TypeOK, Flights, HoldersHold, NEW w \in Workers, MarkInFlight(w)
  PROVE  Flights' /\ HoldersHold'
<1>1. /\ task[w].pc = "mark" /\ task[w].pc # "free"
      /\ UNCHANGED <<dedup, loop, reclaimed>>
  BY Zenon DEF MarkInFlight, At, WriteRow
<1>2. PICK e \in Effects : e = task[w].id
  BY <1>1, Shapes, Zenon DEF TaskRecord
<1> DEFINE marked == [rows EXCEPT ![e] =
                        Stamped([rows[e] EXCEPT !.state = "InFlight"], w)]
<1>3. PICK pc \in {"reserve", "free"} :
        /\ Goto(w, pc)
        /\ \/ rows' = rows /\ pc = "free"
           \/ rows' = marked /\ Markable(w, rows[e])
  BY <1>2, Zenon DEF MarkInFlight, WriteRow
<1>4. /\ \A u \in Workers \ {w} : task'[u] = task[u]
      /\ task'[w].pc = pc
      /\ pc # "free" => task'[w].id = e
  BY <1>1, <1>2, <1>3, GotoMoves, Zenon DEF TaskPcs, LivePcs
<1>5. CASE rows' = rows /\ pc = "free"
  BY <1>5, <1>1, <1>3, KeepsRow, <1>4, HoldersStay DEF Holder, LiveTask, Works
<1>6. CASE rows' = marked /\ Markable(w, rows[e])
  <2>2. /\ \A u \in Workers, f \in Effects : Waiting(u, f)' <=> Waiting(u, f)
        /\ \A u \in Workers : Ahead(u)' = Ahead(u)
    BY <1>1, Zenon DEF Waiting, Ahead
  <2>3. BatchesAreSets'
    BY <1>1, <2>2 DEF Flights, BatchesAreSets
  <2>4. NotTwice'
    BY <1>1, <2>2, <1>2, <1>4 DEF Flights, NotTwice, Works
  <2>5. \A f \in Effects : f # e => ~Works(w, f)'
    BY <1>4, Zenon DEF Works
  <2>6. e \notin reclaimed => ~(Works(w, e)' /\ Waiting(w, e)')
    BY <2>2, <1>1, <1>2, <1>4, Zenon DEF Flights, NotTwice, Works
  <2>7. Works(w, e)' => task'[w].pc = "reserve"
    BY <1>4, Zenon DEF Works
  <2> HIDE DEF marked
  <2>8. rows' = [rows EXCEPT ![e] =
                   Stamped([rows[e] EXCEPT !.state = "InFlight"], w)]
    BY <1>6, Zenon DEF marked
  <2> QED
    BY <1>1, <1>4, <1>6, <2>2, <2>3, <2>4, <2>5, <2>6, <2>7, <2>8, TakesOff, Zenon
<1> QED
  BY <1>3, <1>5, <1>6, Zenon

-----------------------------------------------------------------------------
(* Time, intake and retention                                              *)

(* Rows that nobody works on appear, and settled rows vanish.              *)
LEMMA QuietRows ==
  ASSUME Flights, HoldersHold, UNCHANGED <<dedup, loop, task, reclaimed>>,
         \A f \in Effects :
           \/ rows'[f].state = rows[f].state /\ rows'[f].owner = rows[f].owner
           \/ rows[f].state = "Unknown" /\ rows'[f] = Unclaimed("Pending", 0, TRUE)
           \/ rows[f].state \in Settled /\ rows'[f] = Purged
  PROVE  Flights' /\ HoldersHold'
<1>2. ASSUME NEW f \in Effects
      PROVE  \/ rows'[f].state = rows[f].state /\ rows'[f].owner = rows[f].owner
             \/ /\ rows[f].state = "Unknown"
                /\ rows'[f].state = "Pending" /\ rows'[f].owner = None
             \/ /\ rows[f].state \in Settled
                /\ rows'[f].state = "Purged" /\ rows'[f].owner = None
  BY DEF Unclaimed, Purged
<1>3. ASSUME NEW u \in Workers, NEW f \in Effects
      PROVE  LiveTask(u, f)' => LiveTask(u, f)
  BY <1>2, Zenon DEF LiveTask, Works, Waiting
<1>4. \A f \in Effects :
        rows[f].state = "InFlight" => rows'[f].state = "InFlight"
  BY <1>2, Zenon DEF Settled
<1>5. BatchesAreSets' /\ NotTwice'
  BY ZenonT(40) DEF Flights, BatchesAreSets, NotTwice, Ahead, Works, Waiting
<1>6. OneLive'
  BY <1>3, <1>4 DEF Flights, OneLive, Live, Works, Waiting
<1>7. Tails'
  BY LeaseShapeAssumption, <1>2 DEF Tails, Flights, Settled, Works, Waiting
<1>8. OneRelease'
  BY DEF Flights, OneRelease, Works, Waiting
<1>9. HoldersHold'
  BY <1>3, HoldersStay, Zenon DEF Holder, Works, Waiting
<1> QED
  BY <1>5, <1>6, <1>7, <1>8, <1>9, Zenon DEF Flights

LEMMA QuietIInv ==
  ASSUME TypeOK, Flights, HoldersHold,
         \/ \E w \in Workers, e \in Effects : Accept(w, e) \/ LeaseExpires(w, e)
         \/ \E e \in Effects : BackoffElapses(e)
         \/ DeleteSettledRows
  PROVE  Flights' /\ HoldersHold'
<1>1. ASSUME NEW w \in Workers, NEW e \in Effects, Accept(w, e)
      PROVE  Flights' /\ HoldersHold'
  BY <1>1, QuietRows DEF Accept, TypeOK, Unknown, Unclaimed
<1>2. ASSUME NEW w \in Workers, NEW e \in Effects, LeaseExpires(w, e)
      PROVE  Flights' /\ HoldersHold'
  BY <1>2, QuietRows, ZenonT(40) DEF LeaseExpires, TypeOK, Row
<1>3. ASSUME NEW e \in Effects, BackoffElapses(e)
      PROVE  Flights' /\ HoldersHold'
  BY <1>3, QuietRows, ZenonT(40) DEF BackoffElapses, TypeOK, Row
<1>4. ASSUME DeleteSettledRows
      PROVE  Flights' /\ HoldersHold'
  BY <1>4, QuietRows, Zenon DEF DeleteSettledRows
<1> QED
  BY <1>1, <1>2, <1>3, <1>4, Zenon

(* Retention deletes confirmed reservations, which no holder has.          *)
LEMMA DeleteSettledKeysIInv ==
  ASSUME TypeOK, Flights, HoldersHold, DeleteSettledKeys
  PROVE  Flights' /\ HoldersHold'
<1>1. UNCHANGED <<rows, loop, task, reclaimed>>
  BY Zenon DEF DeleteSettledKeys
<1>2. Flights'
  BY <1>1 DEF Flights, BatchesAreSets, NotTwice, OneLive, Tails, OneRelease, Live,
     LiveTask, Waiting, Works, Ahead
<1>4. ASSUME NEW f \in Effects, dedup[ScopeOf[f]] = Reservation(f)
      PROVE  dedup'[ScopeOf[f]] = Reservation(f)
  BY <1>4 DEF Confirmed, Reservation, Scopes, DeleteSettledKeys
<1> QED
  BY <1>1, <1>2, <1>4, ZenonT(40) DEF HoldersHold, Fenced, Holder, LiveTask, Works

-----------------------------------------------------------------------------
(* The drain loop                                                          *)

(* Steps that only move w's loop and bring nothing to the permit.          *)
LEMMA LoopMoves ==
  ASSUME Flights, HoldersHold, NEW w \in Workers,
         UNCHANGED <<rows, dedup, task, reclaimed>>,
         \A u \in Workers \ {w} : loop'[u] = loop[u],
         \A e \in Effects : Waiting(w, e)' => Waiting(w, e),
         Ahead(w)' \subseteq Ahead(w),
         loop'[w].pc = "permit" => \A r \in Ahead(w)' : r.id # loop'[w].task.id
  PROVE  Flights' /\ HoldersHold'
<1>1. \A u \in Workers, e \in Effects :
        /\ Works(u, e)' <=> Works(u, e)
        /\ LiveTask(u, e)' <=> LiveTask(u, e)
        /\ Waiting(u, e)' => Waiting(u, e)
        /\ Live(u, e)' => Live(u, e)
        /\ Holder(u, e)' <=> Holder(u, e)
  BY DEF Works, LiveTask, Waiting, Live, Holder
<1>3. BatchesAreSets'
  BY ZenonT(40) DEF Flights, BatchesAreSets, Ahead
<1>4. NotTwice'
  BY <1>1 DEF Flights, NotTwice, Ahead
<1>5. OneLive' /\ Tails' /\ OneRelease'
  BY <1>1 DEF Flights, OneLive, Tails, OneRelease
<1>6. HoldersHold'
  BY <1>1, HoldersStay, Zenon
<1> QED
  BY <1>3, <1>4, <1>5, <1>6, Zenon DEF Flights

LEMMA ReceiveIInv ==
  ASSUME TypeOK, Flights, HoldersHold, NEW w \in Workers, NEW e \in Effects,
         Receive(w, e)
  PROVE  Flights' /\ HoldersHold'
BY LoopMoves DEF Receive, TypeOK, Ahead, Waiting, Task

(* What claim_due takes is due.                                            *)
LEMMA BatchesAreDue ==
  ASSUME NEW due, NEW limit, NEW S \in Batches(due, limit)
  PROVE  S \subseteq due
BY DEF Batches

LEMMA ClaimDueIInv ==
  ASSUME TypeOK, Flights, HoldersHold, NEW w \in Workers, ClaimDue(w)
  PROVE  Flights' /\ HoldersHold'
<1>1. PICK S \in SUBSET Effects :
        /\ rows' = [e \in Effects |-> IF e \in S THEN Stamped(rows[e], w)
                                      ELSE rows[e]]
        /\ loop' = [loop EXCEPT ![w] = [pc |-> "reclaim",
                      batch |-> {[id |-> e, attempt |-> rows[e].attempt] :
                                 e \in S}]]
        /\ reclaimed' = reclaimed \cup {e \in S : task[w] # Free /\ task[w].id = e}
  BY BatchesAreDue, Zenon DEF ClaimDue
<1>2. UNCHANGED <<dedup, task>>
  BY Zenon DEF ClaimDue
<1>4. /\ \A e \in Effects : rows'[e].state = rows[e].state
      /\ \A e \in Effects : rows'[e].owner = IF e \in S THEN w ELSE rows[e].owner
  BY <1>1, ZenonT(40) DEF TypeOK, Row, Stamped
<1>5. \A e \in S : Works(w, e) => e \in reclaimed'
  BY <1>1, Shapes, Zenon DEF Works
<1>7. \A u \in Workers, e \in Effects : Waiting(u, e)' => Waiting(u, e)
  BY <1>1, Zenon DEF Waiting, TypeOK
<1>8. ASSUME NEW u \in Workers, NEW e \in Effects \ reclaimed', Works(u, e),
             rows'[e].owner = u
      PROVE  rows[e].owner = u
  BY <1>4, <1>5, <1>8, Zenon
<1>10. BatchesAreSets'
  BY <1>1 DEF Ahead, Flights, BatchesAreSets, TypeOK
<1>11. NotTwice'
  BY <1>1, <1>5, <1>2 DEF NotTwice, Ahead, Waiting, Flights, TypeOK, Works
<1>12. reclaimed \subseteq reclaimed'
  BY <1>1, Zenon
<1>13. OneLive'
  BY <1>4, <1>7, <1>12, <1>2, <1>8 DEF Flights, OneLive, Live, LiveTask, Works
<1>14. Tails'
  BY <1>4, <1>8, <1>12, <1>2, ZenonT(40) DEF Flights, Tails, Works
<1>15. OneRelease'
  BY <1>2, <1>12 DEF Flights, OneRelease, Works
<1>16. HoldersHold'
  BY <1>2, <1>12, HoldersStay, <1>4, <1>8 DEF Holder, Works, LiveTask
<1> QED
  BY <1>10, <1>11, <1>13, <1>14, <1>15, <1>16, Zenon DEF Flights

LEMMA ReclaimOneIInv ==
  ASSUME TypeOK, Flights, HoldersHold, NEW w \in Workers, NEW r \in Batch(w),
         ReclaimOne(w, r)
  PROVE  Flights' /\ HoldersHold'
<1>1. /\ loop[w].pc = "reclaim" /\ Ahead(w) = loop[w].batch
      /\ r \in Ahead(w) /\ Batch(w) = Ahead(w)
  BY Zenon DEF Batch, Ahead
<1>2. PICK e \in Effects : e = r.id
  BY <1>1, Shapes DEF Entry
<1> DEFINE rest == Ahead(w) \ {r}
           skip == IF rest = {} THEN Selecting ELSE [loop[w] EXCEPT !.batch = rest]
           marked == [rows EXCEPT ![e] =
                        Stamped([rows[e] EXCEPT !.state = "InFlight"], w)]
           there == [pc |-> "permit", task |-> Task("reserve", e, r.attempt),
                     batch |-> rest]
<1>3. UNCHANGED <<dedup, task, reclaimed>>
  BY Zenon DEF ReclaimOne
<1>4. \/ rows' = rows /\ loop' = [loop EXCEPT ![w] = skip]
      \/ /\ rows' = marked /\ Markable(w, rows[e])
         /\ \/ loop' = [loop EXCEPT ![w] = skip]
            \/ loop' = [loop EXCEPT ![w] = there]
  BY <1>1, <1>2, Zenon DEF ReclaimOne
<1>5. ASSUME loop' = [loop EXCEPT ![w] = skip]
      PROVE  /\ \A u \in Workers \ {w} : loop'[u] = loop[u]
             /\ loop'[w].pc \in {"select", "reclaim"}
             /\ Ahead(w)' = rest
  BY <1>5, <1>1 DEF TypeOK, LoopRecord, Selecting, Ahead
<1>6. ASSUME loop' = [loop EXCEPT ![w] = there]
      PROVE  /\ \A u \in Workers \ {w} : loop'[u] = loop[u]
             /\ loop'[w].pc = "permit" /\ loop'[w].task.id = e
             /\ Ahead(w)' = rest
  BY <1>6, Zenon DEF TypeOK, Ahead, Task
<1>7. \A q \in rest : q.id # e
  BY <1>1, <1>2, Zenon DEF Flights, BatchesAreSets
<1>8. \A u \in Workers, f \in Effects : Works(u, f)' <=> Works(u, f)
  BY <1>3, Zenon DEF Works
<1>9. e \notin reclaimed => ~Works(w, e)
  BY <1>1, <1>2, Zenon DEF Flights, NotTwice
<1>10. rest \subseteq Ahead(w)
  BY Zenon
<1> HIDE DEF rest, skip, marked, there
<1>11. CASE rows' = rows /\ loop' = [loop EXCEPT ![w] = skip]
  BY <1>5, <1>11, <1>3, <1>10, LoopMoves, Zenon DEF Waiting
<1>12. CASE /\ rows' = marked /\ Markable(w, rows[e])
            /\ \/ loop' = [loop EXCEPT ![w] = skip]
               \/ loop' = [loop EXCEPT ![w] = there]
  <2>1. /\ \A u \in Workers \ {w} : loop'[u] = loop[u]
        /\ Ahead(w)' = rest
        /\ loop'[w].pc = "permit" => loop'[w].task.id = e
    BY <1>5, <1>6, <1>12, Zenon
  <2>3. BatchesAreSets'
    BY <2>1, <1>7, <1>10 DEF Flights, BatchesAreSets, Ahead
  <2>4. \A f \in Effects : f # e => ~Waiting(w, f)'
    BY <2>1, Zenon DEF Waiting
  <2>6. NotTwice'
    BY <2>1, <2>4, <1>3, <1>8, <1>9, <1>10 DEF Flights, NotTwice, Ahead, Waiting
  <2>7. rows' = [rows EXCEPT ![e] =
                   Stamped([rows[e] EXCEPT !.state = "InFlight"], w)]
    BY <1>12, Zenon DEF marked
  <2>8. Works(w, e)' => e \in reclaimed
    BY <1>8, <1>9, Zenon
  <2> QED
    BY <1>3, <1>8, <1>12, <2>1, <2>3, <2>4, <2>6, <2>7, <2>8, TakesOff, Zenon
<1> QED
  BY <1>4, <1>11, <1>12, Zenon

LEMMA SpawnIInv ==
  ASSUME TypeOK, Flights, HoldersHold, NEW w \in Workers, Spawn(w)
  PROVE  Flights' /\ HoldersHold'
<1>1. loop[w].pc = "permit" /\ task[w].pc = "free"
  BY Shapes, Zenon DEF Spawn, Free
<1>2. PICK t \in Begun : t = loop[w].task
  BY <1>1, Shapes, Zenon
<1>3. /\ task'[w] = t
      /\ \A u \in Workers \ {w} : task'[u] = task[u]
      /\ UNCHANGED <<rows, dedup, reclaimed>>
  BY <1>2, Zenon DEF Spawn, TypeOK
<1>4. /\ loop'[w].pc \in {"select", "reclaim"}
      /\ Ahead(w)' = Ahead(w)
      /\ \A u \in Workers \ {w} : loop'[u] = loop[u]
  BY <1>1, Zenon DEF Spawn, TypeOK, Ahead, Selecting
<1>6. \A u \in Workers : Ahead(u)' = Ahead(u)
  BY <1>4, Zenon DEF Ahead
<1>7. \A e \in Effects : ~Waiting(w, e)' /\ ~Works(w, e)
  BY <1>1, <1>4, Zenon DEF Waiting, Works
<1>9. \A u \in Workers \ {w}, e \in Effects :
        /\ Works(u, e)' <=> Works(u, e)
        /\ Waiting(u, e)' <=> Waiting(u, e)
        /\ LiveTask(u, e)' <=> LiveTask(u, e)
  BY <1>3, <1>4 DEF Works, Waiting, LiveTask
<1>10. \A e \in Effects : LiveTask(w, e)' => Waiting(w, e)
  BY <1>1, <1>2, <1>3, Zenon DEF LiveTask, Waiting, LivePcs, Works, Begun
<1>12. BatchesAreSets'
  BY <1>4, <1>6 DEF Flights, BatchesAreSets
<1>13. NotTwice'
  BY <1>1, <1>2, <1>3, <1>6, <1>7, <1>9 DEF Flights, BatchesAreSets, NotTwice,
     Works, Begun
<1>14. OneLive'
  BY <1>3, <1>7, <1>9, <1>10 DEF Flights, OneLive, Live
<1>15. Tails'
  BY <1>3, <1>9 DEF Flights, Tails, Works, Begun
<1>16. OneRelease'
  BY <1>3, <1>9 DEF Flights, OneRelease, Works, Begun
<1>17. HoldersHold'
  BY <1>3, <1>9, HoldersStay, ZenonT(40) DEF Holder, Works, Begun
<1> QED
  BY <1>12, <1>13, <1>14, <1>15, <1>16, <1>17, Zenon DEF Flights

-----------------------------------------------------------------------------
(* The dedup table                                                         *)

(* A fenced key has one holder.                                            *)
LEMMA OneHolder ==
  ASSUME TypeOK, Flights, HoldersHold, NEW v \in Workers, NEW w \in Workers,
         NEW e \in Effects, NEW f \in Effects, Holder(v, e), Holder(w, f),
         ScopeOf[e] = ScopeOf[f], Fenced(ScopeOf[e])
  PROVE  e = f /\ v = w
<1>1. Reservation(e) = Reservation(f)
  BY Zenon DEF HoldersHold
<1>3. \A u \in Workers : Holder(u, e) =>
        Live(u, e) \/ (Works(u, e) /\ task[u].pc = "release")
  BY Zenon DEF Holder, Live, LiveTask, LivePcs
<1>6. CASE Live(v, e) /\ Live(w, e)
  BY <1>6, <1>1, Zenon DEF Flights, OneLive, Reservation, Fenced
<1>7. CASE /\ Works(v, e) /\ task[v].pc = "release"
           /\ Works(w, e) /\ task[w].pc = "release"
  BY <1>7, <1>1, Zenon DEF Flights, OneRelease, Reservation, Fenced
<1> QED
  BY <1>3, <1>6, <1>7, <1>1, Zenon DEF Flights, OneLive, Reservation, Fenced, Tails,
     Settled

(* What a statement on the dedup table may do: insert where there is       *)
(* nothing, or change the entry that the task itself holds.                *)
LEMMA WritesDedup ==
  ASSUME TypeOK, Flights, HoldersHold, NEW w \in Workers, NEW e \in Effects,
         Works(w, e), NEW pc \in TaskPcs \cup {"free"}, Goto(w, pc),
         UNCHANGED <<rows, loop, reclaimed>>,
         \A s \in Scopes : dedup'[s] # dedup[s] =>
           s = ScopeOf[e] /\ (dedup[s] = NoReservation \/ Holder(w, e)),
         \/ pc = "free"
         \/ task[w].pc \in LivePcs /\ pc \in LivePcs \cup {"giveup", "unconfirmed"},
         pc \in {"execute", "commit", "retry", "release", "giveup"} =>
           dedup'[ScopeOf[e]] = Reservation(e)
  PROVE  Flights' /\ HoldersHold'
<1>2. Flights'
  BY KeepsRow, Zenon DEF Works
<1>4. HoldersHold'
  <2> SUFFICES ASSUME NEW u \in Workers, NEW f \in Effects, Holder(u, f)',
                      Fenced(ScopeOf[f])
               PROVE  dedup'[ScopeOf[f]] = Reservation(f)
    BY Zenon DEF HoldersHold, Fenced
  <2>1. CASE u = w
    BY <2>1, GotoMoves, Zenon DEF Holder, Works
  <2>2. CASE u # w
    <3>1. Holder(u, f)
      BY <2>2, GotoMoves, ZenonT(40) DEF Holder, LiveTask, Works
    <3> QED
      BY <3>1, Reservations, <2>2, OneHolder DEF HoldersHold, Scopes
  <2> QED
    BY <2>1, <2>2, Zenon
<1> QED
  BY <1>2, <1>4, Zenon

LEMMA DedupIInv ==
  ASSUME TypeOK, Flights, HoldersHold, NEW w \in Workers,
         \/ Reserve(w) \/ LookUpReservation(w) \/ CommitSuccess(w) \/ Release(w)
  PROVE  Flights' /\ HoldersHold'
<1>1. task[w].pc \in {"reserve", "look", "commit", "release"}
  BY Zenon DEF Reserve, LookUpReservation, CommitSuccess, Release, At
<1>2. PICK e \in Effects : e = task[w].id
  BY <1>1, Shapes, Zenon DEF TaskRecord
<1>3. Works(w, e)
  BY <1>1, <1>2, Zenon DEF Works
<1>5. dedup[ScopeOf[e]] \in {NoReservation} \cup Taken
  BY Zenon DEF TypeOK, Scopes
<1>6. /\ Reservation(e) # NoReservation
      /\ Answer(e, NoReservation) \in {"execute", "giveup"}
  BY <1>5, Reservations, Answers, Zenon
<1>7. CASE Reserve(w)
  <2>1. PICK pc \in {"look", "abandon", "execute", "giveup"} :
          /\ Goto(w, pc)
          /\ dedup' \in {dedup, Reserved(dedup, e)}
          /\ pc \in {"execute", "giveup"} =>
               dedup' = Reserved(dedup, e) /\ dedup' # dedup
          /\ UNCHANGED <<rows, loop, reclaimed>>
    BY <1>2, <1>6, <1>7, Zenon DEF Reserve, WriteDedup
  <2>3. pc \in {"execute", "giveup"} => dedup'[ScopeOf[e]] = Reservation(e)
    BY <2>1, Zenon DEF Reserved, Scopes, TypeOK
  <2>4. task[w].pc \in LivePcs /\ pc \in LivePcs \cup {"giveup"}
    BY <1>7, Zenon DEF Reserve, At, LivePcs
  <2> QED
    BY <2>1, <2>3, <2>4, <1>3, WritesDedup DEF TaskPcs, Reserved, Scopes, TypeOK
<1>8. CASE LookUpReservation(w)
  <2>1. PICK pc \in LivePcs \cup {"giveup"} :
          /\ Goto(w, pc)
          /\ dedup' = dedup
          /\ pc \in {"execute", "commit", "retry", "giveup"} =>
               dedup[ScopeOf[e]] # NoReservation /\ pc = Answer(e, dedup[ScopeOf[e]])
          /\ UNCHANGED <<rows, loop, reclaimed>>
    BY <1>5, Answers, <1>2, <1>8, Zenon DEF LivePcs, LookUpReservation, WriteDedup
  <2>3. task[w].pc \in LivePcs /\ pc # "release"
    BY <1>8, <2>1, Zenon DEF LookUpReservation, At, LivePcs
  <2> QED
    BY <2>1, <2>3, <1>3, WritesDedup, <1>5, Answers, ZenonT(40) DEF TaskPcs
<1>9. CASE CommitSuccess(w)
  <2>1. PICK pc \in {"succeed", "unconfirmed"} :
          /\ Goto(w, pc)
          /\ dedup' \in {dedup, Committed(dedup, ScopeOf[e])}
          /\ UNCHANGED <<rows, loop, reclaimed>>
    BY <1>2, <1>9, Zenon DEF CommitSuccess, WriteDedup
  <2>2. \A s \in Scopes : dedup'[s] # dedup[s] => s = ScopeOf[e]
    BY <2>1, Zenon DEF Committed, Scopes, TypeOK
  <2>3. task[w].pc \in LivePcs /\ Holder(w, e)
    BY <1>3, <1>9, Zenon DEF CommitSuccess, At, LivePcs, Holder
  <2> QED
    BY <2>1, <2>2, <2>3, <1>3, WritesDedup, Zenon DEF TaskPcs, LivePcs
<1>10. CASE Release(w)
  <2>1. /\ Goto(w, "free")
        /\ dedup' \in {dedup, [dedup EXCEPT ![ScopeOf[e]] = NoReservation]}
        /\ UNCHANGED <<rows, loop, reclaimed>>
    BY <1>2, <1>10, Zenon DEF Release, WriteDedup
  <2>2. \A s \in Scopes : dedup'[s] # dedup[s] => s = ScopeOf[e]
    BY <2>1, Zenon DEF Scopes, TypeOK
  <2>3. Holder(w, e)
    BY <1>3, <1>10, Zenon DEF Release, At, Holder
  <2> QED
    BY <2>1, <2>2, <2>3, <1>3, WritesDedup, Zenon
<1> QED
  BY <1>7, <1>8, <1>9, <1>10, Zenon

LEMMA ExecuteIInv ==
  ASSUME TypeOK, Flights, HoldersHold, NEW w \in Workers, Execute(w)
  PROVE  Flights' /\ HoldersHold'
<1>2. PICK pc \in {"commit", "retry", "giveup"} : Goto(w, pc)
  BY Zenon DEF Execute
<1>3. pc \in TaskPcs /\ pc \in LivePcs \cup {"giveup"} /\ task[w].pc \in LivePcs
  BY Zenon DEF TaskPcs, LivePcs, Execute, At
<1>4. Flights'
  BY <1>2, <1>3, KeepsRow, Zenon DEF Execute, At
<1>5. /\ \A u \in Workers \ {w} : task'[u] = task[u]
      /\ task'[w].pc = pc /\ task'[w].id = task[w].id
  BY <1>2, <1>3, GotoMoves, Zenon DEF Execute, At
<1> QED
  BY <1>4, HoldersStay, <1>5 DEF Execute, At, Holder, LiveTask, Works

-----------------------------------------------------------------------------
(* The outcome of an attempt                                               *)

(* The owner check lets only the live attempt through.                     *)
LEMMA WritesRow ==
  ASSUME TypeOK, Flights, HoldersHold, NEW w \in Workers, task[w].pc # "free",
         NEW may \in BOOLEAN, NEW row \in Row,
         NEW onOk \in {"free", "release"},
         NEW onErr \in {"free", "unconfirmed", "giveup"},
         WriteRow(w, may, row, onOk, onErr),
         may /\ task[w].id \notin reclaimed => LiveTask(w, task[w].id),
         \/ row.state \in Settled
         \/ row.state = "RetryableFailed" /\ row.owner = None,
         onErr = "unconfirmed" => task[w].pc = "succeed" /\ row.state \in Settled,
         onErr = "giveup" => task[w].pc = "retry",
         onOk = "release" => task[w].pc = "giveup" /\ row.state \in Settled
  PROVE  Flights' /\ HoldersHold'
<1>1. UNCHANGED <<dedup, loop, reclaimed>>
  BY Zenon DEF WriteRow
<1>3. CASE rows' = rows /\ Goto(w, onErr)
  <2>2. onErr \in TaskPcs \cup {"free"}
    BY Zenon DEF TaskPcs
  <2>3. Flights'
    BY <2>2, <1>1, <1>3, KeepsRow, Zenon DEF LivePcs
  <2>4. /\ \A u \in Workers \ {w} : task'[u] = task[u]
        /\ task'[w].pc = onErr
        /\ onErr # "free" => task'[w].id = task[w].id
    BY <2>2, <1>3, GotoMoves, Zenon
  <2>5. \A u \in Workers, f \in Effects : Holder(u, f)' => Holder(u, f)
    BY <1>3, <2>4 DEF Holder, LiveTask, Works
  <2> QED
    BY <2>3, <2>5, <1>1, HoldersStay, Zenon
<1>4. CASE /\ may /\ rows' = [rows EXCEPT ![task[w].id] = row]
           /\ Goto(w, onOk) \/ Goto(w, onErr)
  BY <1>1, <1>4, LandsRow, ZenonT(40)
<1> QED
  BY <1>3, <1>4, Zenon DEF WriteRow

LEMMA MarkSucceededIInv ==
  ASSUME TypeOK, Flights, HoldersHold, NEW w \in Workers, MarkSucceeded(w)
  PROVE  Flights' /\ HoldersHold'
<1>1. task[w].pc \in {"succeed", "satisfied"}
  BY Zenon DEF MarkSucceeded, At
<1>2. task[w].pc # "free" /\ task[w].id \in Effects
  BY <1>1, Shapes, Zenon DEF TaskRecord
<1>3. PICK row \in Row : row = [rows[task[w].id] EXCEPT !.state = "Succeeded"]
  <2>1. [rows[task[w].id] EXCEPT !.state = "Succeeded"] \in Row
    BY <1>2, SMTT(30) DEF TypeOK, Row, States, Settled
  <2> QED
    BY <2>1, Zenon
<1>4. PICK may \in BOOLEAN : may = MayWrite(w, {"InFlight"})
  BY Zenon DEF MayWrite, Owned
<1>5. LiveTask(w, task[w].id)
  BY <1>1, Zenon DEF LiveTask, Works, LivePcs
<1>6. row.state \in Settled
  BY <1>2, <1>3, Zenon DEF TypeOK, Row, Settled
<1>7. CASE At(w, "succeed") /\ WriteRow(w, may, row, "free", "unconfirmed")
  BY <1>2, <1>5, <1>6, <1>7, WritesRow, Zenon DEF At
<1>8. CASE At(w, "satisfied") /\ WriteRow(w, may, row, "free", "free")
  BY <1>2, <1>5, <1>6, <1>8, WritesRow, Zenon
<1> QED
  BY <1>3, <1>4, <1>7, <1>8, Zenon DEF MarkSucceeded

LEMMA MarkRetryableIInv ==
  ASSUME TypeOK, Flights, HoldersHold, NEW w \in Workers, MarkRetryable(w)
  PROVE  Flights' /\ HoldersHold'
<1>1. task[w].pc \in {"unconfirmed", "retry", "requeue"}
  BY Zenon DEF MarkRetryable, At
<1>2. task[w].pc # "free" /\ task[w].id \in Effects /\ task[w].attempt \in Nat
  BY <1>1, Shapes, Zenon DEF TaskRecord
<1>3. PICK may \in BOOLEAN : may = MayWrite(w, {"InFlight"})
  BY Zenon DEF MayWrite, Owned
<1>5. may => LiveTask(w, task[w].id)
  BY <1>1, <1>3, Zenon DEF LiveTask, Works, LivePcs, MayWrite
<1>6. task[w].attempt + 1 \in Nat
  BY <1>2
<1>7. PICK row \in Row :
        /\ row.state = "RetryableFailed" /\ row.owner = None
        /\ \/ /\ task[w].pc \in {"unconfirmed", "requeue"}
              /\ WriteRow(w, may, row, "free", "free")
           \/ task[w].pc = "retry" /\ WriteRow(w, may, row, "free", "giveup")
  BY <1>3, <1>2, <1>6, Zenon DEF MarkRetryable, At, Unclaimed, Row, States, Open
<1> QED
  BY <1>2, <1>5, <1>7, WritesRow, Zenon

(* The write that a lingering attempt might slip through: by Tails the     *)
(* owner of a row that waits for its retry is never at this point.         *)
LEMMA MarkTerminalIInv ==
  ASSUME TypeOK, Flights, HoldersHold, NEW w \in Workers, MarkTerminal(w)
  PROVE  Flights' /\ HoldersHold'
<1>1. task[w].pc \in {"abandon", "giveup"}
  BY Zenon DEF MarkTerminal, At
<1>2. task[w].pc # "free" /\ task[w].id \in Effects
  BY <1>1, Shapes, Zenon DEF TaskRecord
<1>3. PICK row \in Row : row = [rows[task[w].id] EXCEPT !.state = "TerminalFailed"]
  <2>1. [rows[task[w].id] EXCEPT !.state = "TerminalFailed"] \in Row
    BY <1>2 DEF TypeOK, Row, States, Settled
  <2> QED
    BY <2>1, Zenon
<1>4. PICK may \in BOOLEAN : may = MayWrite(w, {"InFlight", "RetryableFailed"})
  BY Zenon DEF MayWrite, Owned
<1>6. may /\ task[w].id \notin reclaimed => LiveTask(w, task[w].id)
  BY <1>1, <1>4, <1>2, Zenon DEF LiveTask, LivePcs, MayWrite, Owned, Flights, Tails,
     Settled, Works
<1>7. row.state \in Settled
  BY <1>2, <1>3, Zenon DEF TypeOK, Row, Settled
<1>8. CASE At(w, "abandon") /\ WriteRow(w, may, row, "free", "free")
  BY <1>2, <1>6, <1>7, <1>8, WritesRow, Zenon
<1>9. CASE At(w, "giveup") /\ WriteRow(w, may, row, "release", "free")
  BY <1>2, <1>6, <1>7, <1>9, WritesRow, Zenon DEF At
<1> QED
  BY <1>3, <1>4, <1>8, <1>9, Zenon DEF MarkTerminal

-----------------------------------------------------------------------------
(* The invariant                                                           *)

LEMMA InitIInv ==
  ASSUME Init
  PROVE  IInv
<1>1. PICK ok \in BOOLEAN, past \in {{}, Earlier} :
        /\ rows = [e \in Effects |->
             IF e \notin past THEN Unknown
             ELSE Unclaimed(IF ok THEN "Succeeded" ELSE "TerminalFailed",
                            0, FALSE)]
        /\ dedup = [s \in Scopes |->
             IF \A e \in past : ScopeOf[e] # s THEN NoReservation
             ELSE [Reservation(CHOOSE e \in past : ScopeOf[e] = s)
                     EXCEPT !.succeeded = ok]]
  BY Zenon DEF Init
<1>3. dedup \in [Scopes -> {NoReservation} \cup Taken]
  <2>1. ASSUME NEW s \in Scopes, \E e \in past : ScopeOf[e] = s
        PROVE  [Reservation(CHOOSE e \in past : ScopeOf[e] = s)
                  EXCEPT !.succeeded = ok] \in Taken
    BY <2>1, LeaseShapeAssumption, Zenon DEF Reservation, Taken
  <2> QED
    BY <2>1, <1>1, Zenon
<1>4. \A w \in Workers : task[w].pc = "free" /\ loop[w].pc = "select"
  BY Zenon DEF Init, Free, Selecting
<1>6. Flights
  BY <1>4 DEF Flights, BatchesAreSets, NotTwice, OneLive, Tails, OneRelease, Live,
     LiveTask, Waiting, Works, Ahead
<1>7. HoldersHold
  BY <1>4, Zenon DEF HoldersHold, Holder, Works
<1> QED
  BY <1>6, <1>7, <1>3, <1>1, Zenon DEF IInv, Init, TypeOK, LoopRecord, Unknown,
     Unclaimed, Row, States, Settled

LEMMA RowsStayRows ==
  ASSUME TypeOK, NEW e \in Effects, NEW w \in Workers
  PROVE  /\ Stamped(rows[e], w) \in Row
         /\ Stamped([rows[e] EXCEPT !.state = "InFlight"], w) \in Row
         /\ [rows[e] EXCEPT !.state = "Succeeded"] \in Row
         /\ [rows[e] EXCEPT !.state = "TerminalFailed"] \in Row
         /\ [rows[e] EXCEPT !.expired = @ \cup {w}] \in Row
         /\ Purged \in Row
         /\ Unclaimed("Pending", 0, TRUE) \in Row
<1>1. rows[e] \in Row
  BY Zenon DEF TypeOK
<1>2. "InFlight" \in States /\ Settled \subseteq States /\ Open \subseteq States
  BY Zenon DEF States
<1> QED
  BY <1>1, <1>2, ZenonT(40) DEF Row, Stamped, Purged, Unclaimed, Settled, Open,
     States

LEMMA TaskStepTypeOK ==
  ASSUME TypeOK, NEW w \in Workers, TaskStep(w)
  PROVE  TypeOK'
<1>1. PICK e \in Effects : task[w].pc # "free" /\ e = task[w].id
                             /\ task[w].attempt \in Nat
  BY Shapes, Zenon DEF TaskStep, MarkInFlight, Reserve, LookUpReservation, Execute,
     CommitSuccess, MarkSucceeded, MarkRetryable, MarkTerminal, Release, At,
     TaskRecord
<1>2. \A pc \in TaskPcs \cup {"free"} :
        Goto(w, pc) => task' \in [Workers -> {Free} \cup TaskRecord]
  BY <1>1, GotoMoves, Zenon
<1>3. ScopeOf[e] \in Scopes
  BY Zenon DEF Scopes
<1>4. \A row \in Row, may \in BOOLEAN, onOk, onErr \in TaskPcs \cup {"free"} :
        WriteRow(w, may, row, onOk, onErr) => TypeOK'
  BY <1>1, <1>2, ZenonT(40) DEF WriteRow, TypeOK
<1>5. \A onOk, onErr \in TaskPcs \cup {"free"},
         table \in [Scopes -> {NoReservation} \cup Taken] :
        WriteDedup(w, table, onOk, onErr) => TypeOK'
  BY <1>2, Zenon DEF WriteDedup, TypeOK
<1>6. {"free", "reserve", "look", "execute", "commit", "succeed", "retry",
       "requeue", "satisfied", "abandon", "unconfirmed", "giveup", "release"}
        \subseteq TaskPcs \cup {"free"}
  BY Zenon DEF TaskPcs, LivePcs
<1>7. \A r \in {NoReservation} \cup Taken : Answer(e, r) \in TaskPcs
  BY Answers, Zenon DEF TaskPcs, LivePcs
<1>8. ASSUME MarkInFlight(w) PROVE TypeOK'
  BY <1>1, <1>8, <1>4, <1>6, RowsStayRows, Zenon DEF MarkInFlight, Markable
<1>9. ASSUME Reserve(w) PROVE TypeOK'
  <2>1. Reserved(dedup, e) \in [Scopes -> {NoReservation} \cup Taken]
    BY Reservations, Zenon DEF Reserved, TypeOK
  <2> QED
    BY <2>1, <1>1, <1>5, <1>6, <1>9, <1>7, Zenon DEF Reserve
<1>10. ASSUME LookUpReservation(w) PROVE TypeOK'
  BY <1>3, <1>1, <1>5, <1>6, <1>7, <1>10, ZenonT(40) DEF TypeOK, LookUpReservation
<1>11. ASSUME Execute(w) PROVE TypeOK'
  BY <1>2, <1>6, <1>11, Zenon DEF Execute, TypeOK
<1>12. ASSUME CommitSuccess(w) PROVE TypeOK'
  <2>1. Committed(dedup, ScopeOf[e]) \in [Scopes -> {NoReservation} \cup Taken]
    BY <1>3, ZenonT(40) DEF Committed, TypeOK, Taken
  <2> QED
    BY <2>1, <1>1, <1>5, <1>6, <1>12, Zenon DEF CommitSuccess
<1>14. ASSUME MarkSucceeded(w) PROVE TypeOK'
  BY <1>1, <1>4, <1>6, <1>14, RowsStayRows, Zenon DEF MarkSucceeded, MayWrite, Owned
<1>15. ASSUME MarkRetryable(w) PROVE TypeOK'
  <2>2. task[w].attempt + 1 \in Nat
    BY <1>1
  <2> QED
    BY <2>2, <1>1, <1>4, <1>6, <1>15, Zenon DEF MarkRetryable, MayWrite, Owned,
       Unclaimed, Row, States, Open
<1>16. ASSUME MarkTerminal(w) PROVE TypeOK'
  BY <1>1, <1>4, <1>6, <1>16, RowsStayRows, Zenon DEF MarkTerminal, MayWrite, Owned
<1>17. ASSUME Release(w) PROVE TypeOK'
  BY <1>1, <1>5, <1>6, <1>17, Zenon DEF TypeOK, Release
<1> QED
  BY <1>8, <1>9, <1>10, <1>11, <1>12, <1>14, <1>15, <1>16, <1>17, Zenon DEF TaskStep

LEMMA LoopStepTypeOK ==
  ASSUME TypeOK, NEW w \in Workers, LoopStep(w)
  PROVE  TypeOK'
<1>1. ASSUME NEW e \in Effects, Receive(w, e)
      PROVE  TypeOK'
  BY <1>1, Zenon DEF Task, Begun, LoopRecord, Receive, TypeOK
<1>2. ASSUME ClaimDue(w)
      PROVE  TypeOK'
  <2>1. PICK S \in SUBSET Effects :
          /\ rows' = [e \in Effects |-> IF e \in S THEN Stamped(rows[e], w)
                                        ELSE rows[e]]
          /\ loop' = [loop EXCEPT ![w] = [pc |-> "reclaim",
                        batch |-> {[id |-> e, attempt |-> rows[e].attempt] :
                                   e \in S}]]
    BY <1>2, BatchesAreDue, Zenon DEF ClaimDue
  <2>3. rows' \in [Effects -> Row]
    BY <2>1, RowsStayRows, Zenon DEF TypeOK
  <2>4. loop' \in [Workers -> LoopRecord]
    BY <2>1 DEF TypeOK, LoopRecord, Row, Entry
  <2> QED
    BY <2>3, <2>4, <1>2, Zenon DEF ClaimDue, TypeOK
<1>3. ASSUME NEW r \in Batch(w), ReclaimOne(w, r)
      PROVE  TypeOK'
  <2>1. /\ loop[w] \in [pc : {"reclaim"}, batch : SUBSET Entry]
        /\ Batch(w) = loop[w].batch
        /\ r \in Entry
    BY <1>3 DEF Batch, TypeOK, LoopRecord, Selecting
  <2>2. [loop[w] EXCEPT !.batch = Batch(w) \ {r}] \in LoopRecord
    BY <2>1, Zenon DEF LoopRecord
  <2>3. [pc |-> "permit", task |-> Task("reserve", r.id, r.attempt),
         batch |-> Batch(w) \ {r}] \in LoopRecord
    BY <2>1, Zenon DEF LoopRecord, Task, Begun, Entry
  <2>4. Stamped([rows[r.id] EXCEPT !.state = "InFlight"], w) \in Row
    BY <2>1, RowsStayRows, Zenon DEF Entry
  <2>5. loop' \in [Workers -> LoopRecord]
    <3>1. Selecting \in LoopRecord
      BY Zenon DEF LoopRecord
    <3> QED
      BY <3>1, <2>2, <2>3, <1>3, Zenon DEF ReclaimOne, TypeOK
  <2> QED
    BY <2>5, <1>3, <2>4 DEF ReclaimOne, TypeOK
<1>4. ASSUME Spawn(w)
      PROVE  TypeOK'
  BY <1>4 DEF Spawn, TypeOK, LoopRecord, Selecting, Begun, TaskRecord, TaskPcs,
     LivePcs
<1> QED
  BY <1>1, <1>2, <1>3, <1>4, Zenon DEF LoopStep

LEMMA QuietTypeOK ==
  ASSUME TypeOK,
         \/ \E w \in Workers, e \in Effects : Accept(w, e) \/ LeaseExpires(w, e)
         \/ \E e \in Effects : BackoffElapses(e)
         \/ DeleteSettledRows \/ DeleteSettledKeys
         \/ \E w \in Workers : Die(w)
  PROVE  TypeOK'
<1>1. ASSUME NEW w \in Workers, NEW e \in Effects, Accept(w, e)
      PROVE  TypeOK'
  BY <1>1, RowsStayRows, Zenon DEF Accept, TypeOK
<1>2. ASSUME NEW w \in Workers, NEW e \in Effects, LeaseExpires(w, e)
      PROVE  TypeOK'
  BY RowsStayRows, <1>2, Zenon DEF LeaseExpires, TypeOK
<1>3. ASSUME NEW e \in Effects, BackoffElapses(e)
      PROVE  TypeOK'
  <2>1. rows[e] \in Row
    BY Zenon DEF TypeOK
  <2>2. [rows[e] EXCEPT !.due = TRUE] \in Row
    BY <2>1, Zenon DEF Row
  <2> QED
    BY <1>3, <2>2, Zenon DEF BackoffElapses, TypeOK
<1>4. ASSUME DeleteSettledRows
      PROVE  TypeOK'
  BY <1>4 DEF Purged, Unclaimed, Row, States, DeleteSettledRows, TypeOK
<1>5. ASSUME DeleteSettledKeys
      PROVE  TypeOK'
  BY <1>5, Zenon DEF DeleteSettledKeys, TypeOK
<1>6. ASSUME NEW w \in Workers, Die(w)
      PROVE  TypeOK'
  BY <1>6, Zenon DEF Die, TypeOK
<1> QED
  BY <1>1, <1>2, <1>3, <1>4, <1>5, <1>6, Zenon

LEMMA NextIInv ==
  ASSUME IInv, [Next]_vars
  PROVE  IInv'
<1> USE DEF IInv
<1>1. ASSUME \/ \E w \in Workers, e \in Effects : Accept(w, e) \/ LeaseExpires(w, e)
             \/ \E e \in Effects : BackoffElapses(e)
             \/ DeleteSettledRows
      PROVE  IInv'
  BY <1>1, QuietIInv, QuietTypeOK, Zenon
<1>2. ASSUME DeleteSettledKeys
      PROVE  IInv'
  BY <1>2, DeleteSettledKeysIInv, QuietTypeOK, Zenon
<1>3. ASSUME NEW w \in Workers, LoopStep(w)
      PROVE  IInv'
  BY <1>3, LoopStepTypeOK, ReceiveIInv, ClaimDueIInv, ReclaimOneIInv, SpawnIInv,
     Zenon DEF LoopStep
<1>4. ASSUME NEW w \in Workers, TaskStep(w)
      PROVE  IInv'
  <2>1. TypeOK'
    BY <1>4, TaskStepTypeOK, Zenon
  <2> QED
    BY <2>1, <1>4, MarkInFlightIInv, DedupIInv, ExecuteIInv, MarkSucceededIInv,
       MarkRetryableIInv, MarkTerminalIInv, Zenon DEF TaskStep
<1>5. ASSUME UNCHANGED <<rows, dedup, queued, loop, task, reclaimed>>
      PROVE  IInv'
  <2>1. ASSUME NEW w \in Workers, NEW e \in Effects
        PROVE  /\ Works(w, e)' <=> Works(w, e)
               /\ Waiting(w, e)' <=> Waiting(w, e)
               /\ Live(w, e)' <=> Live(w, e)
               /\ Holder(w, e)' <=> Holder(w, e)
               /\ Ahead(w)' = Ahead(w)
    BY <1>5, Zenon DEF Live, LiveTask, Waiting, Works, Ahead, Holder
  <2>2. TypeOK'
    BY <1>5, Zenon DEF TypeOK
  <2>3. BatchesAreSets' /\ NotTwice' /\ OneLive' /\ Tails' /\ OneRelease'
    <3>1. BatchesAreSets'
      BY <1>5, ZenonT(40) DEF Flights, BatchesAreSets, Ahead
    <3>2. NotTwice'
      BY <2>1, <1>5, Zenon DEF Flights, NotTwice
    <3>3. OneLive'
      BY <2>1, <1>5, Zenon DEF Flights, OneLive
    <3>4. Tails'
      BY <2>1, <1>5, Zenon DEF Flights, Tails
    <3>5. OneRelease'
      BY <2>1, <1>5, Zenon DEF Flights, OneRelease
    <3> QED
      BY <3>1, <3>2, <3>3, <3>4, <3>5, Zenon
  <2> QED
    BY <2>1, <2>2, <2>3, <1>5, HoldersStay, Zenon DEF Flights
<1>6. ASSUME NEW w \in Workers, Die(w)
      PROVE  IInv'
  BY <1>5, <1>6, Zenon DEF Die
<1>7. ASSUME UNCHANGED vars
      PROVE  IInv'
  BY <1>5, <1>7, Zenon DEF vars
<1> QED
  BY <1>1, <1>2, <1>3, <1>4, <1>6, <1>7, Zenon DEF Next

(* Live attempts are unique per effect and hold the reservation of their   *)
(* key, in every reachable state.                                          *)
THEOREM LeaseInvariant == Spec => []IInv
BY InitIInv, NextIInv, PTL DEF Spec

-----------------------------------------------------------------------------

(* A row whose backoff runs is claimed by nobody: mark_retryable clears    *)
(* the claim, and claim_due leaves the row alone until it is due.          *)
BackoffUnclaimed ==
  \A e \in Effects :
    rows[e].state \in Open /\ ~rows[e].due => rows[e].owner = None

(* What a step may do to a row: leave it, file it, let time pass, delete   *)
(* it once settled; or a process claims, marks or settles it, as far as    *)
(* the claim of the row lets it.                                           *)
RowStep(e) ==
  LET row == rows[e]
      new == rows'[e] IN
  \/ new = row
  \/ row = Unknown /\ new = Unclaimed("Pending", 0, TRUE)
  \/ row.state = "RetryableFailed" /\ ~row.due /\ new = [row EXCEPT !.due = TRUE]
  \/ \E v \in Workers : LeaseExpires(v, e)
  \/ row.state \in Settled /\ new = Purged
  \/ \E w \in Workers :
       /\ StepOf(w)
       /\ \/ Claimable(w, row) /\ new = Stamped(row, w)
          \/ Markable(w, row) /\ new = Stamped([row EXCEPT !.state = "InFlight"], w)
          \/ /\ Owned(w, row)
             /\ \/ new.state \notin Open
                \/ new.owner = None

LEMMA TaskStepIsAStep ==
  ASSUME TypeOK, NEW w \in Workers, task[w].pc # "free", NEW pc, pc # task[w].pc,
         Goto(w, pc)
  PROVE  StepOf(w)
<1>1. task[w] \in TaskRecord
  BY Shapes, Zenon
<1>2. task'[w].pc = pc
  BY <1>1 DEF Goto, TypeOK, Free, TaskRecord
<1> QED
  BY <1>2, Zenon DEF StepOf

LEMMA WriteRowIsARowStep ==
  ASSUME TypeOK, NEW w \in Workers, task[w].pc # "free", NEW may, NEW row,
         NEW onOk, NEW onErr, onOk # task[w].pc, onErr # task[w].pc,
         WriteRow(w, may, row, onOk, onErr), NEW e \in Effects
  PROVE  \/ rows'[e] = rows[e]
         \/ StepOf(w) /\ may /\ e = task[w].id /\ rows'[e] = row
<1>1. StepOf(w)
  BY TaskStepIsAStep, Zenon DEF WriteRow
<1>2. rows' = rows \/ (may /\ rows' = [rows EXCEPT ![task[w].id] = row])
  BY Zenon DEF WriteRow
<1> QED
  BY <1>1, <1>2, Zenon DEF TypeOK

(* A settling write passes the owner check, and leaves the row closed or   *)
(* unclaimed.                                                              *)
LEMMA SettlingWrite ==
  ASSUME TypeOK, NEW w \in Workers, task[w].pc # "free", NEW from, NEW row,
         NEW onOk, NEW onErr, onOk # task[w].pc, onErr # task[w].pc,
         WriteRow(w, MayWrite(w, from), row, onOk, onErr), NEW e \in Effects,
         row.state \notin Open \/ row.owner = None
  PROVE  RowStep(e)
<1>1. \/ rows'[e] = rows[e]
      \/ StepOf(w) /\ MayWrite(w, from) /\ e = task[w].id /\ rows'[e] = row
  BY WriteRowIsARowStep, Zenon
<1> QED
  BY <1>1, Zenon DEF RowStep, MayWrite

LEMMA EveryRowStep ==
  ASSUME TypeOK, [Next]_vars, NEW e \in Effects
  PROVE  RowStep(e)
<1>0. ASSUME rows'[e] = rows[e]
      PROVE  RowStep(e)
  BY <1>0, Zenon DEF RowStep
<1>1. ASSUME NEW w \in Workers, NEW f \in Effects, Accept(w, f)
      PROVE  RowStep(e)
  BY <1>1, Zenon DEF Accept, RowStep, TypeOK
<1>2. ASSUME NEW w \in Workers, NEW f \in Effects, LeaseExpires(w, f)
      PROVE  RowStep(e)
  <2>1. CASE f = e
    BY <1>2, <2>1, Zenon DEF RowStep
  <2>2. CASE f # e
    BY <1>0, <1>2, <2>2, Zenon DEF LeaseExpires, TypeOK
  <2> QED
    BY <2>1, <2>2, Zenon
<1>3. ASSUME NEW f \in Effects, BackoffElapses(f)
      PROVE  RowStep(e)
  BY <1>3, Zenon DEF RowStep, BackoffElapses, TypeOK
<1>4. ASSUME DeleteSettledRows
      PROVE  RowStep(e)
  BY <1>4, Zenon DEF RowStep, DeleteSettledRows
<1>5. ASSUME NEW w \in Workers, ClaimDue(w)
      PROVE  RowStep(e)
  <2>1. PICK S \in Batches({f \in Effects : Claimable(w, rows[f])}, ReclaimBatchLimit) :
          /\ rows' = [f \in Effects |-> IF f \in S THEN Stamped(rows[f], w)
                                        ELSE rows[f]]
          /\ loop' = [loop EXCEPT ![w] = [pc |-> "reclaim",
                        batch |-> {[id |-> f, attempt |-> rows[f].attempt] : f \in S}]]
    BY <1>5, Zenon DEF ClaimDue
  <2>2. loop[w].pc = "select"
    BY <1>5 DEF ClaimDue, Selecting
  <2>3. loop'[w].pc = "reclaim"
    BY <2>1, Zenon DEF TypeOK
  <2>4. StepOf(w)
    BY <2>2, <2>3, Zenon DEF StepOf
  <2>5. e \in S => Claimable(w, rows[e])
    BY <2>1, BatchesAreDue, Zenon
  <2> QED
    BY <2>1, <2>4, <2>5, Zenon DEF RowStep
<1>6. ASSUME NEW w \in Workers, NEW r \in Batch(w), ReclaimOne(w, r)
      PROVE  RowStep(e)
  <2>1. \/ rows' = rows
        \/ /\ Markable(w, rows[r.id])
           /\ rows' = [rows EXCEPT ![r.id] =
                         Stamped([rows[r.id] EXCEPT !.state = "InFlight"], w)]
    BY <1>6, Zenon DEF ReclaimOne
  <2>2. loop[w].pc = "reclaim" /\ loop[w].batch = Batch(w)
    BY Zenon DEF Batch
  <2>3. StepOf(w)
    <3>1. \/ loop'[w] = [pc |-> "permit", task |-> Task("reserve", r.id, r.attempt),
                         batch |-> Batch(w) \ {r}]
          \/ loop'[w] = IF Batch(w) \ {r} = {} THEN Selecting
                        ELSE [loop[w] EXCEPT !.batch = Batch(w) \ {r}]
      BY <1>6, Zenon DEF ReclaimOne, TypeOK
    <3>2. Selecting.pc # "reclaim"
      BY Zenon DEF Selecting
    <3>3. [loop[w] EXCEPT !.batch = Batch(w) \ {r}] # loop[w]
      <4>1. loop[w] \in [pc : {"reclaim"}, batch : SUBSET Entry]
        BY <2>2 DEF TypeOK, LoopRecord, Selecting
      <4>2. [loop[w] EXCEPT !.batch = Batch(w) \ {r}].batch = Batch(w) \ {r}
        BY <4>1, Zenon
      <4> QED
        BY <2>2, <4>2, Zenon
    <3> QED
      BY <3>1, <3>2, <3>3, <2>2 DEF StepOf
  <2> QED
    BY <2>1, <2>3, Zenon DEF RowStep, TypeOK
<1>7. ASSUME NEW w \in Workers, MarkInFlight(w)
      PROVE  RowStep(e)
  <2>1. \/ rows'[e] = rows[e]
        \/ /\ StepOf(w) /\ Markable(w, rows[e])
           /\ rows'[e] = Stamped([rows[e] EXCEPT !.state = "InFlight"], w)
    BY <1>7, WriteRowIsARowStep DEF MarkInFlight, At
  <2> QED
    BY <2>1, Zenon DEF RowStep
<1>8. ASSUME NEW w \in Workers, MarkSucceeded(w) \/ MarkRetryable(w) \/ MarkTerminal(w)
      PROVE  RowStep(e)
  <2>1. task[w].pc # "free" /\ task[w].id \in Effects
    BY <1>8, Shapes DEF MarkSucceeded, MarkRetryable, MarkTerminal, At, TaskRecord
  <2>2. rows[task[w].id] \in Row
    BY <2>1, Zenon DEF TypeOK
  <2>3. ASSUME NEW st \in Settled
        PROVE  [rows[task[w].id] EXCEPT !.state = st].state \notin Open
    BY <2>2, <2>3 DEF Row, Open, Settled
  <2>4. \A n, due : Unclaimed("RetryableFailed", n, due).owner = None
    BY Zenon DEF Unclaimed
  <2>5. "Succeeded" \in Settled /\ "TerminalFailed" \in Settled
    BY Zenon DEF Settled
  <2>6. CASE MarkSucceeded(w)
    <3>1. CASE At(w, "succeed") /\ WriteRow(w, MayWrite(w, {"InFlight"}),
                 [rows[task[w].id] EXCEPT !.state = "Succeeded"], "free", "unconfirmed")
      BY <2>1, <2>3, <2>5, <3>1, SettlingWrite, Zenon DEF At
    <3>2. CASE At(w, "satisfied") /\ WriteRow(w, MayWrite(w, {"InFlight"}),
                 [rows[task[w].id] EXCEPT !.state = "Succeeded"], "free", "free")
      BY <2>1, <2>3, <2>5, <3>2, SettlingWrite, Zenon DEF At
    <3> QED
      BY <2>6, <3>1, <3>2, Zenon DEF MarkSucceeded
  <2>7. CASE MarkTerminal(w)
    <3>1. CASE At(w, "abandon") /\ WriteRow(w, MayWrite(w, {"InFlight", "RetryableFailed"}),
                 [rows[task[w].id] EXCEPT !.state = "TerminalFailed"], "free", "free")
      BY <2>1, <2>3, <2>5, <3>1, SettlingWrite, Zenon DEF At
    <3>2. CASE At(w, "giveup") /\ WriteRow(w, MayWrite(w, {"InFlight", "RetryableFailed"}),
                 [rows[task[w].id] EXCEPT !.state = "TerminalFailed"], "release", "free")
      BY <2>1, <2>3, <2>5, <3>2, SettlingWrite, Zenon DEF At
    <3> QED
      BY <2>7, <3>1, <3>2, Zenon DEF MarkTerminal
  <2>8. CASE MarkRetryable(w)
    <3>1. CASE At(w, "unconfirmed") /\ WriteRow(w, MayWrite(w, {"InFlight"}),
                 Unclaimed("RetryableFailed", task[w].attempt + 1, FALSE), "free", "free")
      BY <2>1, <2>4, <3>1, SettlingWrite, Zenon DEF At
    <3>2. CASE At(w, "retry") /\ WriteRow(w, MayWrite(w, {"InFlight"}),
                 Unclaimed("RetryableFailed", task[w].attempt + 1, FALSE), "free", "giveup")
      BY <2>1, <2>4, <3>2, SettlingWrite, Zenon DEF At
    <3>3. CASE At(w, "requeue") /\ WriteRow(w, MayWrite(w, {"InFlight"}),
                 Unclaimed("RetryableFailed", task[w].attempt, TRUE), "free", "free")
      BY <2>1, <2>4, <3>3, SettlingWrite, Zenon DEF At
    <3> QED
      BY <2>8, <3>1, <3>2, <3>3, Zenon DEF MarkRetryable
  <2> QED
    BY <1>8, <2>6, <2>7, <2>8, Zenon
<1>9. ASSUME UNCHANGED rows
      PROVE  RowStep(e)
  BY <1>0, <1>9, Zenon
<1>10. ASSUME \/ DeleteSettledKeys \/ UNCHANGED vars
              \/ \E w \in Workers :
                   \/ Die(w) \/ Spawn(w) \/ Reserve(w) \/ LookUpReservation(w)
                   \/ Execute(w) \/ CommitSuccess(w) \/ Release(w)
                   \/ \E f \in Effects : Receive(w, f)
       PROVE  RowStep(e)
  BY <1>9, <1>10, Zenon DEF DeleteSettledKeys, vars, Die, Spawn, Reserve,
     LookUpReservation, Execute, CommitSuccess, Release, Receive, WriteDedup
<1> QED
  BY <1>1, <1>2, <1>3, <1>4, <1>5, <1>6, <1>7, <1>8, <1>10, Zenon DEF Next,
     LoopStep, TaskStep

LEMMA BackoffStaysUnclaimed ==
  ASSUME TypeOK, BackoffUnclaimed, [Next]_vars
  PROVE  BackoffUnclaimed'
<1>1. ASSUME NEW e \in Effects, rows'[e].state \in Open, ~rows'[e].due
      PROVE  rows'[e].owner = None
  <2>1. RowStep(e)
    BY EveryRowStep, Zenon
  <2>2. rows[e] \in Row
    BY Zenon DEF TypeOK
  <2>3. ASSUME NEW v \in Workers, LeaseExpires(v, e)
        PROVE  rows'[e].owner = None
    BY <1>1, <2>2, <2>3 DEF LeaseExpires, BackoffUnclaimed, TypeOK, Row
  <2>4. CASE rows'[e] = rows[e]
    BY <1>1, <2>4, Zenon DEF BackoffUnclaimed
  <2>5. Unclaimed("Pending", 0, TRUE).due /\ Purged.owner = None
    BY Zenon DEF Unclaimed, Purged
  <2>6. [rows[e] EXCEPT !.due = TRUE].due
    BY <2>2, Zenon DEF Row
  <2>7. ASSUME NEW w \in Workers
        PROVE  /\ Stamped(rows[e], w).state = rows[e].state
               /\ Stamped(rows[e], w).due = rows[e].due
               /\ Stamped([rows[e] EXCEPT !.state = "InFlight"], w).state \notin Open
    BY <2>2 DEF Stamped, Row, Open
  <2>8. ASSUME NEW w \in Workers, Claimable(w, rows[e]), rows'[e] = Stamped(rows[e], w)
        PROVE  rows'[e].owner = None
    BY <1>1, <2>7, <2>8 DEF Claimable, Open
  <2> QED
    BY <1>1, <2>1, <2>3, <2>4, <2>5, <2>6, <2>7, <2>8, Zenon DEF RowStep
<1> QED
  BY <1>1, Zenon DEF BackoffUnclaimed

(* While a lease has not run out on any clock, claim_due, mark_in_flight   *)
(* and the settling writes of other processes leave the row alone, for     *)
(* every number of processes, effects, failures and deaths.                *)
THEOREM ValidLeaseIsExclusive == Spec => LeaseIsExclusive
<1>1. Init => BackoffUnclaimed
  BY DEF Init, BackoffUnclaimed, Unknown, Unclaimed
<1>2. ASSUME TypeOK, BackoffUnclaimed, [Next]_vars,
             NEW w \in Workers, NEW e \in Effects,
             rows[e].owner = w, rows[e].expired = {}, rows[e].state \notin Settled,
             rows'[e] # rows[e]
      PROVE  StepOf(w) \/ \E v \in Workers : LeaseExpires(v, e)
  <2>1. RowStep(e)
    BY <1>2, EveryRowStep, Zenon
  <2>2. w # None
    BY LeaseShapeAssumption, Zenon
  <2>3. rows[e] # Unknown
    BY <1>2, <2>2 DEF Unknown, Unclaimed
  <2>4. ~(rows[e].state = "RetryableFailed" /\ ~rows[e].due)
    BY <1>2, <2>2, Zenon DEF BackoffUnclaimed, Open
  <2>5. ASSUME NEW v \in Workers,
               \/ Claimable(v, rows[e]) \/ Markable(v, rows[e]) \/ Owned(v, rows[e])
        PROVE  v = w
    BY <1>2, <2>2, <2>5, Zenon DEF Claimable, Markable, Owned
  <2> QED
    BY <1>2, <2>1, <2>3, <2>4, <2>5, Zenon DEF RowStep
<1>3. IInv => TypeOK
  BY Zenon DEF IInv
<1>4. Spec => []BackoffUnclaimed
  BY <1>1, <1>3, BackoffStaysUnclaimed, LeaseInvariant, PTL DEF Spec
<1>5. ASSUME TypeOK, BackoffUnclaimed, [Next]_vars
      PROVE  [\A w \in Workers, e \in Effects :
                /\ rows[e].owner = w /\ rows[e].expired = {}
                /\ rows[e].state \notin Settled
                /\ rows'[e] # rows[e]
                => StepOf(w) \/ \E v \in Workers : LeaseExpires(v, e)]_vars
  BY <1>2, <1>5, Zenon
<1> QED
  BY <1>3, <1>4, <1>5, LeaseInvariant, PTL DEF Spec, LeaseIsExclusive

(* mark_terminal and release, commit_success and reserve never undo a      *)
(* recorded success of a fenced key.                                       *)
LEMMA ConfirmedStays ==
  ASSUME IInv, [Next]_vars, ~DeleteSettledKeys, NEW s \in Scopes, Fenced(s),
         Confirmed(s)
  PROVE  Confirmed(s)'
<1>2. ASSUME dedup'[s] = dedup[s]
      PROVE  Confirmed(s)'
  BY <1>2, Zenon DEF Confirmed
<1>3. ASSUME NEW w \in Workers, Reserve(w) \/ LookUpReservation(w) \/ CommitSuccess(w)
      PROVE  Confirmed(s)'
  <2>1. PICK e : /\ e = task[w].id
                 /\ dedup' \in {dedup, Reserved(dedup, e), Committed(dedup, ScopeOf[e])}
    BY <1>3, Zenon DEF Reserve, LookUpReservation, CommitSuccess, WriteDedup
  <2>2. CASE dedup' = Reserved(dedup, e)
    BY <1>2, <2>2, Zenon DEF Reserved, Confirmed, IInv, TypeOK
  <2>3. CASE dedup' = Committed(dedup, ScopeOf[e])
    <3>1. CASE s = ScopeOf[e]
      <4>2. dedup'[s] = dedup[s]
        BY <3>1, <2>3, Zenon DEF Taken, Confirmed, IInv, TypeOK, Committed
      <4> QED
        BY <4>2, <1>2, Zenon
    <3>2. CASE s # ScopeOf[e]
      BY <3>2, <2>3, <1>2, Zenon DEF Committed, IInv, TypeOK
    <3> QED
      BY <3>1, <3>2, Zenon
  <2> QED
    BY <2>1, <2>2, <2>3, <1>2, Zenon
<1>4. ASSUME NEW w \in Workers, Release(w)
      PROVE  Confirmed(s)'
  <2>1. PICK e \in Effects : e = task[w].id /\ task[w].pc = "release"
    BY <1>4, Shapes, Zenon DEF Release, At, IInv, TaskRecord
  <2>2. s # ScopeOf[e]
    <3>3. Reservation(e).succeeded = FALSE
      BY Zenon DEF Reservation
    <3> QED
      BY <3>3, <2>1, Zenon DEF Confirmed, IInv, TypeOK, Taken, HoldersHold, Holder,
         Works
  <2> QED
    BY <2>2, <1>2, <1>4, <2>1, Zenon DEF IInv, TypeOK, Release, WriteDedup
<1>5. ASSUME NEW w \in Workers,
             MarkInFlight(w) \/ MarkSucceeded(w) \/ MarkRetryable(w) \/ MarkTerminal(w)
      PROVE  Confirmed(s)'
  BY <1>2, <1>5, Zenon DEF MarkInFlight, MarkSucceeded, MarkRetryable, MarkTerminal,
     WriteRow
<1>6. ASSUME NEW w \in Workers, Execute(w) \/ LoopStep(w) \/ Die(w)
      PROVE  Confirmed(s)'
  BY <1>2, <1>6, Zenon DEF Execute, LoopStep, Receive, ClaimDue, ReclaimOne, Spawn,
     Die
<1>7. ASSUME \/ \E w \in Workers, e \in Effects : Accept(w, e) \/ LeaseExpires(w, e)
             \/ \E e \in Effects : BackoffElapses(e)
             \/ DeleteSettledRows
             \/ UNCHANGED vars
      PROVE  Confirmed(s)'
  BY <1>2, <1>7, Zenon DEF Accept, LeaseExpires, BackoffElapses, DeleteSettledRows,
     vars
<1> QED
  BY <1>3, <1>4, <1>5, <1>6, <1>7, Zenon DEF Next, TaskStep

(* Once commit_success recorded a delivery, only retention removes the     *)
(* record of a fenced key.                                                 *)
THEOREM FencedSuccess == Spec => SuccessIsNeverForgotten
<1>1. ASSUME IInv, [Next]_vars
      PROVE  [~DeleteSettledKeys =>
                \A s \in Scopes : Fenced(s) /\ Confirmed(s) => Confirmed(s)']_vars
  BY <1>1, ConfirmedStays, Zenon
<1> QED
  BY <1>1, LeaseInvariant, PTL DEF Spec, SuccessIsNeverForgotten
=============================================================================
