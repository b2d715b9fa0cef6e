---------------------------- MODULE LeasedEffects ----------------------------
(***************************************************************************)
(* Several processes deliver effects from one PostgreSQL effect store      *)
(* (crates/effect-store/src/postgres/mod.rs under the runner of            *)
(* crates/runtime/src/effects/runner.rs).                                  *)
(*                                                                         *)
(* A row carries a claim: the worker that holds it and when it expires.    *)
(* Time is abstracted: row.expired is the set of workers whose clock, or   *)
(* whose sample of it, is past claim_expires_at.  It grows one worker at a *)
(* time and in any order, so clocks drift freely, and empties whenever a   *)
(* statement stamps the claim again.  A worker id is drawn per process     *)
(* start, so a process that died never comes back under its id.  Every     *)
(* statement is one atomic step.  A worker has one permit, as the runtime  *)
(* starts it.                                                              *)
(***************************************************************************)
EXTENDS EffectPort

CONSTANTS
  Workers,      \* processes, by worker_id
  Earlier,      \* effects that were settled before the behaviour starts
  None,         \* a NULL claim_owner
  MaxAttempts,  \* RetryPolicy.max_attempts
  ReclaimBatchLimit, \* RECLAIM_BATCH_LIMIT
  Settings,     \* which of slow work, retention and failing calls to explore
  MaxFaults     \* bound on store calls that fail for good

ASSUME LeaseShapeAssumption ==
  /\ None \notin Workers
  /\ Earlier \subseteq Effects
  /\ MaxAttempts \in Nat
  /\ ReclaimBatchLimit \in Nat \ {0}
  /\ Settings \subseteq [slow : BOOLEAN, retention : BOOLEAN, faulty : BOOLEAN]
  /\ MaxFaults \in Nat

VARIABLES
  rows,      \* table effect_state
  dedup,     \* table effect_dedup
  queued,    \* per worker: effects it accepted and has not received yet
  loop,      \* per worker: where its drain loop is
  task,      \* per worker: the dispatch task that holds its permit
  alive,     \* workers that have not died
  faults,
  setting,   \* whether leases may run out while their holder is at work,
             \* a retention worker runs, and store calls may fail
  reclaimed  \* history: effects a process claimed while an attempt of its
             \* own on them was still running

vars == <<rows, dedup, queued, loop, task, alive, faults, setting, reclaimed>>

Unclaimed(state, attempt, due) ==
  [state |-> state, attempt |-> attempt, due |-> due,
   owner |-> None, expired |-> {}]
Unknown == Unclaimed("Unknown", 0, FALSE)

Selecting == [pc |-> "select"]
Free == [pc |-> "free"]
Task(pc, e, attempt) == [pc |-> pc, id |-> e, attempt |-> attempt]

(* Earlier effects succeeded, or were given up and the release of their    *)
(* key was lost.                                                           *)
Init ==
  /\ \E ok \in BOOLEAN, past \in {{}, Earlier} :
       /\ rows = [e \in Effects |->
            IF e \notin past THEN Unknown
            ELSE Unclaimed(IF ok THEN "Succeeded" ELSE "TerminalFailed",
                           0, FALSE)]
       /\ dedup = [s \in Scopes |->
            IF \A e \in past : ScopeOf[e] # s THEN NoReservation
            ELSE [Reservation(CHOOSE e \in past : ScopeOf[e] = s)
                    EXCEPT !.succeeded = ok]]
  /\ queued = [w \in Workers |-> {}]
  /\ loop = [w \in Workers |-> Selecting]
  /\ task = [w \in Workers |-> Free]
  /\ alive = Workers
  /\ faults = 0
  /\ setting \in Settings
  /\ reclaimed = {}

(* A store call fails for good.                                            *)
Fails ==
  /\ setting.faulty
  /\ faults < MaxFaults
  /\ faults' = faults + 1

-----------------------------------------------------------------------------
(* The statements' WHERE and SET clauses                                   *)

Stamped(row, w) == [row EXCEPT !.owner = w, !.expired = {}]

(* claim_due: due rows nobody claims, due rows whose claim ran out, and    *)
(* rows in flight whose claim ran out.  In the mutated form a claim never  *)
(* runs out.                                                               *)
ClaimableOnce(w, row) == row.state \in Open /\ row.due /\ row.owner = None
Claimable(w, row) ==
  \/ /\ row.state \in Open
     /\ row.due
     /\ row.owner = None \/ w \in row.expired
  \/ row.state = "InFlight" /\ w \in row.expired

(* mark_in_flight.  The mutated form does not ask who claims the row.      *)
MarkableByAnyone(w, row) == row.state \in Open /\ w \notin row.expired
Markable(w, row) ==
  /\ row.state \in Open
  /\ row.owner \in {None, w}
  /\ w \notin row.expired

(* mark_succeeded, mark_retryable and mark_terminal                        *)
Owned(w, row) == row.owner = w /\ w \notin row.expired

-----------------------------------------------------------------------------
(* Intake and the drain loop                                               *)

(* The INSERT of an accepted effect.  When its answer is an error the      *)
(* caller is told so and nothing is queued, though the row may be there.   *)
Accept(w, e) ==
  /\ w \in alive
  /\ e \notin Earlier
  /\ rows[e] = Unknown
  /\ rows' = [rows EXCEPT ![e] = Unclaimed("Pending", 0, TRUE)]
  /\ \/ queued' = [queued EXCEPT ![w] = @ \cup {e}] /\ UNCHANGED faults
     \/ Fails /\ UNCHANGED queued
  /\ UNCHANGED <<dedup, loop, task, alive, setting, reclaimed>>

Receive(w, e) ==
  /\ w \in alive
  /\ loop[w] = Selecting
  /\ e \in queued[w]
  /\ queued' = [queued EXCEPT ![w] = @ \ {e}]
  /\ loop' = [loop EXCEPT ![w] = [pc |-> "permit", task |-> Task("mark", e, 0),
                                  batch |-> {}]]
  /\ UNCHANGED <<rows, dedup, task, alive, faults, setting, reclaimed>>

(* claim_due stamps the rows it returns and leaves their state alone.      *)
ClaimDue(w) ==
  LET due == {e \in Effects : Claimable(w, rows[e])} IN
  /\ w \in alive
  /\ loop[w] = Selecting
  /\ \E S \in Batches(due, ReclaimBatchLimit) :
       /\ rows' = [e \in Effects |-> IF e \in S THEN Stamped(rows[e], w)
                                     ELSE rows[e]]
       /\ loop' = [loop EXCEPT ![w] = [pc |-> "reclaim",
                     batch |-> {[id |-> e, attempt |-> rows[e].attempt] :
                                e \in S}]]
       /\ reclaimed' = reclaimed \cup {e \in S : task[w] # Free /\ task[w].id = e}
  /\ UNCHANGED <<dedup, queued, task, alive, faults, setting>>

Batch(w) == IF loop[w].pc = "reclaim" THEN loop[w].batch ELSE {}

(* reclaim_due marks the next row of the batch and waits for the permit; a *)
(* refused or failed mark skips the row.                                   *)
ReclaimOne(w, r) ==
  LET rest == Batch(w) \ {r}
      row == rows[r.id]
      marked == [rows EXCEPT ![r.id] =
                   Stamped([row EXCEPT !.state = "InFlight"], w)]
      skip == IF rest = {} THEN Selecting
              ELSE [loop[w] EXCEPT !.batch = rest] IN
  /\ w \in alive
  /\ \/ /\ Markable(w, row)
        /\ rows' = marked
        /\ loop' = [loop EXCEPT ![w] =
             [pc |-> "permit", task |-> Task("reserve", r.id, r.attempt),
              batch |-> rest]]
        /\ UNCHANGED faults
     \/ /\ ~Markable(w, row)
        /\ loop' = [loop EXCEPT ![w] = skip]
        /\ UNCHANGED <<rows, faults>>
     \/ /\ Fails
        /\ rows' \in {rows, IF Markable(w, row) THEN marked ELSE rows}
        /\ loop' = [loop EXCEPT ![w] = skip]
  /\ UNCHANGED <<dedup, queued, task, alive, setting, reclaimed>>

Spawn(w) ==
  /\ w \in alive
  /\ loop[w].pc = "permit"
  /\ task[w] = Free
  /\ task' = [task EXCEPT ![w] = loop[w].task]
  /\ loop' = [loop EXCEPT ![w] =
       IF loop[w].batch = {} THEN Selecting
       ELSE [pc |-> "reclaim", batch |-> loop[w].batch]]
  /\ UNCHANGED <<rows, dedup, queued, alive, faults, setting, reclaimed>>

-----------------------------------------------------------------------------
(* A dispatch task                                                         *)

Goto(w, pc) ==
  task' = [task EXCEPT ![w] = IF pc = "free" THEN Free
                              ELSE [@ EXCEPT !.pc = pc]]

At(w, pc) == w \in alive /\ task[w].pc = pc

(* A conditional write of the task's row.                                  *)
WriteRow(w, may, row, onOk, onErr) ==
  LET e == task[w].id
      written == IF may THEN [rows EXCEPT ![e] = row] ELSE rows IN
  /\ \/ /\ rows' = written
        /\ Goto(w, IF may THEN onOk ELSE onErr)
        /\ UNCHANGED faults
     \/ /\ Fails
        /\ rows' \in {rows, written}
        /\ Goto(w, onErr)
  /\ UNCHANGED <<dedup, queued, loop, alive, setting, reclaimed>>

MarkInFlight(w) ==
  LET row == rows[task[w].id] IN
  /\ At(w, "mark")
  /\ WriteRow(w, Markable(w, row),
              Stamped([row EXCEPT !.state = "InFlight"], w),
              "reserve", "free")

(* A write of the dedup table.                                             *)
WriteDedup(w, table, onOk, onErr) ==
  /\ \/ dedup' = table /\ Goto(w, onOk) /\ UNCHANGED faults
     \/ /\ Fails
        /\ dedup' \in {dedup, table}
        /\ Goto(w, onErr)
  /\ UNCHANGED <<rows, queued, loop, alive, setting, reclaimed>>

(* reserve: an INSERT that does nothing when the scope is taken, and then  *)
(* a SELECT.  A row that is gone by then is an error the task may retry.   *)
Reserve(w) ==
  LET e == task[w].id
      reserved == Reserved(dedup, e) IN
  /\ At(w, "reserve")
  /\ WriteDedup(w, reserved,
                IF reserved = dedup THEN "look" ELSE Answer(e, NoReservation),
                "abandon")

LookUpReservation(w) ==
  LET e == task[w].id
      found == dedup[ScopeOf[e]] IN
  /\ At(w, "look")
  /\ \E pc \in IF found = NoReservation THEN {"reserve", "abandon"}
              ELSE {Answer(e, found)} : WriteDedup(w, dedup, pc, "abandon")

Execute(w) ==
  /\ At(w, "execute")
  /\ \/ Goto(w, "commit")
     \/ task[w].attempt < MaxAttempts /\ Goto(w, "retry")
     \/ Goto(w, "giveup")
  /\ UNCHANGED <<rows, dedup, queued, loop, alive, faults, setting, reclaimed>>

CommitSuccess(w) ==
  /\ At(w, "commit")
  /\ WriteDedup(w, Committed(dedup, ScopeOf[task[w].id]),
                "succeed", "unconfirmed")

(* The state the row must have, and the claim.                             *)
MayWrite(w, from) ==
  LET row == rows[task[w].id] IN row.state \in from /\ Owned(w, row)

MarkSucceeded(w) ==
  LET row == [rows[task[w].id] EXCEPT !.state = "Succeeded"] IN
  \/ /\ At(w, "succeed")
     /\ WriteRow(w, MayWrite(w, {"InFlight"}), row, "free", "unconfirmed")
  \/ /\ At(w, "satisfied")
     /\ WriteRow(w, MayWrite(w, {"InFlight"}), row, "free", "free")

MarkRetryable(w) ==
  LET again(n, due) == Unclaimed("RetryableFailed", n, due) IN
  \/ /\ At(w, "unconfirmed")
     /\ WriteRow(w, MayWrite(w, {"InFlight"}),
                 again(task[w].attempt + 1, FALSE), "free", "free")
  \/ /\ At(w, "retry")
     /\ WriteRow(w, MayWrite(w, {"InFlight"}),
                 again(task[w].attempt + 1, FALSE), "free", "giveup")
  \/ /\ At(w, "requeue")
     /\ WriteRow(w, MayWrite(w, {"InFlight"}),
                 again(task[w].attempt, TRUE), "free", "free")

(* The key is released only when the terminal write was accepted.  In the  *)
(* mutated form it is released anyway.                                     *)
MarkTerminalUngated(w) ==
  LET row == [rows[task[w].id] EXCEPT !.state = "TerminalFailed"] IN
  /\ At(w, "giveup")
  /\ WriteRow(w, MayWrite(w, {"InFlight", "RetryableFailed"}), row,
              "release", "release")

MarkTerminal(w) ==
  LET row == [rows[task[w].id] EXCEPT !.state = "TerminalFailed"] IN
  \/ /\ At(w, "abandon")
     /\ WriteRow(w, MayWrite(w, {"InFlight", "RetryableFailed"}), row,
                 "free", "free")
  \/ /\ At(w, "giveup")
     /\ WriteRow(w, MayWrite(w, {"InFlight", "RetryableFailed"}), row,
                 "release", "free")

Release(w) ==
  /\ At(w, "release")
  /\ WriteDedup(w, [dedup EXCEPT ![ScopeOf[task[w].id]] = NoReservation],
                "free", "free")

TaskStep(w) ==
  \/ MarkInFlight(w) \/ Reserve(w) \/ LookUpReservation(w) \/ Execute(w)
  \/ CommitSuccess(w)
  \/ MarkSucceeded(w) \/ MarkRetryable(w) \/ MarkTerminal(w) \/ Release(w)

-----------------------------------------------------------------------------
(* run_retention: one DELETE per table, of rows settled long enough ago.   *)
(* The worker may run in any process.                                      *)

Purged == Unclaimed("Purged", 0, FALSE)

DeleteSettledRows ==
  /\ setting.retention
  /\ \E S \in SUBSET {e \in Effects : rows[e].state \in Settled} \ {{}} :
       rows' = [e \in Effects |-> IF e \in S THEN Purged ELSE rows[e]]
  /\ UNCHANGED <<dedup, queued, loop, task, alive, faults, setting, reclaimed>>

Confirmed(s) == dedup[s] # NoReservation /\ dedup[s].succeeded

DeleteSettledKeys ==
  /\ setting.retention
  /\ \E S \in SUBSET {s \in Scopes : Confirmed(s)} \ {{}} :
       dedup' = [s \in Scopes |-> IF s \in S THEN NoReservation ELSE dedup[s]]
  /\ UNCHANGED <<rows, queued, loop, task, alive, faults, setting, reclaimed>>

-----------------------------------------------------------------------------
(* Time and deaths                                                         *)

BackoffElapses(e) ==
  /\ rows[e].state = "RetryableFailed"
  /\ ~rows[e].due
  /\ rows' = [rows EXCEPT ![e].due = TRUE]
  /\ UNCHANGED <<dedup, queued, loop, task, alive, faults, setting, reclaimed>>

(* Worker w has the effect in its batch, at the permit or in its task.     *)
Holds(w, e) ==
  /\ w \in alive
  /\ \/ \E r \in Batch(w) : r.id = e
     \/ loop[w].pc = "permit"
        /\ e \in {loop[w].task.id} \cup {r.id : r \in loop[w].batch}
     \/ task[w] # Free /\ task[w].id = e

(* No statement looks at the claim of a settled row.                       *)
LeaseExpires(w, e) ==
  /\ rows[e].owner # None
  /\ rows[e].state \notin Settled
  /\ w \notin rows[e].expired
  /\ setting.slow \/ ~Holds(rows[e].owner, e)
  /\ rows' = [rows EXCEPT ![e].expired = @ \cup {w}]
  /\ UNCHANGED <<dedup, queued, loop, task, alive, faults, setting, reclaimed>>

(* Any process may die, save the last: somebody has to recover its work.   *)
Die(w) ==
  /\ w \in alive
  /\ alive # {w}
  /\ alive' = alive \ {w}
  /\ UNCHANGED <<rows, dedup, queued, loop, task, faults, setting, reclaimed>>

LoopStep(w) ==
  \/ \E e \in Effects : Receive(w, e)
  \/ ClaimDue(w)
  \/ \E r \in Batch(w) : ReclaimOne(w, r)
  \/ Spawn(w)

Next ==
  \/ \E w \in Workers, e \in Effects : Accept(w, e) \/ LeaseExpires(w, e)
  \/ \E e \in Effects : BackoffElapses(e)
  \/ DeleteSettledRows \/ DeleteSettledKeys
  \/ \E w \in Workers : LoopStep(w) \/ TaskStep(w) \/ Die(w)

Spec == Init /\ [][Next]_vars

(* Leases run out, the drain loop of a live process polls for due rows and *)
(* goes through what it claimed, and its tasks run on.                     *)
RecoverySpec ==
  /\ Spec
  /\ \A w \in Workers :
       /\ \A e \in Effects \ Earlier : WF_vars(LeaseExpires(w, e))
       /\ SF_vars(ClaimDue(w))
       /\ WF_vars((\E r \in Batch(w) : ReclaimOne(w, r)) \/ Spawn(w))
       /\ WF_vars(TaskStep(w))

(* Backoffs elapse and queues are read as well.                            *)
FairSpec ==
  /\ RecoverySpec
  /\ \A e \in Effects \ Earlier :
       /\ WF_vars(BackoffElapses(e))
       /\ \A w \in Workers : SF_vars(Receive(w, e))

-----------------------------------------------------------------------------

(* "No other claimer may claim or transition that effect while a valid     *)
(* lease is held" (openspec external-effects, claim ownership): while a    *)
(* lease has not run out on any clock, the row of the effect changes only  *)
(* by a step of the process that holds it, whatever other processes have   *)
(* queued, claimed earlier or are still executing.                         *)
StepOf(w) == loop'[w] # loop[w] \/ task'[w] # task[w]
LeaseIsExclusive ==
  [][\A w \in Workers, e \in Effects :
       /\ rows[e].owner = w /\ rows[e].expired = {}
       /\ rows[e].state \notin Settled
       /\ rows'[e] # rows[e]
       => StepOf(w) \/ \E v \in Workers : LeaseExpires(v, e)]_vars

(* The design accepts one window (its G2): an attempt whose process claims *)
(* the row again meanwhile passes the owner check of a later claim.  A key *)
(* none of whose effects was claimed so is fenced.                         *)
Fenced(s) == \A e \in reclaimed : ScopeOf[e] # s

(* The release of a key is gated on the terminal write, so that an attempt *)
(* that lost its claim cannot delete a reservation that a later attempt    *)
(* has turned into a recorded success; only retention removes one.         *)
SuccessIsNeverForgotten ==
  [][~DeleteSettledKeys =>
       \A s \in Scopes : Fenced(s) /\ Confirmed(s) => Confirmed(s)']_vars

(* A claim whose holder died before it marked the row in flight runs out   *)
(* and another process takes the effect over, as long as leases outlast    *)
(* the work they cover.                                                    *)
ClaimsRecover ==
  \A e \in Effects \ Earlier :
    (~setting.slow /\ rows[e].state \in Open /\ rows[e].owner \in Workers \ alive) ~>
      (rows[e].state \notin Open \/ alive = {})

(* The specification of external effects: "a stale claim (held by a        *)
(* process that crashed before completing) MUST become recoverable rather  *)
(* than permanently stuck".  A row left in flight by a dead process is     *)
(* dispatched again as long as a process is alive.                         *)
StaleFlightsRecover ==
  \A e \in Effects :
    (rows[e].state = "InFlight" /\ rows[e].owner \in Workers \ alive) ~>
      (rows[e].state # "InFlight" \/ alive = {})

=============================================================================
