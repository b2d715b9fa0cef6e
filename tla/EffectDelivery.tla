---------------------------- MODULE EffectDelivery ----------------------------
(***************************************************************************)
(* Delivery of accepted external effects by one process                    *)
(* (crates/runtime/src/effects: runner.rs, queue.rs, store.rs, policy.rs), *)
(* from the store in memory or the durable one on Stoolap                  *)
(* (crates/effect-store/src/stoolap/mod.rs).                               *)
(*                                                                         *)
(* One loop takes effects from the bounded queue or reclaims due ones from *)
(* the store, waits for a permit and spawns a dispatch task per effect.  A *)
(* task is a sequence of store calls around one executor call.  The time   *)
(* at which a retry is due is abstracted to a flag that rises by itself.   *)
(* A store call may fail for good: its retries are spent, or its answer    *)
(* was lost and the retry was refused; it may then have been applied.      *)
(***************************************************************************)
EXTENDS EffectPort, Sequences

CONSTANTS
  Permits,            \* permits of the concurrency limiter
  MaxAttempts,        \* RetryPolicy.max_attempts: retries after the first try
  QueueCapacity,      \* DeliveryConfig.queue_capacity
  ReclaimBatchLimit,  \* RECLAIM_BATCH_LIMIT
  Settings            \* see Setting

ASSUME LimitAssumption ==
  /\ MaxAttempts \in Nat
  /\ QueueCapacity \in Nat \ {0}
  /\ ReclaimBatchLimit \in Nat \ {0}

(* What is under consideration: the effects handed over, the permits in    *)
(* use (start() uses one), the bounds on store calls that fail for good    *)
(* and on crashes of the process, whether it may be asked to stop, whether *)
(* the store is the durable one and whether retention runs on it.          *)
Setting(handed, permits, faultBound, crashBound, stop, durable, retention) ==
  [effects |-> handed, permits |-> permits, faults |-> faultBound,
   crashes |-> crashBound, stop |-> stop, durable |-> durable,
   retention |-> retention]

VARIABLES
  setting,
  store,     \* EffectStateStore: state, attempt and due flag of each effect
  dedup,     \* EffectDedupStore: the reservation of each scope
  sending,   \* accepted effects whose acceptor waits for room in the queue
  queue,     \* the bounded queue of freshly accepted effects
  loop,      \* where the drain loop is
  tasks,     \* the dispatch task that holds each permit
  shutdown,  \* the shutdown signal
  selected,  \* the reservations a retention run has selected
  executed,  \* history: executor calls made for each effect
  delivered, \* history: effects for which an executor reported success
  expired,   \* history: scopes whose reservation retention has removed
  faults, crashes

vars == <<store, dedup, sending, queue, loop, tasks, shutdown, selected,
          executed, delivered, expired, faults, crashes, setting>>
stores == <<store, dedup>>
intake == <<sending, queue>>
background == <<selected, expired, crashes, setting>>
history == <<executed, delivered, background>>

Row(state, attempt, due) == [state |-> state, attempt |-> attempt, due |-> due]
Unknown == Row("Unknown", 0, FALSE)

Selecting == [pc |-> "select"]
Stopped == [pc |-> "stopped"]
Free == [pc |-> "free"]
Task(pc, e, attempt) == [pc |-> pc, id |-> e, attempt |-> attempt]

Init ==
  /\ setting \in Settings
  /\ store = [e \in Effects |-> Unknown]
  /\ dedup = [s \in Scopes |-> NoReservation]
  /\ sending = {}
  /\ queue = << >>
  /\ loop = Selecting
  /\ tasks = [p \in Permits |-> Free]
  /\ shutdown = FALSE
  /\ executed = [e \in Effects |-> 0]
  /\ delivered = {}
  /\ selected = {}
  /\ expired = {}
  /\ faults = 0
  /\ crashes = 0

-----------------------------------------------------------------------------
(* Acceptance                                                              *)

(* The store records the effect; when the answer is an error the caller is *)
(* told so and nothing is queued, though the row may be there.             *)
Accept(e) ==
  /\ e \in setting.effects
  /\ store[e] = Unknown
  /\ ~shutdown
  /\ store' = [store EXCEPT ![e] = Row("Pending", 0, TRUE)]
  /\ \/ sending' = sending \cup {e} /\ UNCHANGED faults
     \/ faults < setting.faults /\ faults' = faults + 1 /\ UNCHANGED sending
  /\ UNCHANGED <<dedup, queue, loop, tasks, shutdown, history>>

Enqueue(e) ==
  /\ e \in sending
  /\ Len(queue) < QueueCapacity
  /\ queue' = Append(queue, e)
  /\ sending' = sending \ {e}
  /\ UNCHANGED <<stores, loop, tasks, shutdown, history, faults>>

BackoffElapses(e) ==
  /\ store[e].state = "RetryableFailed"
  /\ ~store[e].due
  /\ store' = [store EXCEPT ![e].due = TRUE]
  /\ UNCHANGED <<dedup, intake, loop, tasks, shutdown, history, faults>>

-----------------------------------------------------------------------------
(* The drain loop: run_inner                                               *)

Receive ==
  /\ loop.pc = "select"
  /\ queue # << >>
  /\ loop' = [pc |-> "permit", task |-> Task("mark", Head(queue), 0),
              batch |-> {}]
  /\ queue' = Tail(queue)
  /\ UNCHANGED <<stores, sending, tasks, shutdown, history, faults>>

(* Mutated form of Due: failed rows are never due again.                   *)
DueFirstTime ==
  {e \in Effects : store[e].state = "Pending" /\ store[e].due}
Due ==
  {e \in Effects : /\ store[e].state \in Open
                   /\ store[e].due}

(* claim_due reads a batch and changes nothing; the attempt numbers are    *)
(* those of the moment of the read.                                        *)
ClaimDue ==
  /\ loop.pc = "select"
  /\ \E S \in Batches(Due, ReclaimBatchLimit) :
       loop' = [pc |-> "reclaim",
                batch |-> {[id |-> e, attempt |-> store[e].attempt] : e \in S}]
  /\ UNCHANGED <<stores, intake, tasks, shutdown, history, faults>>

Markable(e) == store[e].state \in Open

Batch == IF loop.pc = "reclaim" THEN loop.batch ELSE {}

(* reclaim_due marks one row of the batch and then waits for a permit; a   *)
(* refused or failed mark skips the row.                                   *)
ReclaimOne(r) ==
  LET others == Batch \ {r}
      marked == [store EXCEPT ![r.id].state = "InFlight"]
      skip == IF others = {} THEN Selecting ELSE [loop EXCEPT !.batch = others] IN
  /\ \/ /\ Markable(r.id)
        /\ store' = marked
        /\ loop' = [pc |-> "permit", task |-> Task("reserve", r.id, r.attempt),
                    batch |-> others]
        /\ UNCHANGED faults
     \/ ~Markable(r.id) /\ loop' = skip /\ UNCHANGED <<store, faults>>
     \/ /\ faults < setting.faults
        /\ faults' = faults + 1
        /\ store' \in {store, IF Markable(r.id) THEN marked ELSE store}
        /\ loop' = skip
  /\ UNCHANGED <<dedup, intake, tasks, shutdown, history>>

(* acquire_permit_and_spawn                                                *)
Spawn(p) ==
  /\ loop.pc = "permit"
  /\ p \in setting.permits
  /\ tasks[p] = Free
  /\ tasks' = [tasks EXCEPT ![p] = loop.task]
  /\ loop' = IF loop.batch = {} THEN Selecting
             ELSE [pc |-> "reclaim", batch |-> loop.batch]
  /\ UNCHANGED <<stores, intake, shutdown, history, faults>>

-----------------------------------------------------------------------------
(* A dispatch task: drain_one, drain_reclaimed, dispatch_in_flight         *)

Goto(p, pc) ==
  tasks' = [tasks EXCEPT ![p] = IF pc = "free" THEN Free
                                ELSE [@ EXCEPT !.pc = pc]]

(* A conditional write of the task's row: applied when the row is in one   *)
(* of the states `from`, else refused.                                     *)
WriteRow(p, from, row, onOk, onErr) ==
  LET e == tasks[p].id
      written == IF store[e].state \in from
                 THEN [store EXCEPT ![e] = row] ELSE store IN
  /\ \/ /\ store' = written
        /\ Goto(p, IF store[e].state \in from THEN onOk ELSE onErr)
        /\ UNCHANGED faults
     \/ /\ faults < setting.faults
        /\ faults' = faults + 1
        /\ store' \in {store, written}
        /\ Goto(p, onErr)
  /\ UNCHANGED <<dedup, intake, loop, shutdown, history>>

MarkInFlight(p) ==
  /\ tasks[p].pc = "mark"
  /\ WriteRow(p, Open,
              [store[tasks[p].id] EXCEPT !.state = "InFlight"],
              "reserve", "free")

(* What the task does on the answer to reserve.                            *)
Decide(p, answer) ==
  /\ Goto(p, answer)
  /\ executed' = [executed EXCEPT ![tasks[p].id] =
                    IF answer = "execute" THEN @ + 1 ELSE @]

(* reserve: one critical section in memory; on Stoolap an INSERT that does *)
(* nothing when the scope is taken, and then a SELECT.                     *)
Reserve(p) ==
  LET e == tasks[p].id
      reserved == Reserved(dedup, e) IN
  /\ tasks[p].pc = "reserve"
  /\ \/ /\ dedup' = reserved
        /\ IF setting.durable /\ reserved = dedup THEN Decide(p, "look")
           ELSE Decide(p, Answer(e, dedup[ScopeOf[e]]))
        /\ UNCHANGED faults
     \/ /\ faults < setting.faults
        /\ faults' = faults + 1
        /\ dedup' \in {dedup, reserved}
        /\ Decide(p, "abandon")
  /\ UNCHANGED <<store, intake, loop, shutdown, delivered, background>>

(* A row that is gone by then is an error the task may retry.              *)
LookUpReservation(p) ==
  LET e == tasks[p].id
      found == dedup[ScopeOf[e]] IN
  /\ tasks[p].pc = "look"
  /\ \/ found # NoReservation /\ Decide(p, Answer(e, found)) /\ UNCHANGED faults
     \/ /\ found = NoReservation
        /\ \E pc \in {"reserve", "abandon"} : Decide(p, pc)
        /\ UNCHANGED faults
     \/ /\ faults < setting.faults
        /\ faults' = faults + 1
        /\ Decide(p, "abandon")
  /\ UNCHANGED <<stores, intake, loop, shutdown, delivered, background>>

(* The executor answers: success, a retryable failure or panic, or a       *)
(* terminal failure.                                                       *)
Execute(p) ==
  LET e == tasks[p].id IN
  /\ tasks[p].pc = "execute"
  /\ \/ Goto(p, "commit") /\ delivered' = delivered \cup {e}
     \/ tasks[p].attempt < MaxAttempts /\ Goto(p, "retry")
        /\ UNCHANGED delivered
     \/ Goto(p, "giveup") /\ UNCHANGED delivered
  /\ UNCHANGED <<stores, intake, loop, shutdown, executed, background, faults>>

(* Mutated form of CommitSuccess: the reservation is removed.              *)
CommitByRemoval(p) ==
  /\ tasks[p].pc = "commit"
  /\ dedup' = [dedup EXCEPT ![ScopeOf[tasks[p].id]] = NoReservation]
  /\ Goto(p, "succeed")
  /\ UNCHANGED <<store, intake, loop, shutdown, history, faults>>

(* finish_success: commit the reservation, then the row; when that fails   *)
(* for good the row is made reclaimable again.                             *)
CommitSuccess(p) ==
  LET committed == Committed(dedup, ScopeOf[tasks[p].id]) IN
  /\ tasks[p].pc = "commit"
  /\ \/ dedup' = committed /\ Goto(p, "succeed") /\ UNCHANGED faults
     \/ /\ faults < setting.faults
        /\ faults' = faults + 1
        /\ dedup' \in {dedup, committed}
        /\ Goto(p, "unconfirmed")
  /\ UNCHANGED <<store, intake, loop, shutdown, history>>

MarkSucceeded(p) ==
  \/ /\ tasks[p].pc = "succeed"
     /\ WriteRow(p, {"InFlight"}, Row("Succeeded", tasks[p].attempt, FALSE),
                 "free", "unconfirmed")
  \/ /\ tasks[p].pc = "satisfied"
     /\ WriteRow(p, {"InFlight"}, Row("Succeeded", tasks[p].attempt, FALSE),
                 "free", "free")

MarkRetryable(p) ==
  \/ /\ tasks[p].pc = "unconfirmed"
     /\ WriteRow(p, {"InFlight"},
                 Row("RetryableFailed", tasks[p].attempt + 1, FALSE),
                 "free", "free")
  \/ /\ tasks[p].pc = "retry"
     /\ WriteRow(p, {"InFlight"},
                 Row("RetryableFailed", tasks[p].attempt + 1, FALSE),
                 "free", "giveup")
  \/ /\ tasks[p].pc = "requeue"
     /\ WriteRow(p, {"InFlight"},
                 Row("RetryableFailed", tasks[p].attempt, TRUE),
                 "free", "free")

(* abandon, and abandon_and_release with the release gated on the write.   *)
MarkTerminal(p) ==
  \/ /\ tasks[p].pc = "abandon"
     /\ WriteRow(p, {"InFlight", "RetryableFailed"},
                 Row("TerminalFailed", tasks[p].attempt, FALSE),
                 "free", "free")
  \/ /\ tasks[p].pc = "giveup"
     /\ WriteRow(p, {"InFlight", "RetryableFailed"},
                 Row("TerminalFailed", tasks[p].attempt, FALSE),
                 "release", "free")

Release(p) ==
  LET s == ScopeOf[tasks[p].id]
      released == [dedup EXCEPT ![s] = NoReservation] IN
  /\ tasks[p].pc = "release"
  /\ Goto(p, "free")
  /\ \/ dedup' = released /\ UNCHANGED faults
     \/ /\ faults < setting.faults
        /\ faults' = faults + 1
        /\ dedup' \in {dedup, released}
  /\ UNCHANGED <<store, intake, loop, shutdown, history>>

TaskStep(p) ==
  \/ MarkInFlight(p) \/ Reserve(p) \/ LookUpReservation(p) \/ Execute(p) \/ CommitSuccess(p)
  \/ MarkSucceeded(p) \/ MarkRetryable(p) \/ MarkTerminal(p) \/ Release(p)

-----------------------------------------------------------------------------
(* Retention: run_retention of the durable store.  How old a row must be   *)
(* is abstracted: any settled one may be old enough.                       *)

(* A settled row stays as it is between its selection and its deletion.    *)
DeleteSettled(e) ==
  /\ setting.retention
  /\ store[e].state \in Settled
  /\ store' = [store EXCEPT ![e] = Row("Purged", 0, FALSE)]
  /\ UNCHANGED <<dedup, intake, loop, tasks, shutdown, history, faults>>

Eligible(s) == dedup[s] # NoReservation /\ dedup[s].succeeded

SelectExpired ==
  /\ setting.retention
  /\ selected = {}
  /\ selected' \in SUBSET {s \in Scopes : Eligible(s)} \ {{}}
  /\ UNCHANGED <<stores, intake, loop, tasks, shutdown, executed, delivered,
                 expired, crashes, setting, faults>>

(* delete_eligible_dedup_scope: what is there now must be settled too.     *)
DeleteExpired(s) ==
  /\ s \in selected
  /\ selected' = selected \ {s}
  /\ dedup' = IF Eligible(s) THEN [dedup EXCEPT ![s] = NoReservation] ELSE dedup
  /\ expired' = IF Eligible(s) THEN expired \cup {s} ELSE expired
  /\ UNCHANGED <<store, intake, loop, tasks, shutdown, executed, delivered,
                 crashes, setting, faults>>

-----------------------------------------------------------------------------
(* Shutdown and crash                                                      *)

RequestShutdown ==
  /\ setting.stop
  /\ ~shutdown
  /\ shutdown' = TRUE
  /\ UNCHANGED <<stores, intake, loop, tasks, history, faults>>

(* The loop sees the signal while it selects or waits for a permit, or the *)
(* deadline passes and the loop is aborted wherever it is.                 *)
StopLoop ==
  /\ shutdown
  /\ loop # Stopped
  /\ loop' = Stopped
  /\ UNCHANGED <<stores, intake, tasks, shutdown, history, faults>>

(* drain_tasks_locked past the deadline: the executor call is aborted and  *)
(* its task goes on, and then a task still there is aborted where it is.   *)
AbortExecutor(p) ==
  /\ loop = Stopped
  /\ tasks[p].pc = "execute"
  /\ Goto(p, "requeue")
  /\ UNCHANGED <<stores, intake, loop, shutdown, history, faults>>

AbortTask(p) ==
  /\ loop = Stopped
  /\ tasks[p] # Free
  /\ Goto(p, "free")
  /\ UNCHANGED <<stores, intake, loop, shutdown, history, faults>>

(* The process dies and starts again on the same, durable store.           *)
Crash ==
  /\ setting.durable
  /\ crashes < setting.crashes
  /\ crashes' = crashes + 1
  /\ sending' = {}
  /\ queue' = << >>
  /\ loop' = Selecting
  /\ tasks' = [p \in Permits |-> Free]
  /\ shutdown' = FALSE
  /\ selected' = {}
  /\ UNCHANGED <<stores, executed, delivered, expired, faults, setting>>

Next ==
  \/ \E e \in Effects : Accept(e) \/ Enqueue(e) \/ BackoffElapses(e)
  \/ Receive
  \/ ClaimDue
  \/ \E r \in Batch : ReclaimOne(r)
  \/ \E p \in Permits : Spawn(p) \/ TaskStep(p)
  \/ SelectExpired
  \/ \E e \in Effects : DeleteSettled(e)
  \/ \E s \in Scopes : DeleteExpired(s)
  \/ RequestShutdown
  \/ StopLoop
  \/ \E p \in Permits : AbortExecutor(p) \/ AbortTask(p)
  \/ Crash

Spec == Init /\ [][Next]_vars

(* The loop and the tasks are scheduled, tokio::select! favours none of    *)
(* its branches, executors return, and time passes.                        *)
FairSpec ==
  /\ Spec
  /\ WF_vars(\E e \in Effects : Enqueue(e))
  /\ WF_vars(\E e \in Effects : BackoffElapses(e))
  /\ SF_vars(Receive)
  /\ SF_vars(ClaimDue)
  /\ WF_vars((\E r \in Batch : ReclaimOne(r)) \/ \E p \in Permits : Spawn(p))
  /\ \A p \in Permits : WF_vars(TaskStep(p))

-----------------------------------------------------------------------------

(* Two effects with one idempotency key are never executed at once, unless *)
(* the answer of a store call was lost, and not even across a crash.       *)
ScopeExclusive ==
  faults = 0 => \A p, q \in Permits :
    /\ tasks[p].pc = "execute" /\ tasks[q].pc = "execute"
    /\ ScopeOf[tasks[p].id] = ScopeOf[tasks[q].id]
    => p = q

(* start() has one permit, so that one attempt runs at a time.  With more  *)
(* permits the next attempt at an effect may overlap one that goes on      *)
(* after the answer of its mark_retryable was lost: both then pass the     *)
(* checks on the state of their row.                                       *)
Sequential == \A p, q \in setting.permits : p = q

(* No silent loss: an effect is recorded as succeeded only if an executor  *)
(* reported success for it, or for another one of the same key and content.*)
NoFalseSuccess ==
  faults = 0 \/ Sequential => \A e \in Effects :
    store[e].state = "Succeeded" =>
      \E d \in delivered : /\ ScopeOf[d] = ScopeOf[e]
                           /\ FingerprintOf[d] = FingerprintOf[e]

(* Once an effect is recorded as succeeded its key is not executed again   *)
(* until retention removes the key's reservation, whatever store calls     *)
(* fail and however often the process restarts.                            *)
ConfirmedNeverRepeated ==
  [][faults = 0 \/ Sequential => \A e, d \in Effects :
       executed'[d] # executed[d] /\ ScopeOf[d] = ScopeOf[e] =>
         store[e].state # "Succeeded" \/ ScopeOf[e] \in expired]_vars

(* Every accepted effect is eventually settled: again and again there is a *)
(* moment at which none is owed, unless a store call fails for good, the   *)
(* process crashes or a shutdown begins.                                   *)
EventuallySettled ==
  []<>(\/ \A e \in Effects : store[e].state \in Settled \cup {"Unknown", "Purged"}
       \/ faults > 0 \/ crashes > 0 \/ shutdown)

=============================================================================
