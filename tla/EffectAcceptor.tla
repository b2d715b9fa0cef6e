---------------------------- MODULE EffectAcceptor ----------------------------
(***************************************************************************)
(* Acceptance of external effects and the shutdown of the effect runtime   *)
(* (crates/runtime/src/effects: acceptor.rs and the drain of runner.rs).   *)
(*                                                                         *)
(* Callers hand in batches: each effect is recorded in the store, then     *)
(* queued for the drain loop (Deferred) or dispatched on the caller's own  *)
(* task under the receiver's lock (Inline).  shutdown_and_wait closes      *)
(* admission, waits for the calls already admitted, stops the loop, waits  *)
(* for the dispatch tasks and aborts what is left, all under one deadline. *)
(* What a dispatch does to the stores is EffectDelivery's subject; here it *)
(* is store work, one executor call, and store work again.  Neither the    *)
(* store nor an executor is assumed to answer.                             *)
(***************************************************************************)
EXTENDS Naturals, Sequences, FiniteSets

CONSTANTS
  Callers,        \* tasks that each make one accept() call
  BatchOf,        \* the number of effects in each call
  QueueCapacity,  \* DeliveryConfig.queue_capacity
  AcceptRetries,  \* RetryPolicy.max_attempts of the acceptance
  Settings        \* the runner modes, the callers that call, and the bound
                  \* on store errors, loop panics and dropped calls

ASSUME SizeAssumption ==
  /\ BatchOf \in [Callers -> Nat \ {0}]
  /\ QueueCapacity \in Nat \ {0}
  /\ AcceptRetries \in Nat
  /\ Settings \subseteq [mode : {"Deferred", "Inline"}, callers : SUBSET Callers,
                          faults : Nat]

Effects == UNION {{c} \X (1 .. BatchOf[c]) : c \in Callers}

VARIABLES
  setting,   \* the one of Settings this runtime has
  gate,      \* LifecycleGate.state
  inFlight,  \* LifecycleGate.in_flight
  deadline,  \* the published drain deadline: not set, set, passed
  stop,      \* the watch channel that tells the loop to stop
  calls,     \* the accept() call of each caller
  recorded,  \* effects the store holds
  queue,     \* the bounded queue
  loop,      \* the drain loop's task (Deferred)
  tasks,     \* how far the dispatch of each effect is
  sd,        \* the shutdown_and_wait call
  faults

vars == <<setting, gate, inFlight, deadline, stop, calls, recorded, queue, loop,
          tasks, sd, faults>>
runner == <<queue, loop, tasks>>
mode == setting.mode  \* RunnerMode

Awaiting == {"store", "backoff", "lock", "send", "receive", "dispatch"}
Admitted(c) == calls[c].pc \in Awaiting
Current(c) == <<c, calls[c].index>>

(* Dispatch tasks that have not ended, and executor calls that run: an     *)
(* orphan is one whose dispatch is gone, a cancelled one has been told to  *)
(* abort and runs until the abort reaches it.                              *)
Outstanding ==
  {e \in Effects : tasks[e] \in {"starting", "executing", "cancelled", "ending"}}
Executing ==
  {e \in Effects :
     tasks[e] \in {"executing", "cancelled", "orphan", "cancelledOrphan"}}

(* The JoinSet: Inline dispatches run on their callers' tasks instead.     *)
Joinable == IF mode = "Deferred" THEN Outstanding ELSE {}
Receiving == loop.pc \in {"select", "store", "permit"}

Init ==
  /\ setting \in Settings
  /\ gate = "Running"
  /\ inFlight = 0
  /\ deadline = "none"
  /\ stop = FALSE
  /\ calls = [c \in Callers |-> [pc |-> "idle", index |-> 1, attempt |-> 0,
                                 held |-> << >>, result |-> "none"]]
  /\ recorded = {}
  /\ queue = << >>
  /\ loop = [pc |-> IF mode = "Deferred" THEN "select" ELSE "absent"]
  /\ tasks = [e \in Effects |-> "none"]
  /\ sd = [pc |-> "idle", outcome |-> "none", runner |-> "none",
           clean |-> TRUE, result |-> "none"]
  /\ faults = 0

(* What is left of a dispatch whose future is dropped: the executor runs   *)
(* on a task of its own.                                                   *)
Dropped(state) ==
  CASE state = "executing" -> "orphan"
    [] state = "cancelled" -> "cancelledOrphan"
    [] OTHER -> "gone"

Fault == faults < setting.faults /\ faults' = faults + 1

-----------------------------------------------------------------------------
(* An accept() call                                                        *)

Goto(c, pc) == calls' = [calls EXCEPT ![c].pc = pc] /\ UNCHANGED inFlight

(* The call ends and its InFlightGuard is dropped.                         *)
Return(c, result) ==
  /\ calls' = [calls EXCEPT ![c].pc = "returned", ![c].result = result]
  /\ inFlight' = inFlight - 1

(* Mutated form of Fail: a failed effect is skipped, the batch goes on.    *)
FailOne(c, result) ==
  IF calls[c].index = BatchOf[c] THEN Return(c, result)
  ELSE /\ calls' = [calls EXCEPT ![c].pc = "store", ![c].attempt = 0,
                                 ![c].index = @ + 1]
       /\ UNCHANGED inFlight
(* The first error ends the batch.                                         *)
Fail(c, result) == Return(c, result)

EffectDone(c) ==
  IF calls[c].index = BatchOf[c] THEN Return(c, "Ok")
  ELSE /\ calls' = [calls EXCEPT ![c].pc = "store", ![c].attempt = 0,
                                 ![c].index = @ + 1]
       /\ UNCHANGED inFlight

(* LifecycleGate::enter, under the lock of the gate's state.               *)
Enter(c) ==
  /\ c \in setting.callers
  /\ calls[c].pc = "idle"
  /\ \/ /\ gate = "Running"
        /\ inFlight' = inFlight + 1
        /\ calls' = [calls EXCEPT ![c].pc = "store"]
     \/ /\ gate # "Running"
        /\ calls' = [calls EXCEPT ![c].pc = "returned", ![c].result = "Rejected"]
        /\ UNCHANGED inFlight
  /\ UNCHANGED <<setting, gate, deadline, stop, recorded, runner, sd, faults>>

(* The store's answer to accept: recorded, or temporarily unavailable (the *)
(* row may be there) with a retry left or not, or refused.                 *)
StoreAnswers(c) ==
  /\ calls[c].pc = "store"
  /\ \/ /\ recorded' = recorded \cup {Current(c)}
        /\ Goto(c, IF mode = "Deferred" THEN "send" ELSE "lock")
        /\ UNCHANGED faults
     \/ /\ Fault
        /\ recorded' \in {recorded, recorded \cup {Current(c)}}
        /\ IF calls[c].attempt < AcceptRetries
           THEN Goto(c, "backoff")
           ELSE Fail(c, "RetriesExhausted")
     \/ Fault /\ Fail(c, "Permanent") /\ UNCHANGED recorded
  /\ UNCHANGED <<setting, gate, deadline, stop, runner, sd>>

BackoffElapses(c) ==
  /\ calls[c].pc = "backoff"
  /\ calls' = [calls EXCEPT ![c].pc = "store", ![c].attempt = @ + 1]
  /\ UNCHANGED <<setting, gate, inFlight, deadline, stop, recorded, runner, sd,
                 faults>>

(* Mutated form of CutByDeadline: a store call is not raced against the    *)
(* deadline.                                                               *)
CutBetweenCalls(c) ==
  /\ deadline = "passed"
  /\ calls[c].pc \in {"backoff", "send"}
  /\ Fail(c, "RetriesExhausted")
  /\ UNCHANGED <<setting, gate, deadline, stop, recorded, runner, sd, faults>>
(* wait_for_deadline wins the race; a store call cut off may have been     *)
(* applied.  The Inline lock and dispatch are not raced.                   *)
CutByDeadline(c) ==
  /\ deadline = "passed"
  /\ calls[c].pc \in {"store", "backoff", "send"}
  /\ recorded' \in IF calls[c].pc = "store"
                   THEN {recorded, recorded \cup {Current(c)}} ELSE {recorded}
  /\ Fail(c, "RetriesExhausted")
  /\ UNCHANGED <<setting, gate, deadline, stop, runner, sd, faults>>

(* The loop owns the receiver in Deferred mode; Inline the acceptor does.  *)
SendToQueue(c) ==
  /\ calls[c].pc = "send"
  /\ \/ /\ mode = "Inline" \/ Receiving
        /\ Len(queue) < QueueCapacity
        /\ queue' = Append(queue, Current(c))
        /\ IF mode = "Inline" THEN Goto(c, "receive") ELSE EffectDone(c)
     \/ /\ mode = "Deferred" /\ ~Receiving
        /\ Fail(c, "Permanent")
        /\ UNCHANGED queue
  /\ UNCHANGED <<setting, gate, deadline, stop, recorded, loop, tasks, sd, faults>>

LockReceiver(c) ==
  /\ calls[c].pc = "lock"
  /\ \A d \in Callers : calls[d].pc \notin {"send", "receive", "dispatch"}
  /\ Goto(c, "send")
  /\ UNCHANGED <<setting, gate, deadline, stop, recorded, runner, sd, faults>>

(* Inline: the caller receives what the queue holds first, dispatches it   *)
(* and goes on when the dispatch is done.                                  *)
DispatchInline(c) ==
  /\ \/ /\ calls[c].pc = "receive"
        /\ queue' = Tail(queue)
        /\ tasks' = [tasks EXCEPT ![Head(queue)] = "starting"]
        /\ calls' = [calls EXCEPT ![c].pc = "dispatch", ![c].held = Head(queue)]
        /\ UNCHANGED inFlight
     \/ /\ calls[c].pc = "dispatch"
        /\ tasks[calls[c].held] = "done"
        /\ EffectDone(c)
        /\ UNCHANGED <<queue, tasks>>
  /\ UNCHANGED <<setting, gate, deadline, stop, recorded, loop, sd, faults>>

(* The caller drops the future of its call; an Inline dispatch goes with   *)
(* it, an executor call already spawned does not, and an effect sent but   *)
(* not received yet is left in the queue.                                  *)
DropCall(c) ==
  /\ Admitted(c)
  /\ Fault
  /\ Return(c, IF calls[c].pc = "receive" THEN "DroppedUnreceived" ELSE "Dropped")
  /\ tasks' = IF calls[c].pc = "dispatch"
              THEN [tasks EXCEPT ![calls[c].held] = Dropped(@)]
              ELSE tasks
  /\ UNCHANGED <<setting, gate, deadline, stop, recorded, queue, loop, sd>>

-----------------------------------------------------------------------------
(* The drain loop and the dispatch tasks                                   *)

(* An effect from the queue; its task ends at once when its row was taken  *)
(* by a reclaim before.                                                    *)
Receive ==
  /\ loop.pc = "select"
  /\ queue # << >>
  /\ queue' = Tail(queue)
  /\ loop' = IF tasks[Head(queue)] = "none"
             THEN [pc |-> "permit", effect |-> Head(queue)] ELSE loop
  /\ UNCHANGED <<setting, gate, inFlight, deadline, stop, calls, recorded, tasks,
                 sd, faults>>

(* The reclaim tick calls the store on the loop's own task; a recorded     *)
(* effect that nobody dispatches yet may be claimed.                       *)
Reclaim ==
  /\ \/ loop.pc = "select" /\ loop' = [pc |-> "store"]
     \/ /\ loop.pc = "store"
        /\ \/ loop' = [pc |-> "select"]
           \/ \E e \in recorded :
                /\ tasks[e] = "none"
                /\ loop' = [pc |-> "permit", effect |-> e]
  /\ UNCHANGED <<setting, gate, inFlight, deadline, stop, calls, recorded, queue,
                 tasks, sd, faults>>

(* acquire_permit_and_spawn: start() runs the loop with one permit.        *)
Spawn ==
  /\ loop.pc = "permit"
  /\ Outstanding = {}
  /\ tasks' = [tasks EXCEPT ![loop.effect] =
                 IF @ = "none" THEN "starting" ELSE @]
  /\ loop' = [pc |-> "select"]
  /\ UNCHANGED <<setting, gate, inFlight, deadline, stop, calls, recorded, queue,
                 sd, faults>>

(* The loop sees the stop signal, in its select or while it waits for a    *)
(* permit; what it holds or the queue holds stays Pending in the store.    *)
LoopExits ==
  /\ stop
  /\ loop.pc \in {"select", "permit"}
  /\ loop' = [pc |-> "exited"]
  /\ UNCHANGED <<setting, gate, inFlight, deadline, stop, calls, recorded, queue,
                 tasks, sd, faults>>

(* A store that panics inside claim_due takes the loop with it.            *)
LoopPanics ==
  /\ loop.pc = "store"
  /\ Fault
  /\ loop' = [pc |-> "panicked"]
  /\ UNCHANGED <<setting, gate, inFlight, deadline, stop, calls, recorded, queue,
                 tasks, sd>>

(* mark_in_flight and reserve, then the executor's own task; its answer or *)
(* its cancellation; the bookkeeping after it.                             *)
TaskStep(e) ==
  /\ \/ /\ tasks[e] = "starting"
        /\ tasks' = [tasks EXCEPT ![e] = "executing"]
     \/ /\ e \in Executing
        /\ tasks' = [tasks EXCEPT ![e] =
                       IF e \in Outstanding THEN "ending" ELSE "gone"]
     \/ /\ tasks[e] \in {"starting", "ending"}
        /\ tasks' = [tasks EXCEPT ![e] = "done"]
  /\ UNCHANGED <<setting, gate, inFlight, deadline, stop, calls, recorded, queue,
                 loop, sd, faults>>

-----------------------------------------------------------------------------
(* shutdown_and_wait                                                       *)

Idle == <<setting, inFlight, calls, recorded, faults>>

PublishDeadline ==
  /\ sd.pc = "idle"
  /\ deadline' = "set"
  /\ sd' = [sd EXCEPT !.pc = "publish"]
  /\ UNCHANGED <<Idle, gate, stop, runner>>

DeadlinePasses ==
  /\ deadline = "set"
  /\ deadline' = "passed"
  /\ UNCHANGED <<Idle, gate, stop, runner, sd>>

BeginDraining ==
  /\ sd.pc = "publish"
  /\ gate' = "Draining"
  /\ sd' = [sd EXCEPT !.pc = "waiting"]
  /\ UNCHANGED <<Idle, deadline, stop, runner>>

WaitUntilDrained ==
  /\ sd.pc = "waiting"
  /\ \/ inFlight = 0 /\ sd' = [sd EXCEPT !.pc = "signal", !.outcome = "Drained"]
     \/ /\ deadline = "passed"
        /\ sd' = [sd EXCEPT !.pc = "signal", !.outcome = "DeadlineElapsed"]
  /\ UNCHANGED <<Idle, gate, deadline, stop, runner>>

SignalStop ==
  /\ sd.pc = "signal"
  /\ stop' = TRUE
  /\ sd' = [sd EXCEPT !.pc = "runner"]
  /\ UNCHANGED <<Idle, gate, deadline, runner>>

(* The loop's task is awaited for half of what remains, then aborted and   *)
(* awaited: until the abort reaches it, it may go on.                      *)
AwaitRunner ==
  /\ \/ /\ sd.pc = "runner"
        /\ loop.pc \in {"absent", "exited", "panicked"}
        /\ sd' = [sd EXCEPT !.pc = "join",
                            !.runner = IF loop.pc = "panicked"
                                       THEN "RunnerPanicked" ELSE "Ok"]
        /\ UNCHANGED loop
     \/ /\ sd.pc = "runner"
        /\ Receiving
        /\ sd' = [sd EXCEPT !.pc = "aborting", !.runner = "Timeout"]
        /\ UNCHANGED loop
     \/ /\ sd.pc = "aborting"
        /\ loop' = IF Receiving THEN [pc |-> "aborted"] ELSE loop
        /\ sd' = [sd EXCEPT !.pc = "join"]
  /\ UNCHANGED <<Idle, gate, deadline, stop, queue, tasks>>

(* Mutated form of JoinTasks: an empty JoinSet counts as a clean drain,    *)
(* executor calls nobody waits for are not looked at.                      *)
JoinTasksOnly ==
  /\ sd.pc = "join"
  /\ \/ Joinable = {} /\ sd' = [sd EXCEPT !.pc = "close"]
     \/ /\ Joinable # {}
        /\ deadline = "passed"
        /\ sd' = [sd EXCEPT !.pc = "abort", !.clean = FALSE]
  /\ UNCHANGED <<Idle, gate, deadline, stop, runner>>
(* drain_tasks_locked: the tasks end by themselves and no executor call    *)
(* lingers, or the abort is due.                                           *)
JoinTasks ==
  /\ sd.pc = "join"
  /\ \/ Joinable = {} /\ Executing = {} /\ sd' = [sd EXCEPT !.pc = "close"]
     \/ /\ \/ Joinable = {} /\ Executing # {}
           \/ Joinable # {} /\ deadline = "passed"
        /\ sd' = [sd EXCEPT !.pc = "abort", !.clean = FALSE]
  /\ UNCHANGED <<Idle, gate, deadline, stop, runner>>

(* Every registered executor call is told to abort; its dispatch sees the  *)
(* cancellation, requeues the effect and ends.                             *)
AbortExecutors ==
  /\ sd.pc = "abort"
  /\ tasks' = [e \in Effects |-> CASE tasks[e] = "executing" -> "cancelled"
                                   [] tasks[e] = "orphan" -> "cancelledOrphan"
                                   [] OTHER -> tasks[e]]
  /\ sd' = [sd EXCEPT !.pc = "rejoin"]
  /\ UNCHANGED <<Idle, gate, deadline, stop, queue, loop>>

(* Mutated form of RejoinTasks: the requeues are awaited without bound.    *)
RejoinUnbounded ==
  /\ sd.pc = "rejoin"
  /\ Joinable = {}
  /\ sd' = [sd EXCEPT !.pc = "close"]
  /\ UNCHANGED <<Idle, gate, deadline, stop, runner>>
(* The requeues are awaited until the deadline; then every dispatch that   *)
(* is left is told to abort.                                               *)
RejoinTasks ==
  /\ sd.pc = "rejoin"
  /\ \/ Joinable = {} /\ sd' = [sd EXCEPT !.pc = "close"]
     \/ /\ Joinable # {}
        /\ deadline = "passed"
        /\ sd' = [sd EXCEPT !.pc = "abortAll"]
  /\ UNCHANGED <<Idle, gate, deadline, stop, runner>>

(* The abort reaches one dispatch after the other; an executor call that   *)
(* was spawned since AbortExecutors is left alone.                         *)
AbortAll ==
  /\ sd.pc = "abortAll"
  /\ \/ \E e \in Joinable :
          tasks' = [tasks EXCEPT ![e] = Dropped(@)] /\ UNCHANGED sd
     \/ /\ Joinable = {}
        /\ sd' = [sd EXCEPT !.pc = "close"]
        /\ UNCHANGED tasks
  /\ UNCHANGED <<Idle, gate, deadline, stop, queue, loop>>

Close ==
  /\ sd.pc = "close"
  /\ gate' = "Closed"
  /\ sd' = [sd EXCEPT !.pc = "done",
                      !.result = IF sd.runner = "Ok" /\ ~sd.clean
                                 THEN "Timeout" ELSE sd.runner]
  /\ UNCHANGED <<Idle, deadline, stop, runner>>

-----------------------------------------------------------------------------
CallStep(c) ==
  \/ Enter(c) \/ StoreAnswers(c) \/ BackoffElapses(c) \/ CutByDeadline(c)
  \/ SendToQueue(c) \/ LockReceiver(c) \/ DispatchInline(c) \/ DropCall(c)

LoopStep == Receive \/ Reclaim \/ Spawn \/ LoopExits \/ LoopPanics

ShutdownStep ==
  \/ BeginDraining \/ WaitUntilDrained \/ SignalStop \/ AwaitRunner
  \/ JoinTasks \/ AbortExecutors \/ RejoinTasks \/ AbortAll \/ Close

Terminated ==
  /\ sd.pc = "done"
  /\ \A c \in setting.callers : calls[c].pc = "returned"
  /\ UNCHANGED vars

Next ==
  \/ \E c \in Callers : CallStep(c)
  \/ \E e \in Effects : TaskStep(e)
  \/ LoopStep
  \/ PublishDeadline
  \/ DeadlinePasses
  \/ ShutdownStep
  \/ Terminated

Spec == Init /\ [][Next]_vars

(* Time passes, the shutdown task is scheduled, an abort reaches its task, *)
(* and a call whose deadline has passed is scheduled.  Each of these can   *)
(* happen only finitely often, so one condition covers them all; stores    *)
(* and executors owe nothing.                                              *)
Scheduled ==
  DeadlinePasses \/ ShutdownStep \/ \E c \in Callers : CutByDeadline(c)
FairSpec == Spec /\ WF_vars(Scheduled)

-----------------------------------------------------------------------------

Quiet == Joinable = {} /\ Executing = {}

(* shutdown_and_wait answers Ok only when its loop ended by itself and no  *)
(* dispatch task and no executor call runs, then or ever after.  Accept()  *)
(* calls are not looked at: one that outlives the deadline may still be    *)
(* on its way to an error.  Inline, Ok is looked at only when the admitted *)
(* calls had ended (Drained): after DeadlineElapsed a dispatch that is at  *)
(* a store call, in no JoinSet and with no executor yet, is missed and Ok  *)
(* answered, although the comment at acceptor.rs:345-349 expects a Timeout.*)
OkMeansQuiet ==
  sd.result = "Ok" /\ (mode = "Deferred" \/ sd.outcome = "Drained")
    => Quiet /\ loop.pc \in {"exited", "absent"}

InQueue(e) == \E i \in DOMAIN queue : queue[i] = e

(* Deferred, an effect is handed on when the queue, the loop or a task has *)
(* it, or the loop has ended and left it to recovery.  Inline, its         *)
(* dispatch is done, unless a call was dropped between its send and its    *)
(* receive: the effect it left behind is then received in another's place. *)
HandedOn(e) ==
  IF mode = "Deferred"
  THEN \/ ~Receiving \/ InQueue(e) \/ tasks[e] # "none"
       \/ loop.pc = "permit" /\ loop.effect = e
  ELSE \/ tasks[e] = "done"
       \/ \E c \in Callers : calls[c].result = "DroppedUnreceived"

(* What a call answers is what happened to its batch: all recorded and     *)
(* handed on after Ok; after an error at some index everything before it   *)
(* recorded and handed on, nothing after it touched; nothing at all after  *)
(* a rejection.                                                            *)
PartialBatchIsHonest ==
  \A c \in Callers :
    LET call == calls[c] IN
    call.pc = "returned" =>
      \A i \in 1 .. BatchOf[c] :
        /\ call.result = "Ok" \/ i < call.index
             => <<c, i>> \in recorded /\ HandedOn(<<c, i>>)
        /\ call.result = "Rejected" \/ i > call.index
             => <<c, i>> \notin recorded /\ tasks[<<c, i>>] = "none"

(* shutdown_and_wait returns, whatever the store, the loop and the         *)
(* executors do.                                                           *)
ShutdownReturns == (sd.pc = "publish") ~> (sd.pc = "done")

(* In Deferred mode every admitted call returns once shutdown has begun,   *)
(* even when the store never answers and the queue stays full.             *)
AdmittedCallsReturn ==
  \A c \in Callers :
    (mode = "Deferred" /\ Admitted(c) /\ deadline # "none")
      ~> (calls[c].pc = "returned")

=============================================================================
