----------------------------- MODULE AppLifecycle -----------------------------
(***************************************************************************)
(* Start and shutdown of a composed application (crates/service-sdk:       *)
(* src/runtime/builder.rs, retention.rs, effect_retention.rs, logger.rs,   *)
(* src/app/mod.rs).                                                        *)
(*                                                                         *)
(* Parts that are started push an asynchronous teardown hook; a shutdown   *)
(* call takes all hooks registered so far and awaits them in order, then   *)
(* drains the synchronous stack.  An App has one owner, who starts it and  *)
(* then shuts it down; a Runtime is cloned, so several tasks may start and *)
(* shut down at once.  How the effect runtime drains is EffectAcceptor's   *)
(* subject: here its hook answers Ok or an error.                          *)
(***************************************************************************)
EXTENDS AppBuilder

CONSTANTS
  MaxStarts,     \* bound on the start calls
  MaxShutdowns,  \* bound on the shutdown calls
  MaxPanics      \* bound on panics of workers, providers and hooks

ASSUME TasksAssumption == {MaxStarts, MaxShutdowns, MaxPanics} \subseteq Nat

(* Calls are numbered in the order in which they begin.                    *)
Starters == 1..MaxStarts
Shutdowners == 1..MaxShutdowns

Workers == {"retention", "effect_retention"}
Startable == Workers \cup {"effects"}
Parts == Startable \cup {"providers", "tracer", "user"}

VARIABLES
  hooks,      \* async_teardown: the hooks registered and not yet taken
  started,    \* the compare-and-exchange flags
  starters,   \* where each start call is
  workers,    \* the retention workers' tasks
  permit,     \* the Notify permit of each worker
  shutdowns,  \* where each shutdown_async call is
  running,    \* parts and provider instances that run
  stops,      \* history: how often each of them was shut down
  logger,     \* whether the synchronous stack still holds the logger
  late,       \* history: purges a worker began after it was cancelled
  panics

lifecycle == <<hooks, started, starters, workers, permit, shutdowns, running,
               stops, logger, late, panics>>
vars == <<composition, lifecycle>>

Instances == {"x", "y"}
Stoppable == Parts \cup Instances
Idle == [pc |-> "idle", list |-> << >>, queue |-> << >>, done |-> 0,
         panicked |-> FALSE, error |-> "none"]

Init ==
  /\ entry \in {"App", "Runtime"}
  /\ asked = << >>
  /\ builder = NewBuilder
  /\ pending = None
  /\ phase = "composing"
  /\ hooks = << >>
  /\ started = {}
  /\ starters = [s \in Starters |-> [pc |-> "idle", part |-> "none"]]
  /\ workers = [w \in Workers |-> "none"]
  /\ permit = [w \in Workers |-> FALSE]
  /\ shutdowns = [c \in Shutdowners |-> Idle]
  /\ running = {}
  /\ stops = [x \in Stoppable |-> 0]
  /\ logger = "open"
  /\ late = [w \in Workers |-> 0]
  /\ panics = 0

ComposeOne ==
  /\ \E call \in HostCalls[entry] : Compose(call)
  /\ UNCHANGED lifecycle

(* The teardown hooks build() registers: data providers, then tracer.      *)
BuiltHooks(b) ==
  (IF b.teardown # << >> THEN <<"providers">> ELSE << >>) \o
  (IF "tracer" \in b.flags THEN <<"tracer">> ELSE << >>)

(* What start and shutdown read of the composition; the rest is forgotten. *)
Kept(b) == [NewBuilder EXCEPT !.names = {n \in b.names : n[1] = "executor"},
                              !.flags = b.flags \cap (Workers \cup {"tracer"}),
                              !.teardown = b.teardown]

Finish ==
  /\ phase = "composing"
  /\ phase' = Build(builder)
  /\ asked' = << >>
  /\ pending' = None
  /\ builder' = IF phase' = "built" THEN Kept(builder) ELSE NewBuilder
  /\ hooks' = BuiltHooks(builder')
  /\ running' = ToSet(builder'.teardown) \cup ToSet(BuiltHooks(builder'))
  /\ UNCHANGED <<entry, started, starters, workers, permit, shutdowns, stops,
                 logger, late, panics>>

Serving == phase = "built"
Present(part) ==
  IF part = "effects" THEN HasExecutor(builder) ELSE part \in builder.flags

-----------------------------------------------------------------------------
(* Starting                                                                *)

(* App::register_shutdown, before start(); Runtime::register_async_teardown *)
(* at any time.                                                            *)
RegisterHook ==
  /\ Serving
  /\ "user" \notin running
  /\ stops["user"] = 0
  /\ entry = "App" => \A s \in Starters : starters[s].pc = "idle"
  /\ hooks' = Append(hooks, "user")
  /\ running' = running \cup {"user"}
  /\ UNCHANGED <<composition, started, starters, workers, permit, shutdowns,
                 stops, logger, late, panics>>

(* The compare-and-exchange of start_effects, start_retention and          *)
(* start_retention_effects.                                                *)
TakeFlag(s, part) ==
  /\ started' = started \cup {part}
  /\ starters' = [starters EXCEPT ![s] =
       IF part \in started THEN [pc |-> "returned", part |-> "none"]
       ELSE [pc |-> "spawn", part |-> part]]

Start(s, part) ==
  /\ Serving
  /\ Present(part)
  /\ \A r \in Starters : starters[r].pc = "idle" <=> r >= s
  /\ entry = "App" => part = "effects" /\ s = 1
  /\ TakeFlag(s, part)
  /\ UNCHANGED <<composition, hooks, workers, permit, shutdowns, running, stops,
                 logger, late, panics>>

Spawn(s) ==
  LET part == starters[s].part IN
  /\ starters[s].pc = "spawn"
  /\ starters' = [starters EXCEPT ![s].pc = "register"]
  /\ running' = running \cup {part}
  /\ workers' = IF part \in Workers
                THEN [workers EXCEPT ![part] = "purging"] ELSE workers
  /\ UNCHANGED <<composition, hooks, started, permit, shutdowns, stops, logger,
                 late, panics>>

RegisterStarted(s) ==
  /\ starters[s].pc = "register"
  /\ hooks' = Append(hooks, starters[s].part)
  /\ starters' = [starters EXCEPT ![s].pc = "returned"]
  /\ UNCHANGED <<composition, started, workers, permit, shutdowns, running,
                 stops, logger, late, panics>>

-----------------------------------------------------------------------------
(* A retention worker: purge, then wait for the cancel or the interval     *)

WorkerGone(w) == workers[w] \in {"none", "exited", "panicked", "aborted"}

(* A permit left by a cancel during the purge ends the loop at its select. *)
PurgeEnds(w) ==
  /\ workers[w] = "purging"
  /\ \/ /\ workers' = [workers EXCEPT ![w] = IF permit[w] THEN "exited" ELSE "waiting"]
        /\ permit' = [permit EXCEPT ![w] = FALSE]
        /\ UNCHANGED panics
     \/ /\ panics < MaxPanics
        /\ panics' = panics + 1
        /\ workers' = [workers EXCEPT ![w] = "panicked"]
        /\ UNCHANGED permit
  /\ UNCHANGED <<composition, hooks, started, starters, shutdowns, running,
                 stops, logger, late>>

(* The interval has elapsed; the select may take this branch although the  *)
(* cancel has woken the worker as well.                                    *)
IntervalElapses(w) ==
  /\ workers[w] \in {"waiting", "woken"}
  /\ workers' = [workers EXCEPT ![w] = "purging"]
  /\ late' = [late EXCEPT ![w] = IF stops[w] > 0 THEN @ + 1 ELSE @]
  /\ UNCHANGED <<composition, hooks, started, starters, permit, shutdowns,
                 running, stops, logger, panics>>

WorkerLeaves(w) ==
  /\ workers[w] = "woken"
  /\ workers' = [workers EXCEPT ![w] = "exited"]
  /\ UNCHANGED <<composition, hooks, started, starters, permit, shutdowns,
                 running, stops, logger, late, panics>>

-----------------------------------------------------------------------------
(* shutdown_async                                                          *)

(* A call may begin once the App runs; on a Runtime, whenever it exists.   *)
TakeHooks(c) ==
  /\ Serving
  /\ \A d \in Shutdowners : shutdowns[d].pc = "idle" <=> d >= c
  /\ entry = "App" =>
       /\ c = 1
       /\ \A s \in Starters : starters[s].pc \in {"idle", "returned"}
       /\ HasExecutor(builder) => \E s \in Starters : starters[s].pc = "returned"
  /\ shutdowns' = [shutdowns EXCEPT ![c] = [Idle EXCEPT !.pc = "next",
                                                        !.list = hooks,
                                                        !.queue = hooks]]
  /\ hooks' = << >>
  /\ UNCHANGED <<composition, started, starters, workers, permit, running,
                 stops, logger, late, panics>>

Hook(c) == Head(shutdowns[c].queue)
InHook(c, part) ==
  /\ shutdowns[c].pc = "next"
  /\ shutdowns[c].queue # << >>
  /\ Hook(c) = part

FirstError(c, error) ==
  IF shutdowns[c].error = "none" THEN error ELSE shutdowns[c].error

(* Mutated form of HookReturns: the first error ends the call.             *)
HookFailsFast(c, error) ==
  shutdowns' = [shutdowns EXCEPT ![c].pc = IF error = "none" THEN "next" ELSE "sync",
                                 ![c].queue = Tail(@),
                                 ![c].error = FirstError(c, error)]
(* The hook is done; the next one follows even after an error.             *)
HookReturns(c, error) ==
  shutdowns' = [shutdowns EXCEPT ![c].pc = "next", ![c].queue = Tail(@),
                                 ![c].error = FirstError(c, error)]

Stopped(parts) ==
  /\ running' = running \ parts
  /\ stops' = [x \in Stoppable |-> IF x \in parts THEN stops[x] + 1 ELSE stops[x]]

(* The instances are shut down in turn; a panic of one is caught, and the  *)
(* loop goes on to the next.                                               *)
StopProvider(c) ==
  LET done == shutdowns[c].done IN
  /\ InHook(c, "providers")
  /\ done < Len(builder.teardown)
  /\ Stopped({builder.teardown[done + 1]})
  /\ \E panic \in BOOLEAN :
       /\ panic => panics < MaxPanics
       /\ panics' = panics + (IF panic THEN 1 ELSE 0)
       /\ shutdowns' = [shutdowns EXCEPT ![c].done = done + 1,
                                         ![c].panicked = @ \/ panic]
  /\ UNCHANGED <<composition, hooks, started, starters, workers, permit, logger,
                 late>>

(* After the last instance, a panic met is an error of the hook.           *)
ProvidersStopped(c) ==
  /\ InHook(c, "providers")
  /\ shutdowns[c].done = Len(builder.teardown)
  /\ Stopped({"providers"})
  /\ HookReturns(c, IF shutdowns[c].panicked THEN "providers" ELSE "none")
  /\ UNCHANGED <<composition, hooks, started, starters, workers, permit, logger,
                 late, panics>>

StopEffects(c) ==
  /\ InHook(c, "effects")
  /\ Stopped({"effects"})
  /\ \E error \in {"none", "effects"} : HookReturns(c, error)
  /\ UNCHANGED <<composition, hooks, started, starters, workers, permit, logger,
                 late, panics>>

(* A participant's hook and the tracer's are awaited as they are: a panic  *)
(* unwinds the whole call and drops the hooks behind it.                   *)
StopOther(c) ==
  \E part \in {"user", "tracer"} :
    /\ InHook(c, part)
    /\ Stopped({part})
    /\ \/ \E error \in {"none"} \cup ({part} \cap {"user"}) : HookReturns(c, error)
       \/ shutdowns' = [shutdowns EXCEPT ![c].pc = "unwound"]
    /\ panics' = IF shutdowns'[c].pc = "unwound" THEN panics + 1 ELSE panics
    /\ panics' <= MaxPanics
    /\ UNCHANGED <<composition, hooks, started, starters, workers, permit,
                   logger, late>>

(* Mutated form of Notify: only a worker that waits is told.               *)
NotifyWaiters(w) ==
  /\ workers' = [workers EXCEPT ![w] = IF @ = "waiting" THEN "woken" ELSE @]
  /\ UNCHANGED permit
(* notify_waiters wakes a worker that waits; notify_one leaves a permit.   *)
Notify(w) ==
  /\ workers' = [workers EXCEPT ![w] = IF @ = "waiting" THEN "woken" ELSE @]
  /\ permit' = [permit EXCEPT ![w] = TRUE]

(* stop(): cancel, wait for the worker until the deadline, then abort it.  *)
CancelWorker(c, w) ==
  /\ InHook(c, w)
  /\ Notify(w)
  /\ stops' = [stops EXCEPT ![w] = @ + 1]
  /\ shutdowns' = [shutdowns EXCEPT ![c].pc = "join"]
  /\ UNCHANGED <<composition, hooks, started, starters, running, logger, late,
                 panics>>

(* Mutated form of JoinWorker: no deadline.                                *)
JoinUnbounded(c, w) ==
  /\ shutdowns[c].pc = "join"
  /\ Hook(c) = w
  /\ WorkerGone(w)
  /\ HookReturns(c, IF workers[w] = "panicked" THEN w ELSE "none")
  /\ running' = running \ {w}
  /\ UNCHANGED <<composition, hooks, started, starters, workers, permit, stops,
                 logger, late, panics>>
JoinWorker(c, w) ==
  /\ shutdowns[c].pc = "join"
  /\ Hook(c) = w
  /\ \/ /\ WorkerGone(w)
        /\ HookReturns(c, IF workers[w] = "panicked" THEN w ELSE "none")
        /\ UNCHANGED workers
     \/ /\ ~WorkerGone(w)
        /\ workers' = [workers EXCEPT ![w] = "aborted"]
        /\ HookReturns(c, w)
  /\ running' = running \ {w}
  /\ UNCHANGED <<composition, hooks, started, starters, permit, stops, logger,
                 late, panics>>

HooksDone(c) ==
  /\ shutdowns[c].pc = "next"
  /\ shutdowns[c].queue = << >>
  /\ shutdowns' = [shutdowns EXCEPT ![c].pc = "sync"]
  /\ UNCHANGED <<composition, hooks, started, starters, workers, permit,
                 running, stops, logger, late, panics>>

(* TeardownStack::drain; the logger's own error comes after a hook's.      *)
DrainStack(c) ==
  /\ shutdowns[c].pc = "sync"
  /\ logger' = "closed"
  /\ \E error \in IF logger = "open" THEN {"none", "logger"} ELSE {"none"} :
       shutdowns' = [shutdowns EXCEPT ![c].pc = "returned",
                                      ![c].error = FirstError(c, error)]
  /\ UNCHANGED <<composition, hooks, started, starters, workers, permit,
                 running, stops, late, panics>>

-----------------------------------------------------------------------------
StarterStep(s) == \/ \E part \in Startable : Start(s, part)
                  \/ Spawn(s) \/ RegisterStarted(s)

WorkerStep(w) == PurgeEnds(w) \/ IntervalElapses(w) \/ WorkerLeaves(w)

ShutdownStep(c) ==
  \/ StopProvider(c) \/ ProvidersStopped(c) \/ StopEffects(c) \/ StopOther(c)
  \/ \E w \in Workers : CancelWorker(c, w) \/ JoinWorker(c, w)
  \/ HooksDone(c) \/ DrainStack(c)

Over ==
  /\ \/ phase \in {"refused", "panicked"}
     \/ \A c \in Shutdowners : shutdowns[c].pc \in {"returned", "unwound"}
     \/ entry = "App" /\ \E c \in Shutdowners : shutdowns[c].pc \in {"returned", "unwound"}
  /\ UNCHANGED vars

Next ==
  \/ ComposeOne \/ Finish \/ RegisterHook
  \/ \E s \in Starters : StarterStep(s)
  \/ \E w \in Workers : WorkerStep(w)
  \/ \E c \in Shutdowners : TakeHooks(c) \/ ShutdownStep(c)
  \/ Over

Spec == Init /\ [][Next]_vars

(* The tasks are scheduled, and providers and participants answer their    *)
(* shutdown, which nothing bounds.  A purge may hang.  Each task takes     *)
(* finitely many of these steps, so that one condition is fair to them all.*)
Scheduled ==
  \/ \E s \in Starters : Spawn(s) \/ RegisterStarted(s)
  \/ \E w \in Workers : WorkerLeaves(w)
  \/ \E c \in Shutdowners : ShutdownStep(c)

FairSpec == Spec /\ WF_vars(Scheduled)

-----------------------------------------------------------------------------
(* Properties                                                              *)

Returned(c) == shutdowns[c].pc = "returned"

(* A shutdown call that returns has stopped everything whose hook it took, *)
(* whatever errors it met on the way, and answers Ok only if every worker  *)
(* among them left by itself; nothing is ever shut down twice, neither by  *)
(* a second call nor through a second provider id.                         *)
ShutdownIsThorough ==
  /\ \A x \in Stoppable : stops[x] <= 1
  /\ \A c \in Shutdowners : Returned(c) =>
       \A i \in DOMAIN shutdowns[c].list :
         LET part == shutdowns[c].list[i] IN
         /\ part \notin running
         /\ stops[part] = 1
         /\ part = "providers" => ToSet(builder.teardown) \cap running = {}
         /\ part \in Workers =>
              /\ WorkerGone(part)
              /\ shutdowns[c].error = "none" => workers[part] = "exited"

(* A cancel is not lost: a worker begins at most one more purge after it.  *)
CancelIsNotLost == \A w \in Workers : late[w] <= 1

(* A worker whose hook a shutdown call has taken ends, unless the panic of *)
(* another part's hook unwinds that call first.  It is assumed that the    *)
(* hooks before it return: nothing in shutdown_async bounds a provider's   *)
(* shutdown() or a hook that the host has registered.                      *)
Takes(c, w) == Contains(shutdowns[c].list, w)
WorkersEnd ==
  \A w \in Workers :
    (\E c \in Shutdowners : Takes(c, w))
      ~> (\/ WorkerGone(w)
          \/ \E c \in Shutdowners : Takes(c, w) /\ shutdowns[c].pc = "unwound")
=============================================================================
