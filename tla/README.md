# TLA+ verification of ego-rs

ego-rs is a Rust runtime for event-sourced services.  This directory holds TLA+
models of its stateful core, the TLC configurations that check them on small
instances, and proofs of the port contract's safety that TLAPS checks for every
value of the constants.

## 1. The system and its hard parts

| Part | State | Operations | What makes it hard | Modules |
|---|---|---|---|---|
| Operation reservations (`persistence-api/src/operation/reservation.rs`, `persistence-memory`, `persistence`, `persistence-stoolap`) | one record per operation key: absent, held under a lease and a fencing token, or completed with a response | reserve, renew, complete, abandon, purge | several processes on clocks that drift; leases that lapse under a running holder; multi-statement calls; keys that are purged and re-created | `ReservationContract`, `InMemoryReservation`, `SqlReservation` |
| Dispatch (`service-sdk/src/runtime`, `service-sdk/src/idempotency`, `service-sdk-macros`, `security-sdk`) | where each request is, the permit it holds | authorize, resolve the tenant, reserve, run the handler, complete, answer | crash between the handler's writes and the completion; lost answers; retries by other processes; retention; guards whose order and modes interact | `DispatchGuards`, `IdempotentDispatch` |
| Effect delivery (`runtime/src/effects`, `effect-store/src/stoolap`) | one row per effect, a dedup record per idempotency key, a bounded queue, a drain loop, tasks with permits | accept, receive, reclaim, dispatch, execute, retry, give up, purge | an effect can be in the queue and in the store's due list at once; a store call can fail after it took effect; panics; retention that selects first and deletes later | `EffectPort`, `EffectDelivery` |
| Shared effect store (`effect-store/src/postgres`) | rows with a claim and its expiry | claim, mark, reserve, commit, release, purge | several processes; leases that run out under a working holder; dead processes | `LeasedEffects` |
| Acceptance and shutdown of effects (`runtime/src/effects/acceptor.rs`, `runner.rs`) | the lifecycle gate, calls admitted, tasks and executors still running | accept a batch, shut down and wait | callers, loop, tasks and the shutdown run at once under one deadline; stores and executors that never answer; a batch accepted in part | `EffectAcceptor` |
| Persistent entities (`persistent-entity/src`) | registry, mailbox, actor, event stream, receipts, snapshots | route, send, recover, gate, handle, commit, apply, snapshot, passivate | two nodes with an actor each for one entity; a stale registry entry; commands that arrive while an actor goes away; a lost commit answer and the client's retry | `EntityActor` |
| Event stores (`persistence*/…/event_store.rs`) | streams, receipts, open units of work, row locks, pooled connections | load, append, find and confirm a receipt, commit | units that race over several streams; waits on locks and on the pool; a commit whose answer is lost; three stores with three notions of isolation | `EventPlans`, `EventLog`, `EventStores` |
| Read side (`domain/src/read_side`, `runtime/src/read_side`, `persistence*/read_side`) | offsets, dedup marks, claims | claim, process, record, advance | crash between projection and offset; two processors; expired claims | `ReadSide` |
| Application (`service-sdk/src/app`, `runtime/builder.rs`, `retention.rs`, `effect_retention.rs`) | what was registered, teardown hooks, worker loops | compose, build, start, register, shut down | builder calls in any order; starts and shutdowns that overlap; a worker that hangs or panics while it is stopped | `AppBuilder`, `AppLifecycle` |
| Authentication (`security-jwt/src`) | the key cache, the debounce of the forced refresh, the introspection cache, a pool of threads | authenticate, refresh, introspect, evict | a key change seen by some callers first; concurrent misses; a cache at its limit; an issuer that does not answer | `TokenRules`, `OidcProvider` |

What each part must guarantee is stated as the properties of its module, listed
in section 3; what can go wrong where is the list `hazards` in `PROJECT.json`.

## 2. The modules

`ReservationConstants` declares the parameters of a reservation store and what
is assumed of them, `ReservationState` the state that the contract and the SQL
stores share.  `ReservationContract` is the abstract specification of the
port: what any store behind `OperationReservationStore` promises.  Each owner
process has its own clock; a lease may be presented at any time after it was
handed out.  Two history variables record what no store keeps: how often a key
was reserved afresh (`incarnation`) and every lease handed out (`grants`).  A
stored response is abstracted to the lease whose execution produced it.

`InMemoryReservation` has one step per call, as the store's mutex makes it, and
one disjunct per branch of `reserve`.  `SqlReservation` has one step per SQL
statement; a call is a small program counter, other callers' statements run
between two of its statements, and a call may stop anywhere (a dropped future,
a lost connection).  Both are shown to implement the contract by a refinement
mapping: the in-memory store maps its one clock to every owner, the SQL stores
drop the columns a completed row keeps.

`DispatchGuards` gives, as operators, what a request passes before the store is
asked: the key policy at the edge, authorization, tenant scope, and the
idempotency gate, in the order of the generated code, each answering a value or
a refusal.  `IdempotentDispatch` extends `InMemoryReservation` with the life of
a request: guards, reserve, the handler's durable steps, complete, answer, and
the client's retry.  A handler's writes are its steps; an aggregate applies a
step at most once, by the receipt gate that `EntityActor` models in detail.

`EffectPort` holds what every effect store shares: the dedup record of an
idempotency key and the runner's reaction to it.  `EffectDelivery` is one
process over the in-memory store or over the durable Stoolap store: the drain
loop, tasks as sequences of store calls around one executor call, the
two-statement `reserve` of Stoolap, and the retention worker, which selects
expired reservations and deletes them one by one.  `LeasedEffects` is several
processes over the PostgreSQL store.

`EffectAcceptor` is the other half of the effect runtime: callers that hand in
batches through the lifecycle gate, Deferred or Inline, and `shutdown_and_wait`
step by step.  What a dispatch does to the stores is left to `EffectDelivery`;
here only whether it is still running matters, and neither a store nor an
executor is assumed to answer.

`EntityActor` is one entity on several nodes: registry, mailbox, actor
life cycle, recovery from snapshot and events, the receipt gate, commit,
snapshots and passivation.

`EventLog` is what an event store promises: a unit of work reads its streams'
versions and later takes effect as a whole, at one instant, or leaves no trace.
`EventStores` is the three stores, statement by statement, for callers whose
units `EventPlans` describes.  The waits of PostgreSQL on an uncommitted key, its
deadlock detection, its pool of connections and the snapshot reads of Stoolap
are external and modelled as the code relies on them.

`ReadSide` is the poll loops of one projection: per tag a session that claims,
reads, fetches, filters, handles, renews, marks, writes and releases, one step
per store call.  Claims are modelled for the one-statement PostgreSQL store and
for the three-statement Stoolap store.  A claim's token is compared for equality
only and stamped once per session, so it is represented by the row's owner.

`AppBuilder` is the composition of an application: every call of `AppBuilder` and
`RuntimeBuilder` that a later step reads, the first error that the former keeps,
and the checks of `build`.  `AppLifecycle` extends it with what is built: start,
teardown hooks, a participant registered by the host, the retention loops with
their cancel signal, and shutdown called by several tasks.

`TokenRules` gives what is checked of a configuration and of a token, as
operators.  `OidcProvider` is the provider in operation: the key resolver with
its background and its forced refresh, introspection with its bounded cache, and
the worker threads that both wait for.  A signature is the key that made it; the
issuer publishes one key set after another and revokes opaque tokens.

`ReservationContractProofs` holds the theorems.

How the modules build on each other:

    ReservationConstants <- ReservationState, InMemoryReservation
    ReservationState     <- ReservationContract, SqlReservation
    ReservationContract  <- ReservationContractProofs
    InMemoryReservation  <- IdempotentDispatch
    DispatchGuards       <- IdempotentDispatch
    EffectPort           <- EffectDelivery, LeasedEffects
    EventPlans           <- EventLog, EventStores
    AppBuilder           <- AppLifecycle
    TokenRules           <- OidcProvider
    EffectAcceptor, EntityActor, ReadSide stand alone
    SqlReservation, InMemoryReservation  refine  ReservationContract
    EventStores                          refines EventLog

The `map` of `PROJECT.json` gives, for every definition, the lines it models.  A
definition is mapped to one range; where two stores run the same statements
(PostgreSQL and Stoolap reservations, the in-memory and the Stoolap effect
store) the range is that of one of them.

## 3. The runs

Passing runs.  Where deadlock is not checked the system may really come to rest
(all requests answered, all loops stopped).

| Run | Question | What it shows |
|---|---|---|
| `sql_reservation` | Do the SQL statements implement the contract, whatever runs between them? | Every statement maps to a step of the contract or to a stutter; a displaced lease never publishes. |
| `idempotent_dispatch` | Does a request run once, for the tenant it may act for, and get its answer? | The in-memory store implements the contract under the dispatcher; a request only touches an operation of a tenant it may act for; no two running handlers share a permit; Ok means every durable step is applied with the request's content; every client that retries is answered for good, unless a lease cannot lapse within the clock bound. |
| `effect_delivery` | Are effects settled, and recorded truthfully? | One execution per key at a time; success is recorded only after a delivery; a confirmed key is not executed again before retention removes it; every accepted effect is settled. |
| `leased_effects` | Do several processes deliver without treading on each other? | Leases running out under a working holder never let two executors run for one key; a recorded success is deleted by retention only, while leases hold; a dead process's claim is taken over. |
| `effect_shutdown` | What does a shutdown of the effect runtime guarantee? | Ok means that no call, task or executor is left; a batch accepted in part is reported as it is; the shutdown and every admitted call return, whatever hangs. |
| `entity_receipts` | Is a command applied once, on two nodes? | With a retry, a reuse of its key, a crash, a panic or a lost commit answer, the operation is applied at most once, replies are true, the actor's state is the replay of the stream, a node has one actor, and no command is left where nobody will take it up. |
| `event_stores` | Do the three event stores keep the promise of one log? | Each store implements `EventLog`; a key takes effect once; answers are true; no wait for a lock or for the pool is for good. |
| `read_side` | Does a projection see every event, in order? | Whatever fails or crashes, what was handled is a prefix of the stream and neither offset nor dedup entries run ahead of it; two workers never commit a tag at once; the offset never rewinds; every event is handled unless its stream is stuck (section 6). |
| `app_lifecycle` | Does what is composed start and stop? | A composition builds exactly when it is complete, whatever the order of calls; a shutdown that returned has stopped everything it took; a cancel is not lost; the worker loops end. |
| `authentication` | Do keys and caches follow the issuer? | A revoked token is refused once the cache's lifetime is over; every cache entry can be evicted; forced refreshes are single and debounced; the keys converge to the issuer's; every call is answered. |

Runs that show a disagreement between the code and its documentation:

| Run | Disagreement |
|---|---|
| `takeover_content` | A takeover whose UPDATE is delayed past a purge and a re-reservation takes over a row of other content. |
| `leased_stale` | A row left in flight by a dead process is claimed again and again, and never dispatched. |

**Bounds.**  Two owners, workers or nodes are enough for every race the code
can lose: a takeover has one loser and one winner.  Two incarnations of a key
show what a purge and a re-creation do to an old fence.  The SQL instance has
one content, because with two the refinement fails as `takeover_content` shows.
Dispatch is explored under seven plans of three requests each: contention for
one key, two tenants with one key, and five deployments in which the guards
refuse or let pass; one failure per behaviour, none where two operations are
under way at once.  Effects are explored in five settings: three effects of one
key without failures; two with a failing call in memory; two with a failing
call, a crash and a shutdown on Stoolap; two with two permits and a crash; two
with retention.  In the PostgreSQL effect store slow work, failing calls and
retention are explored apart.  Queues and mailboxes have room for one, so that
both the full and the empty case occur.  The event stores' units touch two
streams in opposite orders over a pool of two connections, the smallest
instance with a cycle of lock waits and an exhausted pool.  Three events in
pages of two give a full page, a partial page and a partly marked page; the
two-tag tick is explored with one worker.  Compositions of four calls reach
every pair of registrations that meet in `build`, in both orders.  The
introspection cache has room for one entry, so that the second insert evicts.
One fault and one crash per behaviour: the properties concern what one failure
may do at any place, and each fault can strike before or after the call took
effect.  Clocks are bounded by `MaxClock`; a behaviour in which time has run out
is excepted from liveness by name (`NeverLapses`).

**Fairness.**  Weak fairness for every loop, task, actor and handler: tokio
polls a ready task, and, except in `EffectAcceptor` and for the hanging worker of
`AppLifecycle`, executors and handlers return.  Strong fairness for the branches
of the effect loop's `select!` (`Receive`, `ClaimDue`), which picks among the
ready branches.  Weak fairness for the passing of time: leases lapse, backoffs
elapse, deadlines strike.  None for faults, crashes, inserts, new calls or stop
requests.  In `ReadSide` a lease is taken not to lapse during the commit that
its renewal opened, and may lapse early only as often as calls may fail.  The
callers of `EventStores` and `OidcProvider` make finitely many steps each, so
one fairness condition for all of them together is enough there.  The in-memory event store is explored with one writer per entity
(`SingleWriter`), as the entity runtime uses it.

Each property of a passing run is also violated by a mutated form of one
definition, kept beside the definition it mutates and listed in `mutants`.

## 4. What is proved

`ReservationContractProofs` proves, for any sets of operations, owners and
contents and any bounds, from the assumptions that the lease is positive, the
window and the bounds natural numbers and the last token at least 1:

- `ContractTypeCorrect`, `FencingIsUnique`, `FencedOutNeverPublishes`: the
  invariants `TypeOK`, `FenceIsUnique` and `DisplacedNeverPublishes`;
- `CompletedStays`: the action property `CompletedIsStable`;
- `ContractInvariant`: the inductive invariant they rest on.

None of the invariants is inductive alone.  That a takeover's lease is new needs
that no lease of this incarnation has a greater token than the record
(`HolderIsNewest`); that a fresh lease is new needs that no lease has a later
incarnation; that a published response is the newest lease's needs that the
record's fence was handed out as recorded (`HolderWasGranted`).  `IInv` is their
conjunction; each action has a lemma that preserves it.

The runs carry the theorems over to the stores: `sql_reservation` and
`idempotent_dispatch` check `ImplementsContract`, so what is proved of the
contract (unique fences, completed records that stay) holds of the stores on
the instances explored, without being checked a second time.

Only model-checked: liveness and everything under fairness, the refinements,
and all properties of the modules other than the contract.

## 5. What is not modelled

`components` in `PROJECT.json` lists every part with its status.  Not modelled,
and why:

- health: reports put together on demand, on which nothing in the system acts;
- data providers: one call's own retry loop with a timeout per attempt, no state
  between calls;
- the event bus of `ego-scheduler`, scheduling hints, entity builder and runtime
  configuration: setters and hints without state that another part reads;
- the two execution runtimes, which nothing outside their own crates uses;
- migrations and the aggregate-type backfill: SQL text, and an operator's
  offline step in one transaction whose substance is the splitting of strings;
- observability, and the conversions of transport and context other than the
  operation key and the tenant;
- the fingerprint's canonical form: content is equal, different, or cannot be
  serialized;
- test kit, conformance suites, example and build tasks.

Of the repository's 90 thousand lines of Rust about 26 thousand are code that is
neither test nor comment; the map covers a good quarter of those.  The rest is
the list above, the second store of two that run the same statements, and
declarations, constructors, accessors, error types and log fields.

Of the modelled parts these are simplified: the offset and dedup upserts of the
Stoolap read side are one step (their fallback statements need a second writer,
which claims exclude); a row's clock comparisons are a flag or a set of workers
where only their outcome matters; settings that no later step reads are left out
of `AppBuilder`.

## 6. Remarks on the code met while modelling

Reservations and dispatch

- `persistence-api/src/operation/reservation.rs:297-298`.  Tokens restart at 1
  when a key is re-created, so a fence of an earlier incarnation can equal the
  current one; the contract's properties are stated per incarnation.
- `persistence/src/postgres/reservation.rs:308-313`.  The comment calls the
  token predicate of the takeover redundant, since every change of the token
  moves the lease into the future.  On drifting clocks, or with a bound computed
  long before the statement runs, the new lease may already have lapsed on the
  next taker's clock; then the token alone rejects it.
- The reservation is keyed by tenant and operation key, and the fingerprint
  covers the arguments and not the method: two methods called with equal
  arguments under one key share one operation.

Effects

- `runtime/src/effects/runner.rs:492`.  An effect waiting in the queue may also
  be reclaimed; the queue copy's attempt number 0 then replaces the stored one,
  and the executor is called more often than `max_attempts` + 1 times
  (`policy.rs:14-15`).
- `runner.rs:376-396`.  Shutdown drains the list of executor abort handles once;
  an executor whose handle is registered between that pass and the abort of the
  tasks outlives the shutdown, which `acceptor.rs:270-273` calls the guarantee
  that every child is gone.  The shutdown then answers an error, so
  `OkMeansQuiet` holds.
- `acceptor.rs:345-349`.  The comment expects a wait that ended by its deadline
  to become a timeout further down.  In Inline mode there is no loop to wait for,
  and a drain that finds nothing left answers Ok.
- Retention counts the age of a dedup reservation from its commit and that of a
  row from its settlement: a key delivered but unconfirmed for longer than the
  retention period may be executed again.  `ConfirmedNeverRepeated` ends where
  retention removed the key.

Entities and event stores

- `persistent-entity/src/actor.rs:152-158`.  A snapshot that does not deserialize
  is replaced by the initial state at the snapshot's version, so the events
  before it are not replayed.  `StateIsReplay` is checked for snapshots that
  decode (`SnapshotDecodes`); with one that does not, it fails.
- `actor.rs:328`.  A command that emits nothing confirms its receipt without a
  version check: it may have read a state that another node has moved on from.
- `persistent-entity/src/persistence.rs:262`.  The snapshot key joins type and
  id with a hyphen, so two names may coincide.
- The in-memory unit of work commits without comparing versions again and
  overwrites receipts: it is correct for one writer per entity only.
- The Stoolap unit of work reports a race lost at commit as an internal error,
  its `append` reports a conflict; the PostgreSQL unit of work reads a committed
  receipt through the pool while it holds a connection of its own.

Read side

- `domain/src/read_side/session.rs:225`.  A crash or a failing call after the
  last `mark_seen` and before `write_offset` leaves a page that is all seen and
  an offset before it.  Every later poll fetches that page, finds only
  duplicates and returns without moving the offset.  If events follow the full
  page they are never handled: the stall the comment at lines 176-182 describes.
  `EveryEventHandled` names this case (`Stuck`) as its one exception.
- `session.rs:240-275`.  The renewal and the writes it guards are separate
  calls, and `write_offset` compares nothing: a worker paused past its lease
  between them rewinds its successor's offset.  The specification of claiming
  (`openspec/specs/read-side-event-claiming/spec.md:68-87`) asks every write to
  verify the claim.

Application

- Starting the effect runtime never fails, so the rollback in `App::start` is
  not reached.
- A hook registered after a shutdown took the hooks stays until shutdown is
  called again.  A second concurrent `shutdown_async` finds no hooks, returns
  without waiting for the first, and drains the synchronous stack while hooks
  still run; the doc at `builder.rs:1602-1606` has hooks complete before it.
- A panic in a hook unwinds `shutdown_async` and drops the remaining hooks.

Authentication

- A call that misses the key cache while another refreshes it, or within the
  debounce period, is refused without a second look at the cache.
- A fetch that began earlier may overwrite the keys of a later one until the
  next tick of the background refresh; without a Tokio handle there is no
  background refresh.
- `security-jwt/src/introspection.rs:390-411`.  The eviction queue gets an entry
  per store and loses entries only while the cache is full: below the limit,
  tokens stored again after their lifetime make it grow past the cache.

Outside the models

- `runtime-tokio/src/lib.rs:228-232`.  The spawned task may end before its unit
  is inserted; `get_mut(&id).unwrap()` then panics under the lock and poisons it
  for every other execution.  `runtime/src/runtime/runtime.rs:34` promises that a
  failure in one execution does not affect others.
- `runtime/src/runtime/runtime.rs:147` drops the receiver of the channel it
  creates, so a message can never be sent.
- `ego-scheduler/src/event_bus.rs:185-187`.  When the bus is full both drop
  policies discard the new event and answer Ok.

## 7. The plan

1. Proofs: `InMemoryReservation` and `SqlReservation` implement the contract;
   `NoEventSkipped` and `CommitsAlone` of the read side; `NoFalseSuccess` and
   `ScopeExclusive` of effect delivery; `AppliedOnce` of the entity;
   `CancelIsNotLost` of the lifecycle; `CacheIsEvictable` of authentication.
2. Refinements: `EntityActor` over `EventLog`; `LeasedEffects` and
   `EffectDelivery` against one abstract delivery.
3. `ReadSide` with a lease that may lapse during the commit, once the offset
   store compares what it overwrites.
