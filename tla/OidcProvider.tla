----------------------------- MODULE OidcProvider -----------------------------
(***************************************************************************)
(* Authentication by an OIDC provider: the key resolver with its cache,    *)
(* its background and its forced refresh, the introspection of opaque      *)
(* tokens with its bounded cache, and the pool of worker threads both wait *)
(* for (crates/security-jwt/src: oidc_provider.rs, jwks.rs,                *)
(* introspection.rs, authenticator.rs).                                    *)
(*                                                                         *)
(* The issuer is external: it publishes one set of keys after another and  *)
(* revokes opaque tokens.  A call is one authenticate.  The plan fixes the *)
(* configuration, the calls' tokens, the key sets, the tokens that may be  *)
(* revoked, a bound on the requests to the issuer that fail and one on     *)
(* time.  Time is counted in units; the period of the background refresh   *)
(* is not related to it.                                                   *)
(*                                                                         *)
(* A client is "http", the default on top of reqwest, or the host's own.   *)
(* reqwest needs the reactor of a Tokio runtime; a thread of the pool has  *)
(* none, and what runs there panics (jwks.rs says so, and fetches on a     *)
(* thread of its own).  A panic ends the thread, which nobody replaces.    *)
(* The host's own introspection client comes with an introspection         *)
(* provider alone (IntrospectionAuthenticationProvider): no keys.          *)
(***************************************************************************)
EXTENDS TokenRules, Sequences, SequencesExt

CONSTANTS
  Calls,
  Plans,       \* what is configured, each call's token, and what the issuer does
  PoolSize,    \* RESOLVER_POOL_SIZE
  Debounce,    \* FORCE_REFRESH_DEBOUNCE_SECS
  MaxEntries   \* MAX_INTROSPECTION_CACHE_ENTRIES

ASSUME ProviderAssumption ==
  /\ PoolSize \in Nat \ {0} /\ Debounce \in Nat \ {0} /\ MaxEntries \in Nat \ {0}
  /\ \A p \in Plans : p.keysets # << >> /\ p.faults \in Nat /\ p.until \in Nat

VARIABLES
  plan,
  provider,    \* "new", "ready" or "refused"
  lost,        \* the workers of the pool that a panic has ended
  clock,
  published,   \* how many times the issuer has changed its keys
  revoked,     \* when each opaque token was revoked, NoValue if it was not
  keys,        \* JwksKeyResolver.cache
  last,        \* last_force_refresh
  refreshing,  \* refresh_in_flight
  loop,        \* the background refresh
  entries,     \* the introspection cache: per token, the time and the answer
  queue,       \* the eviction queue
  call,
  stored,      \* history: when a forced refresh last replaced the keys
  faults

issuer == <<published, revoked>>
jwks == <<keys, last, refreshing, stored>>
opaque == <<entries, queue>>
vars == <<plan, provider, lost, clock, issuer, jwks, loop, opaque, call, faults>>

config == plan.config
Token(c) == plan.tokens[c]
Tokens == UNION {ToSet(p.tokens) : p \in Plans}
Current == plan.keysets[published + 1]
Idle == [pc |-> "idle", start |-> 0, got |-> {}, key |-> NoValue, result |-> NoValue]

Init ==
  /\ plan \in Plans
  /\ provider = "new"
  /\ lost = 0
  /\ clock = 0
  /\ published = 0
  /\ revoked = [t \in Tokens |-> NoValue]
  /\ keys = {}
  /\ last = 0 - (Debounce + 1)
  /\ refreshing = FALSE
  /\ loop = [pc |-> "off", got |-> {}]
  /\ entries = << >>
  /\ queue = << >>
  /\ call = [c \in Calls |-> Idle]
  /\ stored = 0 - (Debounce + 1)
  /\ faults = plan.faults

(* A request to the issuer: its current keys, or an error or no key.       *)
Fetched(keyset) ==
  \/ keyset = Current /\ UNCHANGED faults
  \/ keyset = {} /\ faults > 0 /\ faults' = faults - 1

-----------------------------------------------------------------------------
(* Construction: validation, discovery of the key endpoint, the warm-up,   *)
(* and the background task when there is a runtime to run it.              *)

HasResolver == config.introspector = "http"
Discovers == HasResolver /\ config.jwks_uri = NoValue

(* A period of zero makes the background task panic as it begins.          *)
Refreshes == HasResolver /\ config.runtime /\ config.refresh_ttl > 0

(* The warm-up has a thread and a runtime of its own; a failure leaves the *)
(* cache empty.                                                            *)
WarmUp ==
  IF ~HasResolver THEN UNCHANGED <<keys, loop, faults>>
  ELSE /\ \E keyset \in {Current, {}} : Fetched(keyset) /\ keys' = keyset
       /\ loop' = [loop EXCEPT !.pc = IF Refreshes THEN "wait" ELSE "off"]

Construct ==
  /\ provider = "new"
  /\ \/ /\ ~Validates(config)
        /\ provider' = "refused"
        /\ UNCHANGED <<keys, loop, faults, lost>>
     \/ /\ Validates(config)
        /\ Discovers => config.discovery = "own"
        /\ provider' = "ready"
        /\ WarmUp
        /\ UNCHANGED lost
     \/ /\ Validates(config) /\ Discovers
        /\ provider' = "refused"
        /\ IF config.discovery = "own"
           THEN faults > 0 /\ faults' = faults - 1 /\ UNCHANGED lost
           ELSE lost' = lost + 1 /\ UNCHANGED faults
        /\ UNCHANGED <<keys, loop>>
  /\ UNCHANGED <<plan, clock, issuer, last, refreshing, stored, opaque, call>>

-----------------------------------------------------------------------------
(* The background refresh                                                  *)

RefreshTick ==
  /\ loop.pc = "wait"
  /\ \E keyset \in {Current, {}} :
       Fetched(keyset) /\ loop' = [pc |-> "store", got |-> keyset]
  /\ UNCHANGED <<plan, provider, lost, clock, issuer, jwks, opaque, call>>

(* Mutated form of RefreshStore: only an empty cache is filled.            *)
RefreshStoreIfEmpty ==
  /\ loop.pc = "store"
  /\ keys' = IF keys = {} THEN loop.got ELSE keys
  /\ loop' = [pc |-> "wait", got |-> {}]
  /\ UNCHANGED <<plan, provider, lost, clock, issuer, last, refreshing, stored, opaque, call, faults>>
(* An empty or failed answer keeps the keys there are.                     *)
RefreshStore ==
  /\ loop.pc = "store"
  /\ keys' = IF loop.got = {} THEN keys ELSE loop.got
  /\ loop' = [pc |-> "wait", got |-> {}]
  /\ UNCHANGED <<plan, provider, lost, clock, issuer, last, refreshing, stored, opaque, call, faults>>

-----------------------------------------------------------------------------
(* A call                                                                  *)

Goto(c, pc) == call' = [call EXCEPT ![c].pc = pc]
Answer(c, result) ==
  call' = [call EXCEPT ![c] = [Idle EXCEPT !.pc = "done", !.result = result,
                      !.start = IF result = "Ok" THEN call[c].start ELSE 0]]

(* authenticate, up to the pool or the introspection cache.  Calls with    *)
(* the same token are numbered in the order they begin.                    *)
Begin(c) ==
  LET t == Token(c) IN
  /\ provider = "ready"
  /\ c \in DOMAIN plan.tokens /\ call[c].pc = "idle"
  /\ \A d \in Calls : d < c /\ Token(d) = t => call[d].pc # "idle"
  /\ CASE ~t.fits \/ ~Routed(config, t) -> Answer(c, "InvalidToken")
       [] TakesJwtPath(config, t) ->
            IF t.shape # "jwt" THEN Answer(c, "InvalidToken")
            ELSE IF Supported(config, t) THEN Goto(c, "pool")
            ELSE Answer(c, "AlgorithmNotSupported")
       [] OTHER ->
            IF ~Introspects(config) THEN Answer(c, "InvalidToken")
            ELSE call' = [call EXCEPT ![c].start = clock,
                            ![c].pc = IF Caches(config) THEN "lookup" ELSE "pool"]
  /\ UNCHANGED <<plan, provider, lost, clock, issuer, jwks, loop, opaque, faults>>

(* resolver_pool: a task waits for one of the workers that are left.       *)
Working(c) ==
  call[c].pc \in {"resolve", "debounce", "fetch", "store", "stamp", "reread", "introspect"}
TakeWorker(c) ==
  /\ call[c].pc = "pool"
  /\ Cardinality({d \in Calls : Working(d)}) < PoolSize - lost
  /\ Goto(c, IF TakesJwtPath(config, Token(c)) THEN "resolve" ELSE "introspect")
  /\ UNCHANGED <<plan, provider, lost, clock, issuer, jwks, loop, opaque, faults>>

-----------------------------------------------------------------------------
(* The key resolver                                                        *)

WithKid(t) == {k \in keys : k.kid = t.kid}

UseKey(c) ==
  LET key == CHOOSE k \in WithKid(Token(c)) : TRUE IN
  IF SameAlgorithm(key, Token(c))
  THEN call' = [call EXCEPT ![c].pc = "validate", ![c].key = key, ![c].got = {}]
  ELSE Answer(c, "AlgorithmNotSupported")

(* resolve, the cached case.                                               *)
Resolve(c) ==
  /\ call[c].pc = "resolve"
  /\ IF WithKid(Token(c)) # {} THEN UseKey(c) ELSE Goto(c, "debounce")
  /\ UNCHANGED <<plan, provider, lost, clock, issuer, jwks, loop, opaque, faults>>

(* Mutated form of Debounced: a refresh under way is not noticed.          *)
DebouncedByTime == clock - last < Debounce
Debounced == clock - last < Debounce \/ refreshing

(* should_refresh: both tests under the lock of last_force_refresh.  Who   *)
(* may not refresh does not look again.                                    *)
TryRefresh(c) ==
  /\ call[c].pc = "debounce"
  /\ IF Debounced THEN Answer(c, "InvalidSignature") /\ UNCHANGED refreshing
     ELSE Goto(c, "fetch") /\ refreshing' = TRUE
  /\ UNCHANGED <<plan, provider, lost, clock, issuer, keys, last, stored, loop, opaque, faults>>

(* force_refresh: the request, the keys, and the time of success.          *)
ForceFetch(c) ==
  /\ call[c].pc = "fetch"
  /\ \E keyset \in {Current, {}} :
       /\ Fetched(keyset)
       /\ call' = [call EXCEPT ![c].got = keyset,
                               ![c].pc = IF keyset = {} THEN "reread" ELSE "store"]
  /\ UNCHANGED <<plan, provider, lost, clock, issuer, jwks, loop, opaque>>

ForceStore(c) ==
  /\ call[c].pc = "store"
  /\ keys' = call[c].got
  /\ stored' = clock
  /\ Goto(c, "stamp")
  /\ UNCHANGED <<plan, provider, lost, clock, issuer, last, refreshing, loop, opaque, faults>>

ForceStamp(c) ==
  /\ call[c].pc = "stamp"
  /\ last' = clock
  /\ Goto(c, "reread")
  /\ UNCHANGED <<plan, provider, lost, clock, issuer, keys, refreshing, stored, loop, opaque, faults>>

(* Mutated form of Reread: the flag is lowered when a key was found.       *)
RereadThenReset(c) ==
  /\ call[c].pc = "reread"
  /\ IF WithKid(Token(c)) # {}
     THEN UseKey(c) /\ refreshing' = FALSE
     ELSE Answer(c, "InvalidSignature") /\ UNCHANGED refreshing
  /\ UNCHANGED <<plan, provider, lost, clock, issuer, keys, last, stored, loop, opaque, faults>>
(* The second look, and ResetOnDrop.                                       *)
Reread(c) ==
  /\ call[c].pc = "reread"
  /\ IF WithKid(Token(c)) # {} THEN UseKey(c) ELSE Answer(c, "InvalidSignature")
  /\ refreshing' = FALSE
  /\ UNCHANGED <<plan, provider, lost, clock, issuer, keys, last, stored, loop, opaque, faults>>

(* authenticate_inner, once the key is there.                              *)
Validate(c) ==
  /\ call[c].pc = "validate"
  /\ Answer(c, IF call[c].key.usable
               THEN ValidationResult(config, Token(c), call[c].key, clock)
               ELSE "InvalidToken")
  /\ UNCHANGED <<plan, provider, lost, clock, issuer, jwks, loop, opaque, faults>>

-----------------------------------------------------------------------------
(* Introspection                                                           *)

(* An entry from the future counts as old.                                 *)
Fresh(c) ==
  LET t == Token(c) IN
  /\ t \in DOMAIN entries
  /\ call[c].start - entries[t] \in 0 .. config.cache_ttl - 1

Lookup(c) ==
  /\ call[c].pc = "lookup"
  /\ IF Fresh(c) THEN Answer(c, "Ok") ELSE Goto(c, "pool")
  /\ UNCHANGED <<plan, provider, lost, clock, issuer, jwks, loop, opaque, faults>>

(* call_introspect; an active token's claims are mapped to a principal.    *)
Introspect(c) ==
  /\ call[c].pc = "introspect"
  /\ ~HasResolver
  /\ \/ /\ UNCHANGED faults
        /\ IF revoked[Token(c)] # NoValue THEN Answer(c, "InvalidToken")
           ELSE IF ~Token(c).maps THEN Answer(c, "MissingClaim")
           ELSE IF Caches(config) THEN Goto(c, "keep") ELSE Answer(c, "Ok")
     \/ /\ faults > 0 /\ faults' = faults - 1
        /\ Answer(c, "ProviderUnavailable")
  /\ UNCHANGED <<plan, provider, lost, clock, issuer, jwks, loop, opaque>>

(* The task panics: always with the default client, rarely with another.   *)
(* Its end of the channel is dropped, which the caller notices.            *)
IntrospectPanics(c) ==
  /\ call[c].pc = "introspect"
  /\ IF HasResolver THEN UNCHANGED faults
     ELSE faults > 0 /\ faults' = faults - 1
  /\ lost' = lost + 1
  /\ Answer(c, "ProviderUnavailable")
  /\ UNCHANGED <<plan, provider, clock, issuer, jwks, loop, opaque>>

(* The queue's positions whose entry is in the cache as it was queued.     *)
Live == {i \in DOMAIN queue : /\ queue[i].token \in DOMAIN entries
                              /\ entries[queue[i].token] = queue[i].at}
Without(t) == [x \in DOMAIN entries \ {t} |-> entries[x]]

(* What eviction leaves: up to the first live position all are dropped.    *)
Evicted ==
  IF Cardinality(DOMAIN entries) < MaxEntries
  THEN [entries |-> entries, queue |-> queue]
  ELSE IF Live = {} THEN [entries |-> entries, queue |-> << >>]
  ELSE LET i == CHOOSE i \in Live : \A j \in Live : i <= j IN
       [entries |-> Without(queue[i].token), queue |-> SubSeq(queue, i + 1, Len(queue))]

(* Mutated form of Kept: an entry is queued when its token is new.         *)
KeptOnce(left, t, at) ==
  /\ entries' = [x \in DOMAIN left.entries \cup {t} |-> IF x = t THEN at ELSE left.entries[x]]
  /\ queue' = IF t \in DOMAIN entries THEN left.queue
              ELSE Append(left.queue, [token |-> t, at |-> at])
Kept(left, t, at) ==
  /\ entries' = [x \in DOMAIN left.entries \cup {t} |-> IF x = t THEN at ELSE left.entries[x]]
  /\ queue' = Append(left.queue, [token |-> t, at |-> at])

(* Mutated form of StampOf: the time the answer is stored.                 *)
StampAtStore(c) == clock
StampOf(c) == call[c].start

(* The critical section that stores the answer.                            *)
Keep(c) ==
  /\ call[c].pc = "keep"
  /\ IF Fresh(c) THEN UNCHANGED opaque
     ELSE IF Cardinality(DOMAIN Evicted.entries) < MaxEntries
     THEN Kept(Evicted, Token(c), StampOf(c))
     ELSE entries' = Evicted.entries /\ queue' = Evicted.queue
  /\ Answer(c, "Ok")
  /\ UNCHANGED <<plan, provider, lost, clock, issuer, jwks, loop, faults>>

-----------------------------------------------------------------------------
(* The issuer and time (external)                                          *)

Rotate ==
  /\ published + 1 < Len(plan.keysets)
  /\ published' = published + 1
  /\ UNCHANGED <<plan, provider, lost, clock, revoked, jwks, loop, opaque, call, faults>>

Revoke(t) ==
  /\ revoked[t] = NoValue
  /\ revoked' = [revoked EXCEPT ![t] = clock]
  /\ UNCHANGED <<plan, provider, lost, clock, published, jwks, loop, opaque, call, faults>>

Tick ==
  /\ clock < plan.until
  /\ clock' = clock + 1
  /\ UNCHANGED <<plan, provider, lost, issuer, jwks, loop, opaque, call, faults>>

Step(c) ==
  \/ Begin(c) \/ TakeWorker(c) \/ Resolve(c) \/ TryRefresh(c)
  \/ ForceFetch(c) \/ ForceStore(c) \/ ForceStamp(c) \/ Reread(c) \/ Validate(c)
  \/ Lookup(c) \/ Introspect(c) \/ IntrospectPanics(c) \/ Keep(c)

(* Its task is queued, and no thread of the pool is left to run it.        *)
Stranded(c) == call[c].pc = "pool" /\ lost = PoolSize

Background == RefreshTick \/ RefreshStore

Over ==
  /\ provider # "new" /\ loop.pc = "off"
  /\ provider = "ready" => \A c \in DOMAIN plan.tokens : call[c].pc = "done" \/ Stranded(c)
  /\ UNCHANGED vars

Next ==
  \/ Construct \/ Background \/ Rotate \/ Tick \/ Over
  \/ \E c \in Calls : Step(c)
  \/ \E t \in plan.revocable : Revoke(t)

Spec == Init /\ [][Next]_vars

(* Threads are scheduled, requests to the issuer end, the interval passes. *)
FairSpec ==
  /\ Spec
  /\ WF_vars(Construct) /\ WF_vars(Background)
  /\ WF_vars(\E c \in Calls : Step(c))

-----------------------------------------------------------------------------
(* Properties                                                              *)

(* Forced refreshes of the keys run one at a time, and none starts within  *)
(* the debounce window of the last one that replaced the keys, however     *)
(* many calls miss the same key at once.                                   *)
RefreshIsDebounced ==
  [][\A c \in Calls :
       call[c].pc = "debounce" /\ call'[c].pc = "fetch" =>
         /\ clock - stored >= Debounce
         /\ \A d \in Calls \ {c} :
              call[d].pc \notin {"fetch", "store", "stamp", "reread"}]_vars

(* A revoked token is refused by every call that begins a cache lifetime   *)
(* after the revocation, whatever other calls store meanwhile.             *)
RevokedIsRefused ==
  \A c \in Calls :
    LET at == revoked[Token(c)] IN
    call[c].result = "Ok" /\ ~TakesJwtPath(config, Token(c)) /\ at # NoValue =>
      \/ call[c].start <= at
      \/ Caches(config) /\ call[c].start < at + config.cache_ttl

(* The introspection cache keeps to its bound, and every entry of it is in *)
(* the eviction queue, so that eviction always finds one.                  *)
CacheIsEvictable ==
  /\ Cardinality(DOMAIN entries) <= MaxEntries
  /\ \A t \in DOMAIN entries : \E i \in Live : queue[i].token = t

(* Once the issuer changes its keys no more and answers, the resolver has  *)
(* its keys for good, although a slow refresh may bring back older ones.   *)
(* It takes a runtime for the background refresh, and a period above zero. *)
KeysConverge ==
  <>[](provider = "ready" /\ Refreshes => keys = Current)

(* Every call is answered and every forced refresh over: neither the pool  *)
(* nor the flag of the refresh is left occupied.  The exception is a pool  *)
(* without workers: each panic takes one away, and with the default HTTP   *)
(* client every introspection panics, so that after as many of them as     *)
(* there are workers each further call waits for ever.                     *)
CallsAreAnswered ==
  []<>(~refreshing /\ \A c \in Calls : call[c].pc \in {"idle", "done"} \/ Stranded(c))
=============================================================================
