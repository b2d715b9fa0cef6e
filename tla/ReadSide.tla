------------------------------ MODULE ReadSide ------------------------------
(***************************************************************************)
(* The read side: poll loops (crates/runtime/src/read_side) that run, tag  *)
(* by tag, one session (crates/domain/src/read_side/session.rs) each: claim*)
(* the stream, read its offset, fetch a batch, drop what was seen before,  *)
(* hand the rest to the projection, renew the claim, mark every event seen,*)
(* write the offset, release the claim.  Each store call is a step of its  *)
(* own, may fail before or after it took effect, and the process may crash *)
(* between any two.                                                        *)
(*                                                                         *)
(* An event is its version in its tag's stream; a stream, a page and what  *)
(* is left of it are sets of versions, gone through in ascending order.    *)
(* A claim's fencing token is compared for equality only and is stamped    *)
(* once per session, so a fence is current exactly while `owner` names its *)
(* worker.  `expired` holds the workers on whose clock the lease has       *)
(* lapsed (clocks drift); `observers` those whose read of a lapsed row is  *)
(* still current.                                                          *)
(***************************************************************************)
EXTENDS Integers, FiniteSets

CONSTANTS
  Workers,        \* poll loops of one projection, one per process
  NTags(_),       \* in a mode the tag provider yields 1 .. NTags(mode)
  LastVersion(_), \* bound on the versions of a tag's stream
  BatchSize,      \* ReadSideConfig.batch_size
  MaxFaults,      \* bound on failed calls, failed handlers and early lapses
  MaxInterrupts,  \* bound on crashes and stop requests
  None            \* no worker

ASSUME BatchAssumption == BatchSize \in Nat \ {0}
ASSUME WorkerAssumption == None \notin Workers
ASSUME StreamAssumption ==
  \A m \in {"unclaimed", "postgres", "stoolap"} :
    /\ NTags(m) \in Nat \ {0}
    /\ \A t \in 1 .. NTags(m) : LastVersion(t) \in Nat

VARIABLES
  mode,       \* "unclaimed", or the claim store in use
  stream,     \* the events inserted so far, per tag
  late,       \* history: those inserted behind a greater version, per tag
  offset,     \* the persisted offset, per tag (0: none)
  seen,       \* the events the dedup store holds, per tag
  handled,    \* history: the events some handler run succeeded on, per tag
  claim,      \* the row of the claim store, per tag
  outrun,     \* history: the tags on which a commit outlived its lease
  session,    \* what each worker's loop is doing
  stop,       \* the workers told to stop
  faults,     \* of the MaxFaults failures, those that are no longer to come
  interrupts  \* the same of crashes and stop requests

vars == <<mode, stream, late, offset, seen, handled, claim, outrun, session,
          stop, faults, interrupts>>

Tags == 1 .. NTags(mode)
Claiming == mode # "unclaimed"

Unclaimed == [present |-> FALSE, owner |-> None, expired |-> {}, observers |-> {}]
Idle == [pc |-> "idle", tag |-> 1, from |-> 0, batch |-> {},
         unique |-> {}, ok |-> TRUE]

Init ==
  /\ mode \in {"unclaimed", "postgres", "stoolap"}
  /\ stream = [t \in Tags |-> {}]
  /\ late = [t \in Tags |-> {}]
  /\ offset = [t \in Tags |-> 0]
  /\ seen = [t \in Tags |-> {}]
  /\ handled = [t \in Tags |-> {}]
  /\ claim = [t \in Tags |-> Unclaimed]
  /\ outrun = {}
  /\ session \in [Workers -> {Idle, [Idle EXCEPT !.pc = "stopped"]}]
  /\ \E w \in Workers :
       /\ session[w] = Idle
       /\ \A v \in Workers \ {w} :
            session[v].pc = IF Claiming THEN "idle" ELSE "stopped"
  /\ stop = {}
  /\ faults \in 0 .. MaxFaults
  /\ interrupts \in 0 .. MaxInterrupts

-----------------------------------------------------------------------------
(* Where a session goes next.                                              *)

Start(t) == [Idle EXCEPT !.tag = t, !.pc = IF Claiming THEN "claim" ELSE "offset"]

(* The loop goes on with the next tag; an error ends the tick at once.     *)
AfterSession(s, ok) ==
  IF ok /\ s.tag < NTags(mode) THEN Start(s.tag + 1) ELSE Idle

(* run_batch returned: a claimed session still releases its claim.         *)
Ends(s, ok) ==
  IF Claiming THEN [Idle EXCEPT !.pc = "release", !.tag = s.tag, !.ok = ok]
              ELSE AfterSession(s, ok)

At(w, pc) == session[w].pc = pc
Becomes(w, s) == session' = [session EXCEPT ![w] = s]

(* A call of w fails; the error ends the session.                          *)
CallFails(w) ==
  /\ faults < MaxFaults
  /\ faults' = faults + 1
  /\ Becomes(w, Ends(session[w], FALSE))

CallAnswers == UNCHANGED faults

-----------------------------------------------------------------------------
(* The claim stores.                                                       *)

Granted(w) == [present |-> TRUE, owner |-> w, expired |-> {}, observers |-> {}]
Absent(t) == ~claim[t].present

ClaimedFields ==
  <<mode, stream, late, offset, seen, handled, outrun, stop, interrupts>>

(* try_claim ends: granted, refused (not an error) or failed, where the    *)
(* grant may have been made although its answer was lost.  No fence was    *)
(* obtained in the last two cases, so nothing is released.                 *)
ClaimGranted(w, t) ==
  /\ claim' = [claim EXCEPT ![t] = Granted(w)]
  /\ \/ CallAnswers /\ Becomes(w, [session[w] EXCEPT !.pc = "offset"])
     \/ /\ faults < MaxFaults
        /\ faults' = faults + 1
        /\ Becomes(w, AfterSession(session[w], FALSE))

ClaimRefused(w) ==
  /\ CallAnswers
  /\ Becomes(w, AfterSession(session[w], TRUE))
  /\ UNCHANGED claim

ClaimFails(w) ==
  /\ session[w].pc \in {"claim", "observe", "take_over"}
  /\ faults < MaxFaults
  /\ faults' = faults + 1
  /\ Becomes(w, AfterSession(session[w], FALSE))
  /\ UNCHANGED <<claim, ClaimedFields>>

(* Mutated form of TryClaim: a lapsed claim is not taken over.             *)
TryClaimFirstOnly(w) ==
  LET t == session[w].tag IN
  /\ At(w, "claim") /\ mode = "postgres"
  /\ IF Absent(t) THEN ClaimGranted(w, t) ELSE ClaimRefused(w)
  /\ UNCHANGED ClaimedFields

(* PostgreSQL: one statement inserts, or takes a lapsed row over.          *)
TryClaim(w) ==
  LET t == session[w].tag IN
  /\ At(w, "claim") /\ mode = "postgres"
  /\ IF Absent(t) \/ w \in claim[t].expired
     THEN ClaimGranted(w, t) ELSE ClaimRefused(w)
  /\ UNCHANGED ClaimedFields

(* Stoolap: insert; on conflict read the row; a lapsed row is taken over   *)
(* only if neither a takeover nor a renewal changed it since.              *)
InsertClaim(w) ==
  LET t == session[w].tag IN
  /\ At(w, "claim") /\ mode = "stoolap"
  /\ \/ Absent(t) /\ ClaimGranted(w, t)
     \/ /\ ~Absent(t) /\ CallAnswers
        /\ Becomes(w, [session[w] EXCEPT !.pc = "observe"])
        /\ UNCHANGED claim
  /\ UNCHANGED ClaimedFields

ReadClaim(w) ==
  LET t == session[w].tag IN
  /\ At(w, "observe")
  /\ \/ /\ w \in claim[t].expired /\ CallAnswers
        /\ claim' = [claim EXCEPT ![t].observers = @ \cup {w}]
        /\ Becomes(w, [session[w] EXCEPT !.pc = "take_over"])
     \/ w \notin claim[t].expired /\ ClaimRefused(w)
  /\ UNCHANGED ClaimedFields

(* Mutated form of TakeOverClaim: the observed row is not verified again.  *)
TakeOverUnverified(w) ==
  LET t == session[w].tag IN
  /\ At(w, "take_over")
  /\ ClaimGranted(w, t)
  /\ UNCHANGED ClaimedFields

TakeOverClaim(w) ==
  LET t == session[w].tag IN
  /\ At(w, "take_over")
  /\ IF w \in claim[t].observers THEN ClaimGranted(w, t) ELSE ClaimRefused(w)
  /\ UNCHANGED ClaimedFields

(* What renew and release demand: the row is w's and has not lapsed on w's *)
(* clock.                                                                  *)
Holds(w, t) == claim[t].owner = w /\ w \notin claim[t].expired

(* renew moves the lease's end ahead, release sets it to w's now.          *)
Renewed(t) == [claim EXCEPT ![t].expired = {}, ![t].observers = {}]
Released(w, t) == [claim EXCEPT ![t].expired = @ \cup {w}]

(* The offset store keeps the last write, whoever made it; the dedup store *)
(* never forgets.                                                          *)
Written(t, v) == [offset EXCEPT ![t] = v]
Marked(t, v) == [seen EXCEPT ![t] = @ \cup {v}]
IsSeen(t, v) == v \in seen[t]

-----------------------------------------------------------------------------
(* One session.                                                            *)

SessionFields == <<mode, stream, late, outrun, stop, interrupts>>

ReadOffset(w) ==
  LET s == session[w] IN
  /\ At(w, "offset")
  /\ \/ CallAnswers /\ Becomes(w, [s EXCEPT !.pc = "fetch", !.from = offset[s.tag]])
     \/ CallFails(w)
  /\ UNCHANGED <<SessionFields, offset, seen, handled, claim>>

(* The first BatchSize events after the offset.                            *)
Page(t, after) ==
  {v \in stream[t] :
     v > after /\ Cardinality({u \in stream[t] : after < u /\ u <= v}) <= BatchSize}

IsFirst(v, events) == v \in events /\ \A u \in events : v <= u
IsLast(v, events) == v \in events /\ \A u \in events : u <= v

Fetch(w) ==
  LET s == session[w]
      page == Page(s.tag, s.from) IN
  /\ At(w, "fetch")
  /\ \/ /\ CallAnswers
        /\ Becomes(w, IF page = {} THEN Ends(s, TRUE)
                      ELSE [s EXCEPT !.pc = "filter", !.batch = page])
     \/ CallFails(w)
  /\ UNCHANGED <<SessionFields, offset, seen, handled, claim>>

(* One dedup check; a batch of duplicates ends the session, the offset     *)
(* untouched.                                                              *)
Filter(w) ==
  LET s == session[w] IN
  /\ At(w, "filter")
  /\ \/ /\ CallAnswers
        /\ \E v \in s.batch :
             LET unique == IF IsSeen(s.tag, v) THEN s.unique ELSE s.unique \cup {v}
                 rest == s.batch \ {v} IN
             /\ IsFirst(v, s.batch)
             /\ Becomes(w,
                  IF rest # {} THEN [s EXCEPT !.batch = rest, !.unique = unique]
                  ELSE IF unique = {} THEN Ends(s, TRUE)
                  ELSE [s EXCEPT !.pc = "handle", !.batch = unique, !.unique = unique])
     \/ CallFails(w)
  /\ UNCHANGED <<SessionFields, offset, seen, handled, claim>>

(* Mutated form of Handle: a handler's error does not stop the commit.     *)
HandleUnchecked(w) ==
  LET s == session[w] IN
  /\ At(w, "handle")
  /\ \/ CallAnswers /\ handled' = [handled EXCEPT ![s.tag] = @ \cup s.unique]
     \/ faults < MaxFaults /\ faults' = faults + 1 /\ UNCHANGED handled
  /\ Becomes(w, [s EXCEPT !.pc = IF Claiming THEN "renew" ELSE "mark"])
  /\ UNCHANGED <<SessionFields, offset, seen, claim>>

Handle(w) ==
  LET s == session[w] IN
  /\ At(w, "handle")
  /\ \/ /\ CallAnswers
        /\ handled' = [handled EXCEPT ![s.tag] = @ \cup s.unique]
        /\ Becomes(w, [s EXCEPT !.pc = IF Claiming THEN "renew" ELSE "mark"])
     \/ CallFails(w) /\ UNCHANGED handled
  /\ UNCHANGED <<SessionFields, offset, seen, claim>>

(* Mutated form of Renew: a lapsed claim may be renewed by any former      *)
(* holder.                                                                 *)
RenewLapsed(w) ==
  LET s == session[w] IN
  /\ At(w, "renew")
  /\ CallAnswers
  /\ \/ /\ Holds(w, s.tag) \/ w \in claim[s.tag].expired
        /\ claim' = [claim EXCEPT ![s.tag] = Granted(w)]
        /\ Becomes(w, [s EXCEPT !.pc = "mark"])
     \/ /\ ~Holds(w, s.tag) /\ w \notin claim[s.tag].expired
        /\ Becomes(w, Ends(s, FALSE))
        /\ UNCHANGED claim
  /\ UNCHANGED <<SessionFields, offset, seen, handled>>

(* The gate before the commit: nothing is written without the claim.       *)
Renew(w) ==
  LET s == session[w] IN
  /\ At(w, "renew")
  /\ \/ /\ Holds(w, s.tag)
        /\ claim' = Renewed(s.tag)
        /\ \/ CallAnswers /\ Becomes(w, [s EXCEPT !.pc = "mark"])
           \/ CallFails(w)
     \/ /\ ~Holds(w, s.tag)
        /\ CallAnswers /\ Becomes(w, Ends(s, FALSE))
        /\ UNCHANGED claim
     \/ CallFails(w) /\ UNCHANGED claim
  /\ UNCHANGED <<SessionFields, offset, seen, handled>>

MarkSeen(w) ==
  LET s == session[w] IN
  /\ At(w, "mark")
  /\ \E v \in s.batch :
       LET rest == s.batch \ {v}
           marked == Marked(s.tag, v) IN
       /\ IsFirst(v, s.batch)
       /\ \/ /\ CallAnswers
             /\ seen' = marked
             /\ Becomes(w, [s EXCEPT !.batch = rest,
                                     !.pc = IF rest = {} THEN "write" ELSE "mark"])
          \/ CallFails(w) /\ seen' \in {seen, marked}
  /\ UNCHANGED <<SessionFields, offset, handled, claim>>

(* A plain upsert: the last write wins, and the claim is not looked at     *)
(* again.                                                                  *)
WriteOffset(w) ==
  LET s == session[w] IN
  /\ At(w, "write")
  /\ \E v \in s.unique :
       LET written == Written(s.tag, v) IN
       /\ IsLast(v, s.unique)
       /\ \/ CallAnswers /\ offset' = written /\ Becomes(w, Ends(s, TRUE))
          \/ CallFails(w) /\ offset' \in {offset, written}
  /\ UNCHANGED <<SessionFields, seen, handled, claim>>

(* The lease ends now on w's clock.  An error is swallowed.                *)
Release(w) ==
  LET s == session[w] IN
  /\ At(w, "release")
  /\ Becomes(w, AfterSession(s, s.ok))
  /\ \/ /\ CallAnswers
        /\ claim' = IF Holds(w, s.tag) THEN Released(w, s.tag) ELSE claim
     \/ faults < MaxFaults /\ faults' = faults + 1 /\ UNCHANGED claim
  /\ UNCHANGED <<SessionFields, offset, seen, handled>>

-----------------------------------------------------------------------------
(* The poll loop.                                                          *)

LoopFields == <<mode, stream, late, offset, seen, handled, outrun, faults>>

Poll(w) ==
  /\ At(w, "idle") /\ w \notin stop
  /\ Becomes(w, Start(1))
  /\ UNCHANGED <<LoopFields, claim, stop, interrupts>>

(* The stop signal is looked at between two ticks only.                    *)
LoopExits(w) ==
  /\ At(w, "idle") /\ w \in stop
  /\ Becomes(w, [Idle EXCEPT !.pc = "stopped"])
  /\ UNCHANGED <<LoopFields, claim, stop, interrupts>>

StopRequested(w) ==
  /\ interrupts < MaxInterrupts
  /\ w \notin stop /\ ~At(w, "stopped")
  /\ stop' = stop \cup {w}
  /\ interrupts' = interrupts + 1
  /\ UNCHANGED <<LoopFields, claim, session>>

(* The process of w is gone: nobody holds its fences any more, its leases  *)
(* stay.                                                                   *)
Orphaned(w) ==
  claim' = [t \in Tags |->
              [claim[t] EXCEPT !.owner = IF @ = w THEN None ELSE @,
                               !.observers = @ \ {w}]]

(* The stop deadline passed: the task is aborted where it stands.          *)
Abort(w) ==
  /\ w \in stop /\ session[w].pc \notin {"idle", "stopped"}
  /\ Becomes(w, [Idle EXCEPT !.pc = "stopped"])
  /\ Orphaned(w)
  /\ UNCHANGED <<LoopFields, stop, interrupts>>

(* The process crashes and starts again under a new owner id.              *)
Crash(w) ==
  /\ interrupts < MaxInterrupts
  /\ w \notin stop /\ session[w].pc \notin {"idle", "stopped"}
  /\ interrupts' = interrupts + 1
  /\ Becomes(w, Idle)
  /\ Orphaned(w)
  /\ UNCHANGED <<LoopFields, stop>>

(* The commit of t is under way on w.                                      *)
Commits(w, t) ==
  session[w].tag = t /\ session[w].pc \in {"mark", "write"}

(* A session of the owner of t's claim is at work.                         *)
InUse(t) ==
  \E v \in Workers :
    /\ claim[t].owner = v /\ session[v].tag = t
    /\ session[v].pc \in {"offset", "fetch", "filter", "handle", "renew",
                          "mark", "write"}

(* The lease of t lapses on the clock of w.  That it lapses under a        *)
(* session at work, between the renewal and the writes as anywhere else,   *)
(* counts as a failure.                                                    *)
LeaseLapses(w, t) ==
  /\ ~Absent(t) /\ w \notin claim[t].expired
  /\ \/ ~InUse(t) /\ UNCHANGED faults
     \/ InUse(t) /\ faults < MaxFaults /\ faults' = faults + 1
  /\ claim' = [claim EXCEPT ![t].expired = @ \cup {w}]
  /\ outrun' = IF \E v \in Workers : Commits(v, t) THEN outrun \cup {t} ELSE outrun
  /\ UNCHANGED <<mode, stream, late, offset, seen, handled, session, stop,
                 interrupts>>

(* An event takes its place among those of its tag, whatever the order in  *)
(* which they are inserted.                                                *)
Insert(t, v) ==
  /\ v \notin stream[t]
  /\ stream' = [stream EXCEPT ![t] = @ \cup {v}]
  /\ late' = [late EXCEPT ![t] = IF \E u \in stream[t] : u > v
                                 THEN @ \cup {v} ELSE @]
  /\ UNCHANGED <<mode, offset, seen, handled, claim, outrun, session, stop,
                 faults, interrupts>>

SessionStep(w) ==
  \/ TryClaim(w) \/ InsertClaim(w) \/ ReadClaim(w) \/ TakeOverClaim(w)
  \/ ClaimFails(w)
  \/ ReadOffset(w) \/ Fetch(w) \/ Filter(w) \/ Handle(w) \/ Renew(w)
  \/ MarkSeen(w) \/ WriteOffset(w) \/ Release(w)

LoopStep(w) == Poll(w) \/ LoopExits(w) \/ SessionStep(w)

Next ==
  \/ \E w \in Workers : LoopStep(w)
  \/ \E w \in Workers : StopRequested(w) \/ Abort(w) \/ Crash(w)
  \/ \E w \in Workers, t \in Tags : LeaseLapses(w, t)
  \/ \E t \in Tags : \E v \in 1 .. LastVersion(t) : Insert(t, v)

Spec == Init /\ [][Next]_vars

(* Loops keep polling and running (tokio schedules them), and time passes. *)
Fairness ==
  \A w \in Workers :
    WF_vars(LoopStep(w)) /\ WF_vars(\E t \in Tags : LeaseLapses(w, t))

FairSpec == Spec /\ Fairness

-----------------------------------------------------------------------------

(* The events a projection can count on: those that were not inserted      *)
(* behind a greater version, which the offset may have passed.             *)
InOrder(t) == stream[t] \ late[t]

(* No event inserted in version order is skipped: what was handled has no  *)
(* gap below it, and neither the offset nor the dedup store runs ahead of  *)
(* the handler, whatever failed, crashed, was taken over or rewound in     *)
(* between (run_batch).                                                    *)
NoEventSkipped ==
  \A t \in Tags :
    /\ \A v \in handled[t] \cup {offset[t]} :
         \A u \in InOrder(t) : u <= v => u \in handled[t]
    /\ seen[t] \subseteq handled[t]

(* The holder of a claim, or the only worker there is, never hands the     *)
(* projection an event that is already marked as processed, unless a       *)
(* commit on the tag has outlived its lease: takeover and the renewal      *)
(* before the commit keep another worker's marks out of a session          *)
(* (run_batch, try_claim).                                                 *)
HolderHandlesFreshEvents ==
  \A w \in Workers :
    LET s == session[w] IN
    /\ s.pc = "handle" /\ s.tag \notin outrun
    /\ Claiming => claim[s.tag].owner = w
    => s.unique \cap seen[s.tag] = {}

(* As long as no commit on a tag outlives its lease, no worker rewinds the *)
(* tag's offset (session.rs: renew before the commit).  A commit that does *)
(* outlive it rewinds: write_offset verifies nothing.                      *)
OffsetNeverRewinds ==
  [][\A t \in Tags : t \notin outrun => offset'[t] >= offset[t]]_vars

(* Every fetch from the offset of t returns a full page of events that     *)
(* were all seen, and there are events after it: no session gets past it.  *)
Stuck(t) ==
  /\ Page(t, offset[t]) \subseteq seen[t]
  /\ \E v \in stream[t] : v > offset[t] /\ v \notin Page(t, offset[t])

(* Every event inserted in version order is handled in the end, by         *)
(* whichever worker is left running, unless the stream is stuck behind a   *)
(* page whose events were marked seen by a commit that never wrote its     *)
(* offset, or whose offset was rewound.                                    *)
EveryEventHandled ==
  <>[](\A t \in Tags :
         \/ InOrder(t) \subseteq handled[t]
         \/ Stuck(t)
         \/ \A w \in Workers : At(w, "stopped"))

=============================================================================
