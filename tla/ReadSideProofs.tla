--------------------------- MODULE ReadSideProofs ---------------------------
(***************************************************************************)
(* Proofs about the read side, for every set of workers, every number of   *)
(* tags and events, every batch size and any number of faults and crashes. *)
(*                                                                         *)
(* The argument is about what a session knows at each of its steps: below  *)
(* the events it fetched nothing inserted in order is missing, those it    *)
(* dropped were handled before, so that handling the rest closes the gap.  *)
(* None of this rests on a claim.  What does, as long as no commit outlives*)
(* its lease: only the claim's owner gets past the renewal that starts a   *)
(* commit, so the offset an owner read is still the stored one and none of *)
(* the events it kept has been marked since.                               *)
(***************************************************************************)
EXTENDS ReadSide, FiniteSetTheorems, TLAPS

-----------------------------------------------------------------------------
(* Types                                                                   *)

(* Where a session has fetched nothing, and where its work is under way.   *)
Quiet == {"idle", "stopped", "claim", "observe", "take_over", "offset",
          "release"}
Working == {"fetch", "filter", "handle", "renew", "mark", "write"}

Session ==
  [pc : Quiet \cup Working, tag : Tags, from : Nat, batch : SUBSET Nat,
   unique : SUBSET Nat, ok : BOOLEAN]

Claim ==
  [present : BOOLEAN, owner : Workers \cup {None}, expired : SUBSET Workers,
   observers : SUBSET Workers]

TypeOK ==
  /\ mode \in {"unclaimed", "postgres", "stoolap"}
  /\ stream \in [Tags -> SUBSET Nat]
  /\ \A t \in Tags : IsFiniteSet(stream[t])
  /\ late \in [Tags -> SUBSET Nat]
  /\ offset \in [Tags -> Nat]
  /\ seen \in [Tags -> SUBSET Nat]
  /\ handled \in [Tags -> SUBSET Nat]
  /\ claim \in [Tags -> Claim]
  /\ session \in [Workers -> Session]

-----------------------------------------------------------------------------
(* What a session knows of its events, e being the events of its tag, d    *)
(* those inserted in order and h the handled ones.                         *)

(* Nothing is missing below what is still to be looked at or was kept.     *)
Filtering(s, h, d, e) ==
  /\ s.batch \cup s.unique \subseteq e
  /\ \A v \in s.batch \cup s.unique :
       /\ s.from < v
       /\ \A u \in d : u <= v => u \in h \cup s.unique \cup s.batch

(* Handling the events kept leaves no gap below any of them.               *)
Filtered(s, h, d, e) ==
  /\ s.unique \subseteq e
  /\ s.batch = s.unique
  /\ \A v \in s.unique :
       s.from < v /\ \A u \in d : u <= v => u \in h \cup s.unique

(* Only handled events are committed, and only beyond the offset.          *)
Committing(s, h) ==
  /\ s.unique \subseteq h
  /\ \A v \in s.unique : s.from < v
  /\ s.pc # "write" => s.batch \subseteq h

Knows(s, h, d, e) ==
  /\ s.pc \in Quiet \cup {"fetch"} => s.unique = {}
  /\ s.pc = "fetch" => /\ s.from \in e \cup {0}
                       /\ \A u \in d : u <= s.from => u \in h
  /\ s.pc = "filter" => Filtering(s, h, d, e)
  /\ s.pc = "handle" => Filtered(s, h, d, e)
  /\ s.pc \in {"renew", "mark", "write"} => Committing(s, h)

KnowsTag(s) == Knows(s, handled[s.tag], InOrder(s.tag), stream[s.tag])

SessionsKnow == \A w \in Workers : KnowsTag(session[w])

(* Only events are handled and only they become offsets; version 0 is none.*)
FromStream ==
  \A t \in Tags : /\ handled[t] \subseteq stream[t]
                  /\ offset[t] \in stream[t] \cup {0}
                  /\ 0 \notin stream[t]

-----------------------------------------------------------------------------
(* Claims                                                                  *)

(* Without a claim store one loop runs.                                    *)
RunsAlone ==
  ~Claiming => \A w, v \in Workers :
                 ~At(w, "stopped") /\ ~At(v, "stopped") => w = v

(* Whoever owns a row is recorded in one that exists, and a commit runs    *)
(* under a claim that nobody can take over, as long as none outlived it.   *)
InTime(w, t) == Commits(w, t) /\ t \notin outrun

CommitsUnderClaim ==
  Claiming =>
    \A t \in Tags :
      /\ claim[t].owner # None => claim[t].present
      /\ \A w \in Workers :
           InTime(w, t) => /\ claim[t].owner = w
                            /\ claim[t].expired = {}
                            /\ claim[t].observers = {}

(* What is still true of a session while the claim is its own: the offset  *)
(* it read is the persisted one, and what it kept is not marked.           *)
UpToDate(s) ==
  /\ s.from = offset[s.tag]
  /\ s.pc \in {"filter", "handle"} => s.unique \cap seen[s.tag] = {}

HolderIsUpToDate ==
  \A w \in Workers :
    LET s == session[w] IN
    s.pc \in Working /\ s.tag \notin outrun /\ (Claiming => claim[s.tag].owner = w)
      => UpToDate(s)

(* The conjunction the induction carries.                                  *)
IInv ==
  /\ TypeOK
  /\ FromStream
  /\ NoEventSkipped
  /\ SessionsKnow
  /\ RunsAlone
  /\ CommitsUnderClaim
  /\ HolderIsUpToDate

-----------------------------------------------------------------------------
(* Pages                                                                   *)

(* A page holds events after the position, and with an event every one     *)
(* between the position and it.                                            *)
LEMMA PageElements ==
  ASSUME TypeOK, NEW t \in Tags, NEW n \in Nat
  PROVE  /\ Page(t, n) \subseteq stream[t]
         /\ \A v \in Page(t, n) :
              /\ n < v
              /\ \A u \in stream[t] : n < u /\ u <= v => u \in Page(t, n)
<1> DEFINE Upto(v) == {u \in stream[t] : n < u /\ u <= v}
<1>1. stream[t] \subseteq Nat /\ IsFiniteSet(stream[t])
  BY Zenon DEF TypeOK
<1>2. ASSUME NEW v \in stream[t]
      PROVE  IsFiniteSet(Upto(v)) /\ Cardinality(Upto(v)) \in Nat
  <2>1. Upto(v) \in SUBSET stream[t]
    BY Zenon
  <2>2. IsFiniteSet(Upto(v))
    BY <1>1, <2>1, FS_Subset, Zenon
  <2>3. QED
    BY <2>2, FS_CardinalityType, Zenon
<1>3. ASSUME NEW v \in Page(t, n), NEW u \in stream[t], n < u, u <= v
      PROVE  u \in Page(t, n)
  <2>1. v \in stream[t] /\ Cardinality(Upto(v)) <= BatchSize
    BY Zenon DEF Page
  <2>2. Upto(u) \in SUBSET Upto(v)
    BY <1>1, <1>3, <2>1
  <2>3. Cardinality(Upto(u)) <= Cardinality(Upto(v))
    BY <1>2, <2>1, <2>2, FS_Subset, Zenon
  <2>4. Cardinality(Upto(u)) \in Nat /\ Cardinality(Upto(v)) \in Nat
    BY <1>2, <2>1, Zenon
  <2> DEFINE a == Cardinality(Upto(u))
             b == Cardinality(Upto(v))
  <2>5. a <= BatchSize
    <3>1. a \in Nat /\ b \in Nat /\ a <= b /\ b <= BatchSize
      BY <2>1, <2>3, <2>4, Zenon
    <3> HIDE DEF a, b
    <3>2. QED
      BY <3>1, BatchAssumption
  <2>6. u > n
    BY <1>1, <1>3
  <2>7. QED
    BY <2>5, <2>6, Zenon DEF Page
<1>4. \A v \in Page(t, n) : v \in stream[t] /\ v > n
  BY Zenon DEF Page
<1>5. \A v \in Page(t, n) : n < v
  BY <1>1, <1>4
<1>6. QED
  BY <1>3, <1>4, <1>5, Zenon

-----------------------------------------------------------------------------
(* Sessions                                                                *)

(* A session loses nothing it knows when more events are handled, and      *)
(* needs to know no events before it fetches.                              *)
LEMMA KnowsMore ==
  ASSUME NEW s, NEW h, NEW d, NEW e, NEW more, h \subseteq more,
         Knows(s, h, d, e)
  PROVE  Knows(s, more, d, e)
BY Zenon DEF Knows, Filtering, Filtered, Committing

LEMMA QuietKnows ==
  ASSUME NEW s, s.pc \in Quiet, s.unique = {}
  PROVE  KnowsTag(s)
BY Zenon DEF KnowsTag, Knows, Quiet

(* There is a first tag.                                                   *)
LEMMA FirstTag == ASSUME TypeOK PROVE NTags(mode) \in Nat \ {0} /\ 1 \in Tags
<1>1. NTags(mode) \in Nat \ {0}
  BY StreamAssumption, Zenon DEF TypeOK
<1>2. QED
  BY <1>1 DEF Tags

(* Where a session may go when a step of the batch is over.                *)
LEMMA NextSession ==
  ASSUME TypeOK, NEW s \in Session, NEW ok \in BOOLEAN
  PROVE  /\ Idle \in Session /\ Idle.pc = "idle" /\ Idle.unique = {}
         /\ [Idle EXCEPT !.pc = "stopped"] \in Session
         /\ Start(1) \in Session /\ Start(1).pc \in {"claim", "offset"}
         /\ Start(1).unique = {}
         /\ AfterSession(s, ok) \in Session
         /\ AfterSession(s, ok).pc \in {"idle", "claim", "offset"}
         /\ AfterSession(s, ok).unique = {}
         /\ Ends(s, ok) \in Session
         /\ Ends(s, ok).pc \in {"idle", "claim", "offset", "release"}
         /\ Ends(s, ok).unique = {}
<1>1. {} \in SUBSET Nat
  BY Zenon
<1>2. /\ Idle \in Session /\ Idle.pc = "idle" /\ Idle.unique = {}
      /\ [Idle EXCEPT !.pc = "stopped"] \in Session
  BY <1>1, FirstTag, Zenon DEF Idle, Session, Quiet
<1>3. ASSUME NEW t \in Tags
      PROVE  /\ Start(t) \in Session /\ Start(t).pc \in {"claim", "offset"}
             /\ Start(t).unique = {}
  BY <1>1, Zenon DEF Start, Idle, Session, Quiet
<1>4. s.tag < NTags(mode) => s.tag + 1 \in Tags
  BY FirstTag DEF Session, Tags
<1>5. /\ AfterSession(s, ok) \in Session
      /\ AfterSession(s, ok).pc \in {"idle", "claim", "offset"}
      /\ AfterSession(s, ok).unique = {}
  BY <1>2, <1>3, <1>4, Zenon DEF AfterSession
<1>6. [Idle EXCEPT !.pc = "release", !.tag = s.tag, !.ok = ok] \in Session
  BY <1>1, Zenon DEF Idle, Session, Quiet
<1>7. QED
  BY <1>2, <1>3, <1>5, <1>6, FirstTag, Zenon DEF Ends, Idle

(* A step of w that moves its session, and perhaps the claims, keeps the   *)
(* invariant if the session knows what it must where it arrives.           *)
LEMMA SessionMoves ==
  ASSUME IInv, NEW w \in Workers, NEW s \in Session,
         session' = [session EXCEPT ![w] = s],
         UNCHANGED <<mode, stream, late, offset, seen, handled, outrun>>,
         claim' \in [Tags -> Claim],
         \A t \in Tags, v \in Workers \ {w} :
           claim'[t].owner = v => claim[t].owner = v,
         KnowsTag(s),
         s.pc # "stopped" => ~At(w, "stopped"),
         /\ s.pc \in Working /\ s.tag \notin outrun
         /\ Claiming => claim'[s.tag].owner = w
         => UpToDate(s),
         CommitsUnderClaim'
  PROVE  IInv'
<1>1. /\ Tags' = Tags /\ Claiming' = Claiming /\ Session' = Session
      /\ \A t : InOrder(t)' = InOrder(t)
  BY Zenon DEF Tags, Claiming, Session, InOrder
<1>2. session \in [Workers -> Session]
  BY Zenon DEF IInv, TypeOK
<1>3. /\ session'[w] = s
      /\ \A v \in Workers \ {w} : session'[v] = session[v]
  BY <1>2, Zenon
<1>4. TypeOK'
  BY <1>1, <1>2, Zenon DEF IInv, TypeOK
<1>5. NoEventSkipped' /\ FromStream'
  BY <1>1, Zenon DEF IInv, NoEventSkipped, FromStream
<1>6. SessionsKnow'
  BY <1>1, <1>3, Zenon DEF IInv, SessionsKnow, KnowsTag
<1>7. RunsAlone'
  BY <1>1, <1>3 DEF IInv, RunsAlone, At
<1>8. HolderIsUpToDate'
  <2> SUFFICES ASSUME NEW v \in Workers,
                      session'[v].pc \in Working,
                      session'[v].tag \notin outrun,
                      Claiming => claim'[session'[v].tag].owner = v
               PROVE  UpToDate(session[v])'
    BY <1>1, ZenonT(40) DEF HolderIsUpToDate
  <2>1. CASE v = w
    BY <2>1, <1>3, Zenon DEF UpToDate
  <2>2. CASE v # w
    <3>1. session'[v] = session[v] /\ session[v].tag \in Tags
      BY <2>2, <1>2, <1>3, Zenon DEF Session
    <3>2. UpToDate(session[v])
      BY <2>2, <3>1, ZenonT(40) DEF IInv, HolderIsUpToDate
    <3>3. QED
      BY <3>1, <3>2, Zenon DEF UpToDate
  <2>3. QED
    BY <2>1, <2>2, Zenon
<1>9. QED
  BY <1>4, <1>5, <1>6, <1>7, <1>8, Zenon DEF IInv

(* The same when the claims stay: a step that starts no commit.            *)
LEMMA SessionMovesOnly ==
  ASSUME IInv, NEW w \in Workers, NEW s \in Session,
         session' = [session EXCEPT ![w] = s],
         UNCHANGED <<mode, stream, late, offset, seen, handled, claim, outrun>>,
         KnowsTag(s),
         s.pc # "stopped" => ~At(w, "stopped"),
         s.pc \in Working => s.pc \notin {"mark", "write"},
         /\ s.pc \in Working /\ s.tag \notin outrun
         /\ Claiming => claim[s.tag].owner = w
         => UpToDate(s)
  PROVE  IInv'
<1>1. CommitsUnderClaim'
  <2>1. Tags' = Tags /\ Claiming' = Claiming
    BY Zenon DEF Tags, Claiming
  <2>2. s.pc \notin {"mark", "write"}
    BY Zenon DEF Working
  <2>3. \A v \in Workers, t \in Tags : InTime(v, t)' => InTime(v, t)
    BY <2>2, Zenon DEF IInv, TypeOK, InTime, Commits
  <2>4. QED
    BY <2>1, <2>3, Zenon DEF IInv, CommitsUnderClaim
<1>2. claim' \in [Tags -> Claim]
  BY Zenon DEF IInv, TypeOK
<1>3. QED
  BY <1>1, <1>2, SessionMoves, Zenon

(* The same when nothing is under way afterwards.                          *)
LEMMA SessionRests ==
  ASSUME IInv, NEW w \in Workers, NEW s \in Session,
         session' = [session EXCEPT ![w] = s],
         UNCHANGED <<mode, stream, late, offset, seen, handled, claim, outrun>>,
         s.pc \in Quiet, s.unique = {},
         s.pc # "stopped" => ~At(w, "stopped")
  PROVE  IInv'
<1>1. s.pc \notin Working
  BY Zenon DEF Quiet, Working
<1>2. QED
  BY <1>1, QuietKnows, SessionMovesOnly, Zenon

(* A call fails and changes nothing else.                                  *)
LEMMA CallFailsIInv ==
  ASSUME IInv, NEW w \in Workers, CallFails(w), ~At(w, "stopped"),
         UNCHANGED <<mode, stream, late, offset, seen, handled, claim, outrun>>
  PROVE  IInv'
<1>1. session[w] \in Session
  BY Zenon DEF IInv, TypeOK
<1>2. /\ Ends(session[w], FALSE) \in Session
      /\ Ends(session[w], FALSE).pc \in Quiet \ {"stopped"}
      /\ Ends(session[w], FALSE).unique = {}
  BY <1>1, NextSession, Zenon DEF IInv, Quiet
<1>3. QED
  BY <1>2, SessionRests, Zenon DEF CallFails, Becomes

-----------------------------------------------------------------------------
(* Claiming                                                                *)

(* The claim of t is free to w only while nobody commits t in time.        *)
LEMMA GrantIsSafe ==
  ASSUME IInv, NEW w \in Workers, NEW t \in Tags,
         \/ Absent(t)
         \/ w \in claim[t].expired
         \/ w \in claim[t].observers,
         Claiming
  PROVE  \A v \in Workers : ~InTime(v, t)
BY WorkerAssumption, Zenon DEF IInv, CommitsUnderClaim, Absent

LEMMA ClaimGrantedIInv ==
  ASSUME IInv, NEW w \in Workers, NEW t \in Tags,
         t = session[w].tag,
         session[w].pc \in {"claim", "take_over"},
         \/ Absent(t)
         \/ w \in claim[t].expired
         \/ w \in claim[t].observers,
         ClaimGranted(w, t), UNCHANGED ClaimedFields
  PROVE  IInv'
<1> DEFINE s == session'[w]
<1>1. session[w] \in Session /\ session[w].unique = {}
  BY Zenon DEF IInv, TypeOK, SessionsKnow, KnowsTag, Knows, Quiet
<1>2. /\ s \in Session /\ s.pc \in {"idle", "claim", "offset"}
      /\ s.unique = {}
      /\ session' = [session EXCEPT ![w] = s]
  <2>1. CASE Becomes(w, [session[w] EXCEPT !.pc = "offset"])
    <3>1. s = [session[w] EXCEPT !.pc = "offset"]
      BY <2>1, Zenon DEF Becomes, IInv, TypeOK
    <3>2. /\ [session[w] EXCEPT !.pc = "offset"] \in Session
          /\ [session[w] EXCEPT !.pc = "offset"].pc = "offset"
          /\ [session[w] EXCEPT !.pc = "offset"].unique = {}
      BY <1>1, Zenon DEF Session, Quiet
    <3>3. QED
      BY <2>1, <3>1, <3>2, Zenon DEF Becomes
  <2>2. CASE Becomes(w, AfterSession(session[w], FALSE))
    <3>1. s = AfterSession(session[w], FALSE)
      BY <2>2, Zenon DEF Becomes, IInv, TypeOK
    <3>2. /\ AfterSession(session[w], FALSE) \in Session
          /\ AfterSession(session[w], FALSE).pc \in {"idle", "claim", "offset"}
          /\ AfterSession(session[w], FALSE).unique = {}
      BY <1>1, NextSession, Zenon DEF IInv
    <3>3. QED
      BY <2>2, <3>1, <3>2, Zenon DEF Becomes
  <2>3. QED
    BY <2>1, <2>2, Zenon DEF ClaimGranted
<1>3. /\ UNCHANGED <<mode, stream, late, offset, seen, handled, outrun>>
      /\ claim' = [claim EXCEPT ![t] = Granted(w)]
  BY Zenon DEF ClaimedFields, ClaimGranted
<1>4. Granted(w) \in Claim /\ Granted(w).owner = w /\ Granted(w).present
  BY Zenon DEF Granted, Claim
<1>5. claim' \in [Tags -> Claim]
  BY <1>3, <1>4, Zenon DEF IInv, TypeOK
<1>6. \A u \in Tags, v \in Workers \ {w} :
        claim'[u].owner = v => claim[u].owner = v
  BY <1>3, <1>4, Zenon DEF IInv, TypeOK
<1>7. CommitsUnderClaim'
  <2>1. Tags' = Tags /\ Claiming' = Claiming
    BY <1>3, Zenon DEF Tags, Claiming
  <2> SUFFICES ASSUME Claiming, NEW u \in Tags
               PROVE  /\ claim'[u].owner # None => claim'[u].present
                      /\ \A v \in Workers :
                           InTime(v, u)' => /\ claim'[u].owner = v
                                             /\ claim'[u].expired = {}
                                             /\ claim'[u].observers = {}
    BY <2>1, Zenon DEF CommitsUnderClaim
  <2>2. \A v \in Workers : InTime(v, u)' => InTime(v, u)
    BY <1>2, <1>3, Zenon DEF InTime, Commits, IInv, TypeOK
  <2>3. CASE u = t
    BY <2>2, <2>3, <1>3, <1>4, GrantIsSafe, Zenon DEF IInv, TypeOK
  <2>4. CASE u # t
    <3>1. claim'[u] = claim[u]
      BY <2>4, <1>3, Zenon DEF IInv, TypeOK
    <3>2. QED
      BY <3>1, <2>2 DEF IInv, CommitsUnderClaim
  <2>5. QED
    BY <2>3, <2>4, Zenon
<1>8. s.pc \in Quiet /\ s.pc \notin Working
  BY <1>2, Zenon DEF Quiet, Working
<1>9. ~At(w, "stopped")
  BY Zenon DEF At
<1> HIDE DEF s
<1>10. QED
  BY <1>2, <1>3, <1>5, <1>6, <1>7, <1>8, <1>9, QuietKnows, SessionMoves, Zenon

LEMMA ClaimRefusedIInv ==
  ASSUME IInv, NEW w \in Workers, ~At(w, "stopped"), ClaimRefused(w),
         UNCHANGED ClaimedFields
  PROVE  IInv'
<1>1. session[w] \in Session
  BY Zenon DEF IInv, TypeOK
<1>2. /\ AfterSession(session[w], TRUE) \in Session
      /\ AfterSession(session[w], TRUE).pc \in Quiet
      /\ AfterSession(session[w], TRUE).unique = {}
  BY <1>1, NextSession, Zenon DEF IInv, Quiet
<1>3. QED
  BY <1>2, SessionRests, Zenon DEF ClaimRefused, ClaimedFields, Becomes

LEMMA ClaimFailsIInv ==
  ASSUME IInv, NEW w \in Workers, ClaimFails(w)
  PROVE  IInv'
<1>1. session[w] \in Session
  BY Zenon DEF IInv, TypeOK
<1>2. /\ AfterSession(session[w], FALSE) \in Session
      /\ AfterSession(session[w], FALSE).pc \in Quiet
      /\ AfterSession(session[w], FALSE).unique = {}
  BY <1>1, NextSession, Zenon DEF IInv, Quiet
<1>3. QED
  BY <1>2, SessionRests, Zenon DEF ClaimFails, ClaimedFields, Becomes, At

LEMMA TryClaimIInv ==
  ASSUME IInv, NEW w \in Workers, TryClaim(w)
  PROVE  IInv'
<1>1. session[w].tag \in Tags
  BY Zenon DEF IInv, TypeOK, Session
<1>2. session[w].pc = "claim" /\ ~At(w, "stopped")
  BY Zenon DEF TryClaim, At
<1>3. QED
  BY <1>1, <1>2, ClaimGrantedIInv, ClaimRefusedIInv, Zenon DEF TryClaim

LEMMA InsertClaimIInv ==
  ASSUME IInv, NEW w \in Workers, InsertClaim(w)
  PROVE  IInv'
<1>1. session[w] \in Session /\ session[w].tag \in Tags
  BY Zenon DEF IInv, TypeOK, Session
<1>2. session[w].pc = "claim" /\ ~At(w, "stopped") /\ session[w].unique = {}
  BY Zenon DEF InsertClaim, At, IInv, SessionsKnow, KnowsTag, Knows, Quiet
<1>3. CASE Absent(session[w].tag)
  BY <1>1, <1>2, <1>3, ClaimGrantedIInv, Zenon DEF InsertClaim
<1>4. CASE ~Absent(session[w].tag)
  <2> DEFINE s == [session[w] EXCEPT !.pc = "observe"]
  <2>1. s \in Session /\ s.pc \in Quiet /\ s.unique = {}
    BY <1>1, <1>2, Zenon DEF Session, Quiet
  <2>2. QED
    BY <1>2, <1>4, <2>1, SessionRests, Zenon
       DEF InsertClaim, Becomes, ClaimedFields
<1>5. QED
  BY <1>3, <1>4, Zenon

LEMMA TakeOverClaimIInv ==
  ASSUME IInv, NEW w \in Workers, TakeOverClaim(w)
  PROVE  IInv'
<1>1. session[w].tag \in Tags
  BY Zenon DEF IInv, TypeOK, Session
<1>2. session[w].pc = "take_over" /\ ~At(w, "stopped")
  BY Zenon DEF TakeOverClaim, At
<1>3. QED
  BY <1>1, <1>2, ClaimGrantedIInv, ClaimRefusedIInv, Zenon DEF TakeOverClaim

(* Observing a lapsed row gives its observer a right no commit can meet.   *)
LEMMA ReadClaimIInv ==
  ASSUME IInv, NEW w \in Workers, ReadClaim(w)
  PROVE  IInv'
<1> DEFINE t == session[w].tag
           s == [session[w] EXCEPT !.pc = "take_over"]
<1>1. session[w] \in Session /\ t \in Tags
  BY Zenon DEF IInv, TypeOK, Session
<1>2. ~At(w, "stopped") /\ session[w].unique = {}
  BY Zenon DEF ReadClaim, At, IInv, SessionsKnow, KnowsTag, Knows, Quiet
<1>3. CASE w \notin claim[t].expired
  BY <1>2, <1>3, ClaimRefusedIInv, Zenon DEF ReadClaim
<1>4. CASE w \in claim[t].expired
  <2>1. /\ session' = [session EXCEPT ![w] = s]
        /\ claim' = [claim EXCEPT ![t].observers = @ \cup {w}]
        /\ UNCHANGED <<mode, stream, late, offset, seen, handled, outrun>>
    BY <1>4, Zenon DEF ReadClaim, Becomes, ClaimedFields
  <2>2. s \in Session /\ s.pc = "take_over" /\ s.unique = {}
    BY <1>1, <1>2, Zenon DEF Session, Quiet
  <2>3. claim[t] \in Claim
    BY <1>1, Zenon DEF IInv, TypeOK
  <2>4. /\ claim' \in [Tags -> Claim]
        /\ \A u \in Tags :
             /\ claim'[u].owner = claim[u].owner
             /\ claim'[u].present = claim[u].present
             /\ claim'[u].expired = claim[u].expired
             /\ u # t => claim'[u] = claim[u]
    BY <1>1, <2>1, <2>3, Zenon DEF IInv, TypeOK, Claim
  <2> HIDE DEF s
  <2>5. CommitsUnderClaim'
    <3>1. Tags' = Tags /\ Claiming' = Claiming
      BY <2>1, Zenon DEF Tags, Claiming
    <3>2. \A v \in Workers, u \in Tags : InTime(v, u)' => InTime(v, u)
      BY <2>1, <2>2, Zenon DEF InTime, Commits, IInv, TypeOK
    <3>3. Claiming => \A v \in Workers : ~InTime(v, t)
      BY <1>1, <1>4, GrantIsSafe, Zenon
    <3> SUFFICES ASSUME Claiming, NEW u \in Tags
                 PROVE  /\ claim'[u].owner # None => claim'[u].present
                        /\ \A v \in Workers :
                             InTime(v, u)' => /\ claim'[u].owner = v
                                               /\ claim'[u].expired = {}
                                               /\ claim'[u].observers = {}
      BY <3>1, Zenon DEF CommitsUnderClaim
    <3>4. /\ claim[u].owner # None => claim[u].present
          /\ \A v \in Workers :
               InTime(v, u) => /\ claim[u].owner = v
                                /\ claim[u].expired = {}
                                /\ claim[u].observers = {}
      BY Zenon DEF IInv, CommitsUnderClaim
    <3>5. QED
      BY <2>4, <3>2, <3>3, <3>4, ZenonT(40)
  <2>6. s.pc \in Quiet /\ s.pc \notin Working
    BY <2>2, Zenon DEF Quiet, Working
  <2>7. KnowsTag(s)
    BY <2>2, <2>6, QuietKnows, Zenon
  <2>8. \A u \in Tags, v \in Workers \ {w} :
          claim'[u].owner = v => claim[u].owner = v
    BY <2>4, Zenon
  <2>9. QED
    BY <1>2, <2>1, <2>2, <2>4, <2>5, <2>6, <2>7, <2>8, SessionMoves, Zenon
<1>5. QED
  BY <1>3, <1>4, Zenon

-----------------------------------------------------------------------------
(* One session                                                             *)

(* What was read as the offset is handled.                                 *)
LEMMA ReadOffsetIInv ==
  ASSUME IInv, NEW w \in Workers, ReadOffset(w)
  PROVE  IInv'
<1> DEFINE t == session[w].tag
           s == [session[w] EXCEPT !.pc = "fetch", !.from = offset[t]]
<1>1. session[w] \in Session /\ t \in Tags
  BY Zenon DEF IInv, TypeOK, Session
<1>2. UNCHANGED <<mode, stream, late, offset, seen, handled, claim, outrun>>
  BY Zenon DEF ReadOffset, SessionFields
<1>3. ~At(w, "stopped") /\ session[w].unique = {}
  BY Zenon DEF ReadOffset, At, IInv, SessionsKnow, KnowsTag, Knows, Quiet
<1>4. CASE CallFails(w)
  BY <1>2, <1>3, <1>4, CallFailsIInv, Zenon
<1>5. CASE Becomes(w, s)
  <2>1. /\ offset[t] \in Nat /\ offset[t] \in stream[t] \cup {0}
        /\ \A u \in InOrder(t) : u <= offset[t] => u \in handled[t]
    BY <1>1, Zenon DEF IInv, TypeOK, NoEventSkipped, FromStream
  <2>2. /\ s \in Session /\ s.pc = "fetch" /\ s.tag = t /\ s.from = offset[t]
        /\ s.unique = {}
    BY <1>1, <1>3, <2>1, Zenon DEF Session, Working
  <2> HIDE DEF s
  <2>3. KnowsTag(s) /\ UpToDate(s)
    BY <2>1, <2>2, Zenon DEF KnowsTag, Knows, UpToDate
  <2>4. QED
    BY <1>2, <1>3, <1>5, <2>2, <2>3, SessionMovesOnly, Zenon DEF Becomes
<1>6. QED
  BY <1>4, <1>5, Zenon DEF ReadOffset

(* A page has no gap to the offset.                                        *)
LEMMA FetchIInv ==
  ASSUME IInv, NEW w \in Workers, Fetch(w)
  PROVE  IInv'
<1> DEFINE t == session[w].tag
           page == Page(t, session[w].from)
           s == [session[w] EXCEPT !.pc = "filter", !.batch = page]
<1>1. session[w] \in Session /\ t \in Tags /\ session[w].from \in Nat
  BY Zenon DEF IInv, TypeOK, Session
<1>2. UNCHANGED <<mode, stream, late, offset, seen, handled, claim, outrun>>
  BY Zenon DEF Fetch, SessionFields
<1>3. ~At(w, "stopped") /\ session[w].pc = "fetch" /\ session[w].unique = {}
  BY Zenon DEF Fetch, At, IInv, SessionsKnow, KnowsTag, Knows
<1>4. CASE CallFails(w)
  BY <1>2, <1>3, <1>4, CallFailsIInv, Zenon
<1>5. CASE page = {} /\ Becomes(w, Ends(session[w], TRUE))
  <2>1. /\ Ends(session[w], TRUE) \in Session
        /\ Ends(session[w], TRUE).pc \in Quiet
        /\ Ends(session[w], TRUE).unique = {}
    BY <1>1, NextSession, Zenon DEF IInv, Quiet
  <2>2. QED
    BY <1>2, <1>3, <1>5, <2>1, SessionRests, Zenon DEF Becomes
<1>6. CASE page # {} /\ Becomes(w, s)
  <2>1. /\ page \subseteq stream[t]
        /\ \A v \in page :
             /\ session[w].from < v
             /\ \A u \in stream[t] : session[w].from < u /\ u <= v => u \in page
    BY <1>1, PageElements, Zenon DEF IInv
  <2>2. /\ \A u \in InOrder(t) : u <= session[w].from => u \in handled[t]
        /\ /\ t \notin outrun /\ (Claiming => claim[t].owner = w)
           => session[w].from = offset[t]
    BY <1>3, Zenon DEF IInv, SessionsKnow, KnowsTag, Knows, HolderIsUpToDate,
       UpToDate, Working
  <2>3. stream[t] \subseteq Nat /\ InOrder(t) \subseteq stream[t]
    BY <1>1, Zenon DEF IInv, TypeOK, InOrder
  <2> HIDE DEF page
  <2>4. /\ s \in Session /\ s.pc = "filter" /\ s.tag = t /\ s.batch = page
        /\ s.from = session[w].from /\ s.unique = {}
    BY <1>1, <1>3, <2>1, <2>3, Zenon DEF Session, Working
  <2> HIDE DEF s
  <2>5. \A u \in InOrder(t) : u <= session[w].from \/ session[w].from < u
    BY <1>1, <2>3
  <2>6. Filtering(s, handled[t], InOrder(t), stream[t])
    BY <2>1, <2>2, <2>3, <2>4, <2>5, Zenon DEF Filtering
  <2>7. KnowsTag(s)
    BY <2>4, <2>6, Zenon DEF KnowsTag, Knows
  <2>8. t \notin outrun /\ (Claiming => claim[t].owner = w) => UpToDate(s)
    BY <2>2, <2>4, Zenon DEF UpToDate
  <2>9. QED
    BY <1>2, <1>3, <1>6, <2>4, <2>7, <2>8, SessionMovesOnly, Zenon DEF Becomes
<1>7. QED
  BY <1>4, <1>5, <1>6, Zenon DEF Fetch

(* Dropping an event that was seen, or keeping one that was not, leaves no *)
(* gap.                                                                    *)
LEMMA FilterIInv ==
  ASSUME IInv, NEW w \in Workers, Filter(w)
  PROVE  IInv'
<1> DEFINE o == session[w]
           t == o.tag
           h == handled[t]
           d == InOrder(t)
           e == stream[t]
           kept(v) == IF IsSeen(t, v) THEN o.unique ELSE o.unique \cup {v}
           rest(v) == o.batch \ {v}
<1>1. /\ o \in Session /\ t \in Tags /\ o.from \in Nat
      /\ o.batch \in SUBSET Nat /\ o.unique \in SUBSET Nat
  BY Zenon DEF IInv, TypeOK, Session
<1>2. UNCHANGED <<mode, stream, late, offset, seen, handled, claim, outrun>>
  BY Zenon DEF Filter, SessionFields
<1>3. ~At(w, "stopped") /\ o.pc = "filter" /\ Filtering(o, h, d, e)
  BY Zenon DEF Filter, At, IInv, SessionsKnow, KnowsTag, Knows
<1>4. CASE CallFails(w)
  BY <1>2, <1>3, <1>4, CallFailsIInv, Zenon
<1>5. ASSUME NEW v \in o.batch,
             Becomes(w, IF rest(v) # {}
                        THEN [o EXCEPT !.batch = rest(v), !.unique = kept(v)]
                        ELSE IF kept(v) = {} THEN Ends(o, TRUE)
                        ELSE [o EXCEPT !.pc = "handle", !.batch = kept(v),
                                       !.unique = kept(v)])
      PROVE  IInv'
  <2> DEFINE k == kept(v)
             r == rest(v)
  <2>1. /\ k \in SUBSET Nat /\ r \in SUBSET Nat
        /\ k \cup r \subseteq o.batch \cup o.unique
        /\ o.batch \cup o.unique \subseteq k \cup r \cup h
    <3>1. IsSeen(t, v) => v \in h
      BY <1>1, Zenon DEF IsSeen, IInv, NoEventSkipped
    <3>2. QED
      BY <1>1, <3>1, Zenon
  <2>2. t \notin outrun /\ (Claiming => claim[t].owner = w) =>
          o.from = offset[t] /\ k \cap seen[t] = {}
    <3>1. t \notin outrun /\ (Claiming => claim[t].owner = w) => UpToDate(o)
      BY <1>3, Zenon DEF IInv, HolderIsUpToDate, Working
    <3>2. QED
      BY <1>3, <3>1, Zenon DEF UpToDate, IsSeen
  <2> HIDE DEF k, r
  <2>3. /\ k \cup r \subseteq e
        /\ \A x \in k \cup r :
             o.from < x /\ \A u \in d : u <= x => u \in h \cup k \cup r
    BY <1>3, <2>1, Zenon DEF Filtering
  <2>4. ASSUME NEW s \in Session, session' = [session EXCEPT ![w] = s],
               s.pc \in {"filter", "handle"}, s.tag = t, s.from = o.from,
               s.unique = k, Knows(s, h, d, e)
        PROVE  IInv'
    <3>1. s.tag \notin outrun /\ (Claiming => claim[s.tag].owner = w) => UpToDate(s)
      BY <2>2, <2>4, Zenon DEF UpToDate
    <3>2. KnowsTag(s)
      BY <2>4, Zenon DEF KnowsTag
    <3>3. s.pc # "stopped" /\ s.pc \notin {"mark", "write"}
      BY <2>4, Zenon
    <3>4. QED
      BY <1>2, <1>3, <2>4, <3>1, <3>2, <3>3, SessionMovesOnly, Zenon
  <2>5. CASE r # {} /\ Becomes(w, [o EXCEPT !.batch = r, !.unique = k])
    <3> DEFINE s == [o EXCEPT !.batch = r, !.unique = k]
    <3>1. /\ s \in Session /\ s.pc = "filter" /\ s.tag = t /\ s.from = o.from
          /\ s.batch = r /\ s.unique = k
      BY <1>1, <1>3, <2>1, Zenon DEF Session
    <3> HIDE DEF s
    <3>2. Filtering(s, h, d, e)
      BY <2>3, <3>1, Zenon DEF Filtering
    <3>3. Knows(s, h, d, e)
      BY <3>1, <3>2, Zenon DEF Knows, Quiet
    <3>4. QED
      BY <2>4, <2>5, <3>1, <3>3, Zenon DEF Becomes, s
  <2>6. CASE Becomes(w, Ends(o, TRUE))
    <3>1. /\ Ends(o, TRUE) \in Session
          /\ Ends(o, TRUE).pc \in Quiet
          /\ Ends(o, TRUE).unique = {}
      BY <1>1, NextSession, Zenon DEF IInv, Quiet
    <3>2. QED
      BY <1>2, <1>3, <2>6, <3>1, SessionRests, Zenon DEF Becomes
  <2>7. CASE /\ r = {}
             /\ Becomes(w, [o EXCEPT !.pc = "handle", !.batch = k, !.unique = k])
    <3> DEFINE s == [o EXCEPT !.pc = "handle", !.batch = k, !.unique = k]
    <3>1. /\ s \in Session /\ s.pc = "handle" /\ s.tag = t /\ s.from = o.from
          /\ s.batch = k /\ s.unique = k
      BY <1>1, <2>1, Zenon DEF Session, Working
    <3> HIDE DEF s
    <3>2. Filtered(s, h, d, e)
      BY <2>3, <2>7, <3>1, Zenon DEF Filtered
    <3>3. Knows(s, h, d, e)
      BY <3>1, <3>2, Zenon DEF Knows, Quiet
    <3>4. QED
      BY <2>4, <2>7, <3>1, <3>3, Zenon DEF Becomes, s
  <2>8. QED
    BY <1>5, <2>5, <2>6, <2>7, Zenon DEF k, r
<1>6. QED
  BY <1>4, <1>5, Zenon DEF Filter

(* Handling what was kept closes every gap below it, and takes no event    *)
(* back.                                                                   *)
LEMMA HandleIInv ==
  ASSUME IInv, NEW w \in Workers, Handle(w)
  PROVE  IInv'
<1> DEFINE o == session[w]
           t == o.tag
           s == [o EXCEPT !.pc = IF Claiming THEN "renew" ELSE "mark"]
<1>1. /\ session \in [Workers -> Session]
      /\ o \in Session /\ t \in Tags /\ o.unique \in SUBSET Nat
  BY Zenon DEF IInv, TypeOK, Session
<1>2. UNCHANGED <<mode, stream, late, offset, seen, claim, outrun>>
  BY Zenon DEF Handle, SessionFields
<1>3. /\ ~At(w, "stopped") /\ o.pc = "handle"
      /\ Filtered(o, handled[t], InOrder(t), stream[t])
  BY Zenon DEF Handle, At, IInv, SessionsKnow, KnowsTag, Knows
<1>4. CASE CallFails(w) /\ UNCHANGED handled
  BY <1>2, <1>3, <1>4, CallFailsIInv, Zenon
<1>5. CASE /\ handled' = [handled EXCEPT ![t] = @ \cup o.unique]
           /\ Becomes(w, s)
  <2>1. /\ s \in Session /\ s.tag = t /\ s.from = o.from
        /\ s.batch = o.batch /\ s.unique = o.unique
        /\ s.pc = IF Claiming THEN "renew" ELSE "mark"
    BY <1>1, Zenon DEF Session, Working
  <2> HIDE DEF s
  <2>2. /\ Tags' = Tags /\ Claiming' = Claiming /\ Session' = Session
        /\ \A u : InOrder(u)' = InOrder(u)
    BY <1>2, Zenon DEF Tags, Claiming, Session, InOrder
  <2>3. /\ session'[w] = s
        /\ \A v \in Workers \ {w} : session'[v] = session[v]
        /\ session' \in [Workers -> Session]
    BY <1>1, <1>5, <2>1, Zenon DEF Becomes
  <2>4. o.unique \subseteq stream[t]
    BY <1>3, Zenon DEF Filtered
  <2>5. /\ handled' \in [Tags -> SUBSET Nat]
        /\ handled'[t] = handled[t] \cup o.unique
        /\ \A u \in Tags : handled[u] \subseteq handled'[u]
        /\ \A u \in Tags \ {t} : handled'[u] = handled[u]
    BY <1>1, <1>5, Zenon DEF IInv, TypeOK
  <2>6. TypeOK'
    BY <1>2, <2>2, <2>3, <2>5, Zenon DEF IInv, TypeOK
  <2>7. NoEventSkipped' /\ FromStream'
    <3>1. FromStream'
      BY <1>2, <2>2, <2>4, <2>5, Zenon DEF IInv, FromStream
    <3> SUFFICES ASSUME NEW u \in Tags
                 PROVE  /\ \A v \in handled'[u] \cup {offset[u]} :
                             \A x \in InOrder(u) : x <= v => x \in handled'[u]
                        /\ seen[u] \subseteq handled'[u]
      BY <1>2, <2>2, <3>1, Zenon DEF NoEventSkipped
    <3>2. /\ \A v \in handled[u] \cup {offset[u]} :
               \A x \in InOrder(u) : x <= v => x \in handled[u]
          /\ seen[u] \subseteq handled[u]
      BY Zenon DEF IInv, NoEventSkipped
    <3>3. \A v \in o.unique : \A x \in InOrder(t) : x <= v => x \in handled'[t]
      BY <1>3, <2>5, Zenon DEF Filtered
    <3>4. QED
      BY <2>5, <3>2, <3>3, Zenon
  <2>8. SessionsKnow'
    <3>1. Committing(s, handled'[t])
      BY <1>3, <2>1, <2>5, Zenon DEF Filtered, Committing
    <3>2. Knows(s, handled'[s.tag], InOrder(s.tag), stream[s.tag])
      BY <2>1, <3>1, Zenon DEF Knows, Quiet
    <3>3. \A v \in Workers \ {w} :
            /\ session[v].tag \in Tags
            /\ Knows(session[v], handled[session[v].tag],
                     InOrder(session[v].tag), stream[session[v].tag])
      BY <1>1, Zenon DEF IInv, SessionsKnow, Session, KnowsTag
    <3>4. \A v \in Workers \ {w} :
            Knows(session[v], handled'[session[v].tag],
                  InOrder(session[v].tag), stream[session[v].tag])
      BY <2>5, <3>3, KnowsMore
    <3>5. QED
      BY <1>2, <2>2, <2>3, <3>2, <3>4, Zenon DEF SessionsKnow, KnowsTag
  <2>9. RunsAlone'
    BY <1>3, <2>2, <2>3, Zenon DEF IInv, RunsAlone, At
  <2>10. CommitsUnderClaim'
    <3>1. Claiming => \A v \in Workers, u \in Tags : InTime(v, u)' => InTime(v, u)
      BY <1>2, <2>1, <2>3, Zenon DEF InTime, Commits
    <3>2. QED
      BY <1>2, <2>2, <3>1, Zenon DEF IInv, CommitsUnderClaim
  <2>11. HolderIsUpToDate'
    <3> SUFFICES ASSUME NEW v \in Workers,
                        session'[v].pc \in Working,
                        session'[v].tag \notin outrun,
                        Claiming => claim[session'[v].tag].owner = v
                 PROVE  UpToDate(session[v])'
      BY <1>2, <2>2, ZenonT(40) DEF HolderIsUpToDate
    <3>1. UpToDate(session[v])
      BY <1>3, <2>1, <2>3, Zenon DEF IInv, HolderIsUpToDate, Working
    <3>2. QED
      BY <1>2, <2>1, <2>3, <3>1, Zenon DEF UpToDate
  <2>12. QED
    BY <2>6, <2>7, <2>8, <2>9, <2>10, <2>11, Zenon DEF IInv
<1>6. QED
  BY <1>4, <1>5, Zenon DEF Handle

(* The claim is renewed only by its owner, for whom the offset is still    *)
(* the one it read; nobody can take it over before it lapses again.        *)
LEMMA RenewIInv ==
  ASSUME IInv, NEW w \in Workers, Renew(w)
  PROVE  IInv'
<1> DEFINE o == session[w]
           t == o.tag
           s == [o EXCEPT !.pc = "mark"]
<1>1. /\ session \in [Workers -> Session]
      /\ o \in Session /\ t \in Tags
  BY Zenon DEF IInv, TypeOK, Session
<1>2. UNCHANGED <<mode, stream, late, offset, seen, handled, outrun>>
  BY Zenon DEF Renew, SessionFields
<1>3. /\ ~At(w, "stopped") /\ o.pc = "renew" /\ Committing(o, handled[t])
      /\ t \notin outrun /\ (Claiming => claim[t].owner = w) => o.from = offset[t]
  BY Zenon DEF Renew, At, IInv, SessionsKnow, KnowsTag, Knows, HolderIsUpToDate,
     UpToDate, Working
<1>4. CASE CallFails(w) /\ UNCHANGED claim
  BY <1>2, <1>3, <1>4, CallFailsIInv, Zenon
<1>e. /\ \A ok \in BOOLEAN : Ends(o, ok) \in Session
      /\ \A ok \in BOOLEAN : Ends(o, ok).pc \in Quiet \ {"stopped"}
      /\ \A ok \in BOOLEAN : Ends(o, ok).unique = {}
  BY <1>1, NextSession, ZenonT(40) DEF IInv, Quiet
<1>5. CASE Becomes(w, Ends(o, FALSE)) /\ UNCHANGED claim
  BY <1>2, <1>3, <1>5, <1>e, SessionRests, Zenon DEF Becomes
<1>6. CASE /\ Holds(w, t)
           /\ claim' = Renewed(t)
           /\ Becomes(w, s) \/ Becomes(w, Ends(o, FALSE))
  <2>1. /\ s \in Session /\ s.tag = t /\ s.from = o.from /\ s.pc = "mark"
        /\ s.batch = o.batch /\ s.unique = o.unique
    BY <1>1, Zenon DEF Session, Working
  <2> HIDE DEF s
  <2>2. PICK n \in {s, Ends(o, FALSE)} : session' = [session EXCEPT ![w] = n]
    BY <1>6, Zenon DEF Becomes
  <2>3. n \in Session /\ n.pc # "stopped" /\ n.pc # "write"
    BY <1>e, <2>1, <2>2, Zenon DEF Quiet
  <2>4. KnowsTag(n)
    <3>1. Committing(s, handled[t])
      BY <1>3, <2>1, Zenon DEF Committing
    <3>2. KnowsTag(s)
      BY <2>1, <3>1, Zenon DEF KnowsTag, Knows, Quiet
    <3>3. KnowsTag(Ends(o, FALSE))
      BY <1>e, QuietKnows, Zenon
    <3>4. QED
      BY <2>2, <3>2, <3>3, Zenon
  <2>5. claim[t] \in Claim
    BY <1>1, Zenon DEF IInv, TypeOK
  <2>6. /\ claim' \in [Tags -> Claim]
        /\ claim'[t].expired = {} /\ claim'[t].observers = {}
        /\ \A u \in Tags :
             /\ claim'[u].owner = claim[u].owner
             /\ claim'[u].present = claim[u].present
             /\ u # t => claim'[u] = claim[u]
    BY <1>1, <1>6, <2>5, Zenon DEF IInv, TypeOK, Claim, Renewed
  <2>7. claim[t].owner = w
    BY <1>6, Zenon DEF Holds
  <2>8. CommitsUnderClaim'
    <3>1. Tags' = Tags /\ Claiming' = Claiming
      BY <1>2, Zenon DEF Tags, Claiming
    <3>2. \A v \in Workers, u \in Tags : v # w => (InTime(v, u)' => InTime(v, u))
      BY <1>1, <1>2, <2>2, Zenon DEF InTime, Commits
    <3>3. \A u \in Tags : InTime(w, u)' => u = t
      BY <1>1, <1>e, <2>1, <2>2, Zenon DEF InTime, Commits, Quiet
    <3> SUFFICES ASSUME Claiming, NEW u \in Tags
                 PROVE  /\ claim'[u].owner # None => claim'[u].present
                        /\ \A v \in Workers :
                             InTime(v, u)' => /\ claim'[u].owner = v
                                               /\ claim'[u].expired = {}
                                               /\ claim'[u].observers = {}
      BY <3>1, Zenon DEF CommitsUnderClaim
    <3>4. /\ claim[u].owner # None => claim[u].present
          /\ \A v \in Workers :
               InTime(v, u) => /\ claim[u].owner = v
                                /\ claim[u].expired = {}
                                /\ claim[u].observers = {}
      BY Zenon DEF IInv, CommitsUnderClaim
    <3>5. QED
      BY <2>6, <2>7, <3>2, <3>3, <3>4
  <2>9. n.pc \in Working /\ n.tag \notin outrun /\ (Claiming => claim'[n.tag].owner = w)
          => UpToDate(n)
    BY <1>3, <1>e, <2>1, <2>2, <2>7, Zenon DEF Working, Quiet, UpToDate
  <2>10. \A u \in Tags, v \in Workers \ {w} :
           claim'[u].owner = v => claim[u].owner = v
    BY <2>6, Zenon
  <2>11. QED
    BY <1>2, <1>3, <2>2, <2>3, <2>4, <2>6, <2>8, <2>9, <2>10, SessionMoves, Zenon
<1>7. QED
  BY <1>4, <1>5, <1>6, Zenon DEF Renew, CallFails

(* A step of a commit goes on with the commit or ends it, and writes only  *)
(* what was handled.                                                       *)
LEMMA CommitStep ==
  ASSUME IInv, NEW w \in Workers, NEW s \in Session,
         session[w].pc \in {"mark", "write"},
         session' = [session EXCEPT ![w] = s],
         UNCHANGED <<mode, stream, late, handled, claim, outrun>>,
         seen' \in [Tags -> SUBSET Nat], offset' \in [Tags -> Nat],
         NoEventSkipped', FromStream',
         KnowsTag(s),
         s.pc # "stopped",
         s.pc \in Working =>
           /\ s.tag = session[w].tag /\ s.from = session[w].from
           /\ s.pc \in {"mark", "write"}
           /\ UNCHANGED offset,
         \A t \in Tags : t # session[w].tag =>
           offset'[t] = offset[t] /\ seen'[t] = seen[t]
  PROVE  IInv'
<1> DEFINE t == session[w].tag
<1>1. /\ session \in [Workers -> Session] /\ t \in Tags
      /\ \A v \in Workers : session[v].tag \in Tags
  BY Zenon DEF IInv, TypeOK, Session
<1>2. /\ Tags' = Tags /\ Claiming' = Claiming /\ Session' = Session
      /\ \A u : InOrder(u)' = InOrder(u)
  BY Zenon DEF Tags, Claiming, Session, InOrder
<1>3. /\ session'[w] = s
      /\ \A v \in Workers \ {w} : session'[v] = session[v]
      /\ session' \in [Workers -> Session]
  BY <1>1, Zenon
<1>4. TypeOK'
  BY <1>2, <1>3, Zenon DEF IInv, TypeOK
<1>5. SessionsKnow'
  BY <1>2, <1>3, Zenon DEF IInv, SessionsKnow, KnowsTag
<1>6. RunsAlone'
  BY <1>2, <1>3 DEF IInv, RunsAlone, At
<1>7. CommitsUnderClaim'
  <2>1. \A v \in Workers, u \in Tags : InTime(v, u)' => InTime(v, u)
    BY <1>3, Zenon DEF InTime, Commits, Working
  <2>2. QED
    BY <1>2, <2>1, ZenonT(40) DEF IInv, CommitsUnderClaim
<1>8. HolderIsUpToDate'
  <2> SUFFICES ASSUME NEW v \in Workers,
                      session'[v].pc \in Working,
                      session'[v].tag \notin outrun,
                      Claiming => claim[session'[v].tag].owner = v
               PROVE  UpToDate(session[v])'
    BY <1>2, ZenonT(40) DEF HolderIsUpToDate
  <2>1. CASE v = w
    <3>1. UpToDate(session[w])
      BY <1>3, <2>1, Zenon DEF IInv, HolderIsUpToDate, Working
    <3>2. QED
      BY <1>3, <2>1, <3>1, Zenon DEF UpToDate
  <2>2. CASE v # w /\ session[v].tag # t
    <3>1. session'[v] = session[v] /\ UpToDate(session[v])
      BY <1>3, <2>2, Zenon DEF IInv, HolderIsUpToDate
    <3>2. QED
      BY <1>1, <2>2, <3>1, Zenon DEF UpToDate
  <2>3. CASE v # w /\ session[v].tag = t
    <3>1. session'[v] = session[v]
      BY <1>3, <2>3, Zenon
    <3>2. CASE Claiming
      <4>1. InTime(w, t)
        BY <2>3, <3>1, Zenon DEF InTime, Commits
      <4>2. claim[t].owner = w
        BY <1>1, <3>2, <4>1, Zenon DEF IInv, CommitsUnderClaim
      <4>3. QED
        BY <2>3, <3>1, <3>2, <4>2, Zenon
    <3>3. CASE ~Claiming
      BY <2>3, <3>1, <3>3, Zenon DEF IInv, RunsAlone, At, Working
    <3>4. QED
      BY <3>2, <3>3, Zenon
  <2>4. QED
    BY <2>1, <2>2, <2>3, Zenon
<1>9. QED
  BY <1>4, <1>5, <1>6, <1>7, <1>8, Zenon DEF IInv

(* Only handled events are marked as seen.                                 *)
LEMMA MarkSeenIInv ==
  ASSUME IInv, NEW w \in Workers, MarkSeen(w)
  PROVE  IInv'
<1> DEFINE o == session[w]
           t == o.tag
<1>1. /\ o \in Session /\ t \in Tags /\ o.batch \in SUBSET Nat
  BY Zenon DEF IInv, TypeOK, Session
<1>2. UNCHANGED <<mode, stream, late, handled, claim, offset, outrun>>
  BY Zenon DEF MarkSeen, SessionFields
<1>3. o.pc = "mark" /\ Committing(o, handled[t])
  BY Zenon DEF MarkSeen, At, IInv, SessionsKnow, KnowsTag, Knows
<1>4. PICK x \in o.batch :
        \/ /\ seen' = Marked(t, x)
           /\ Becomes(w, [o EXCEPT !.batch = o.batch \ {x},
                                   !.pc = IF o.batch \ {x} = {}
                                          THEN "write" ELSE "mark"])
        \/ CallFails(w) /\ seen' \in {seen, Marked(t, x)}
  BY Zenon DEF MarkSeen
<1> DEFINE rest == o.batch \ {x}
           marked == Marked(t, x)
           s == [o EXCEPT !.batch = rest,
                          !.pc = IF rest = {} THEN "write" ELSE "mark"]
<1>5. /\ x \in Nat /\ x \in handled[t]
      /\ rest \in SUBSET Nat /\ rest \subseteq handled[t]
  BY <1>1, <1>3, Zenon DEF Committing
<1>6. /\ seen' \in [Tags -> SUBSET Nat] /\ offset' \in [Tags -> Nat]
      /\ NoEventSkipped' /\ FromStream'
      /\ \A u \in Tags : u # t => seen'[u] = seen[u]
  <2>1. marked \in [Tags -> SUBSET Nat]
    BY <1>1, <1>5, Zenon DEF IInv, TypeOK, Marked
  <2>2. seen' \in {seen, marked}
    BY <1>4, Zenon
  <2>3. Tags' = Tags /\ \A u : InOrder(u)' = InOrder(u)
    BY <1>2, Zenon DEF Tags, InOrder
  <2>4. /\ \A u \in Tags : marked[u] \subseteq handled[u]
        /\ \A u \in Tags : u # t => marked[u] = seen[u]
    BY <1>1, <1>5, Zenon DEF IInv, TypeOK, NoEventSkipped, Marked
  <2> HIDE DEF marked
  <2>5. /\ \A u \in Tags : seen'[u] \subseteq handled[u]
        /\ \A u \in Tags : u # t => seen'[u] = seen[u]
    <3>1. \A u \in Tags : seen[u] \subseteq handled[u]
      BY Zenon DEF IInv, NoEventSkipped
    <3>2. CASE seen' = seen
      BY <3>1, <3>2, Zenon
    <3>3. CASE seen' = marked
      BY <2>4, <3>3, Zenon
    <3>4. QED
      BY <2>2, <3>2, <3>3, Zenon
  <2>6. seen' \in [Tags -> SUBSET Nat] /\ offset' \in [Tags -> Nat]
    BY <1>2, <2>1, <2>2, Zenon DEF IInv, TypeOK
  <2>7. NoEventSkipped'
    BY <1>2, <2>3, <2>5, Zenon DEF IInv, NoEventSkipped
  <2>8. FromStream'
    BY <1>2, <2>3, Zenon DEF IInv, FromStream
  <2>9. QED
    BY <2>5, <2>6, <2>7, <2>8, Zenon
<1>7. CASE Becomes(w, s)
  <2> HIDE DEF rest
  <2>1. /\ s \in Session /\ s.tag = t /\ s.from = o.from
        /\ s.batch = rest /\ s.unique = o.unique
        /\ s.pc = IF rest = {} THEN "write" ELSE "mark"
    BY <1>1, <1>5, Zenon DEF Session, Working
  <2> HIDE DEF s
  <2>2. Committing(s, handled[t])
    BY <1>3, <1>5, <2>1, Zenon DEF Committing
  <2>3. KnowsTag(s) /\ s.pc # "stopped"
    BY <2>1, <2>2, Zenon DEF KnowsTag, Knows, Quiet
  <2>4. QED
    BY <1>2, <1>3, <1>6, <1>7, <2>1, <2>3, CommitStep, Zenon DEF Becomes
<1>8. CASE CallFails(w)
  <2>1. /\ Ends(o, FALSE) \in Session
        /\ Ends(o, FALSE).pc \in Quiet /\ Ends(o, FALSE).pc # "stopped"
        /\ Ends(o, FALSE).unique = {}
    BY <1>1, NextSession, Zenon DEF IInv, Quiet
  <2>2. Ends(o, FALSE).pc \notin Working
    BY <2>1, Zenon DEF Quiet, Working
  <2>3. KnowsTag(Ends(o, FALSE))
    BY <2>1, QuietKnows, Zenon
  <2>4. QED
    BY <1>2, <1>3, <1>6, <1>8, <2>1, <2>2, <2>3, CommitStep, Zenon
       DEF CallFails, Becomes
<1>9. QED
  BY <1>4, <1>7, <1>8, Zenon

(* The offset moves to a handled event beyond the offset the session read. *)
LEMMA WriteOffsetIInv ==
  ASSUME IInv, NEW w \in Workers, WriteOffset(w)
  PROVE  /\ IInv'
         /\ \A t \in Tags : t \notin outrun => offset'[t] >= offset[t]
<1> DEFINE o == session[w]
           t == o.tag
<1>1. /\ o \in Session /\ t \in Tags /\ o.unique \in SUBSET Nat /\ o.from \in Nat
  BY Zenon DEF IInv, TypeOK, Session
<1>2. UNCHANGED <<mode, stream, late, handled, claim, seen, outrun>>
  BY Zenon DEF WriteOffset, SessionFields
<1>3. o.pc = "write" /\ Committing(o, handled[t])
  BY Zenon DEF WriteOffset, At, IInv, SessionsKnow, KnowsTag, Knows
<1>4. PICK x \in o.unique : offset' \in {offset, Written(t, x)}
  BY Zenon DEF WriteOffset
<1>5. x \in Nat /\ x \in handled[t] /\ o.from < x
  BY <1>1, <1>3, Zenon DEF Committing
<1>6. t \notin outrun => o.from = offset[t]
  <2>1. t \notin outrun => InTime(w, t)
    BY <1>3, Zenon DEF InTime, Commits
  <2>2. t \notin outrun => (Claiming => claim[t].owner = w)
    BY <1>1, <2>1, Zenon DEF IInv, CommitsUnderClaim
  <2>3. QED
    BY <1>3, <2>2, Zenon DEF IInv, HolderIsUpToDate, UpToDate, Working
<1>7. /\ offset' \in [Tags -> Nat]
      /\ \A u \in Tags : u # t => offset'[u] = offset[u]
      /\ offset'[t] \in {offset[t], x}
  BY <1>1, <1>4, <1>5, Zenon DEF IInv, TypeOK, Written
<1>8. NoEventSkipped' /\ FromStream'
  <2>1. /\ x \in stream[t]
        /\ \A u \in InOrder(t) : u <= x => u \in handled[t]
    BY <1>1, <1>5, Zenon DEF IInv, NoEventSkipped, FromStream
  <2>2. Tags' = Tags /\ \A u : InOrder(u)' = InOrder(u)
    BY <1>2, Zenon DEF Tags, InOrder
  <2>3. \A u \in Tags : offset'[u] \in {offset[u]} \cup (IF u = t THEN {x} ELSE {})
    BY <1>7, Zenon
  <2>4. FromStream'
    BY <1>2, <2>1, <2>2, <2>3, Zenon DEF IInv, FromStream
  <2>5. \A u \in Tags : \A y \in InOrder(u) : y <= offset'[u] => y \in handled[u]
    BY <2>1, <2>3, Zenon DEF IInv, NoEventSkipped
  <2>6. QED
    BY <1>2, <2>2, <2>4, <2>5, Zenon DEF IInv, NoEventSkipped
<1>9. \A u \in Tags : u \notin outrun => offset'[u] >= offset[u]
  <2>1. \A u \in Tags : offset[u] \in Nat
    BY Zenon DEF IInv, TypeOK
  <2>2. QED
    BY <1>1, <1>5, <1>6, <1>7, <2>1, SMTT(30)
<1>10. PICK ok \in BOOLEAN : session' = [session EXCEPT ![w] = Ends(o, ok)]
  BY Zenon DEF WriteOffset, CallFails, Becomes
<1>11. /\ Ends(o, ok) \in Session
       /\ Ends(o, ok).pc \in Quiet /\ Ends(o, ok).pc # "stopped"
       /\ Ends(o, ok).unique = {}
  BY <1>1, NextSession, ZenonT(40) DEF IInv, Quiet
<1>12. Ends(o, ok).pc \notin Working
  BY <1>11, Zenon DEF Quiet, Working
<1>13. KnowsTag(Ends(o, ok))
  BY <1>11, QuietKnows, Zenon
<1>14. seen' \in [Tags -> SUBSET Nat]
  BY <1>2, Zenon DEF IInv, TypeOK
<1>15. IInv'
  BY <1>2, <1>3, <1>7, <1>8, <1>10, <1>11, <1>12, <1>13, <1>14, CommitStep, Zenon
<1>16. QED
  BY <1>9, <1>15, Zenon

(* A claim is given back only by its owner, whose commit is over.          *)
LEMMA ReleaseIInv ==
  ASSUME IInv, NEW w \in Workers, Release(w)
  PROVE  IInv'
<1> DEFINE o == session[w]
           t == o.tag
           s == AfterSession(o, o.ok)
<1>1. /\ session \in [Workers -> Session]
      /\ o \in Session /\ t \in Tags /\ o.ok \in BOOLEAN
  BY Zenon DEF IInv, TypeOK, Session
<1>2. /\ UNCHANGED <<mode, stream, late, offset, seen, handled, outrun>>
      /\ session' = [session EXCEPT ![w] = s]
      /\ claim' = claim \/ (Holds(w, t) /\ claim' = Released(w, t))
  BY Zenon DEF Release, SessionFields, Becomes
<1>3. o.pc = "release" /\ ~At(w, "stopped")
  BY Zenon DEF Release, At
<1>4. /\ s \in Session /\ s.pc \in Quiet /\ s.pc # "stopped"
      /\ s.unique = {} /\ s.pc \notin Working
  BY <1>1, NextSession, ZenonT(40) DEF IInv, Quiet, Working
<1> HIDE DEF s
<1>5. CASE claim' = claim
  BY <1>2, <1>3, <1>4, <1>5, SessionRests, Zenon
<1>6. CASE Holds(w, t) /\ claim' = Released(w, t)
  <2>1. claim[t] \in Claim
    BY <1>1, Zenon DEF IInv, TypeOK
  <2>2. /\ claim' \in [Tags -> Claim]
        /\ \A u \in Tags :
             /\ claim'[u].owner = claim[u].owner
             /\ claim'[u].present = claim[u].present
             /\ u # t => claim'[u] = claim[u]
    BY <1>1, <1>6, <2>1, Zenon DEF IInv, TypeOK, Claim, Released
  <2>3. CommitsUnderClaim'
    <3>1. Tags' = Tags /\ Claiming' = Claiming
      BY <1>2, Zenon DEF Tags, Claiming
    <3>2. \A v \in Workers, u \in Tags :
            InTime(v, u)' => v # w /\ InTime(v, u)
      BY <1>1, <1>2, <1>4, ZenonT(40) DEF InTime, Commits, Working
    <3> SUFFICES ASSUME Claiming, NEW u \in Tags
                 PROVE  /\ claim'[u].owner # None => claim'[u].present
                        /\ \A v \in Workers :
                             InTime(v, u)' => /\ claim'[u].owner = v
                                               /\ claim'[u].expired = {}
                                               /\ claim'[u].observers = {}
      BY <3>1, Zenon DEF CommitsUnderClaim
    <3>3. /\ claim[u].owner # None => claim[u].present
          /\ \A v \in Workers :
               InTime(v, u) => /\ claim[u].owner = v
                                /\ claim[u].expired = {}
                                /\ claim[u].observers = {}
      BY Zenon DEF IInv, CommitsUnderClaim
    <3>4. claim[t].owner = w
      BY <1>6, Zenon DEF Holds
    <3>5. claim'[u].owner # None => claim'[u].present
      BY <2>2, <3>3, Zenon
    <3>6. ASSUME NEW v \in Workers, InTime(v, u)'
          PROVE  /\ claim'[u].owner = v
                 /\ claim'[u].expired = {}
                 /\ claim'[u].observers = {}
      <4>1. v # w /\ InTime(v, u)
        BY <3>2, <3>6, Zenon
      <4>2. u # t
        BY <4>1, <3>3, <3>4, Zenon
      <4>3. claim'[u] = claim[u]
        BY <2>2, <4>2, Zenon
      <4> QED BY <4>1, <4>3, <3>3, Zenon
    <3>7. QED
      BY <3>5, <3>6, Zenon
  <2>4. KnowsTag(s)
    BY <1>4, QuietKnows, Zenon
  <2>5. \A u \in Tags, v \in Workers \ {w} :
          claim'[u].owner = v => claim[u].owner = v
    BY <2>2, Zenon
  <2>6. QED
    BY <1>2, <1>3, <1>4, <2>2, <2>3, <2>4, <2>5, SessionMoves, Zenon
<1>7. QED
  BY <1>2, <1>5, <1>6, Zenon

-----------------------------------------------------------------------------
(* The poll loop, crashes and time                                         *)

LEMMA LoopIInv ==
  ASSUME IInv, NEW w \in Workers, Poll(w) \/ LoopExits(w)
  PROVE  IInv'
<1>1. session[w] \in Session
  BY Zenon DEF IInv, TypeOK
<1>2. /\ Start(1) \in Session /\ Start(1).pc \in Quiet
      /\ Start(1).unique = {}
      /\ [Idle EXCEPT !.pc = "stopped"] \in Session
      /\ [Idle EXCEPT !.pc = "stopped"].pc = "stopped"
      /\ [Idle EXCEPT !.pc = "stopped"].unique = {}
  BY <1>1, NextSession, Zenon DEF IInv, Quiet, Idle
<1>3. CASE Poll(w)
  BY <1>2, <1>3, SessionRests, Zenon DEF Poll, LoopFields, Becomes, At
<1>4. CASE LoopExits(w)
  BY <1>2, <1>4, SessionRests, Zenon DEF LoopExits, LoopFields, Becomes, Quiet
<1>5. QED
  BY <1>3, <1>4, Zenon

(* Nobody owns what the process that is gone owned.                        *)
LEMMA GoneIInv ==
  ASSUME IInv, NEW w \in Workers, Abort(w) \/ Crash(w)
  PROVE  IInv'
<1>1. /\ session \in [Workers -> Session]
      /\ session[w] \in Session
  BY Zenon DEF IInv, TypeOK
<1>2. PICK s \in {Idle, [Idle EXCEPT !.pc = "stopped"]} :
        session' = [session EXCEPT ![w] = s]
  BY Zenon DEF Abort, Crash, Becomes
<1>3. /\ s \in Session /\ s.pc \in {"idle", "stopped"} /\ s.unique = {}
  BY <1>1, <1>2, NextSession, ZenonT(40) DEF IInv, Idle
<1>4. /\ UNCHANGED <<mode, stream, late, offset, seen, handled, outrun>>
      /\ Orphaned(w)
      /\ ~At(w, "stopped")
  BY Zenon DEF Abort, Crash, LoopFields, At
<1>5. /\ claim' \in [Tags -> Claim]
      /\ \A t \in Tags :
           /\ claim'[t].owner = IF claim[t].owner = w THEN None
                                ELSE claim[t].owner
           /\ claim'[t].present = claim[t].present
           /\ claim'[t].expired = claim[t].expired
           /\ claim'[t].observers = claim[t].observers \ {w}
  <2>1. ASSUME NEW c \in Claim
        PROVE  [c EXCEPT !.owner = IF @ = w THEN None ELSE @,
                         !.observers = @ \ {w}] \in Claim
    <3>1. ASSUME NEW o \in Workers \cup {None}, NEW b \in SUBSET Workers
          PROVE  [c EXCEPT !.owner = o, !.observers = b] \in Claim
      BY Zenon DEF Claim
    <3>2. /\ c.owner \in Workers \cup {None}
          /\ c.observers \in SUBSET Workers
      BY Zenon DEF Claim
    <3>3. /\ (IF c.owner = w THEN None ELSE c.owner) \in Workers \cup {None}
          /\ c.observers \ {w} \in SUBSET Workers
      BY <3>2, Zenon
    <3> QED BY <3>1, <3>3, Zenon
  <2>2. ASSUME NEW c \in Claim,
               NEW d, d = [c EXCEPT !.owner = IF @ = w THEN None ELSE @,
                                    !.observers = @ \ {w}]
        PROVE  /\ d.owner = IF c.owner = w THEN None ELSE c.owner
               /\ d.present = c.present
               /\ d.expired = c.expired
               /\ d.observers = c.observers \ {w}
    BY <2>2, Zenon DEF Claim
  <2>3. \A t \in Tags : claim[t] \in Claim
    BY Zenon DEF IInv, TypeOK
  <2>4. claim' \in [Tags -> Claim]
    BY <1>4, <2>1, <2>3, Zenon DEF Orphaned
  <2>5. \A t \in Tags :
          claim'[t] = [claim[t] EXCEPT !.owner = IF @ = w THEN None ELSE @,
                                       !.observers = @ \ {w}]
    BY <1>4, Zenon DEF Orphaned
  <2> QED BY <2>2, <2>3, <2>4, <2>5, Zenon
<1>6. s.pc \in Quiet /\ s.pc \notin Working
  BY <1>3, Zenon DEF Quiet, Working
<1>7. CommitsUnderClaim'
  <2>1. Tags' = Tags /\ Claiming' = Claiming
    BY <1>4, Zenon DEF Tags, Claiming
  <2>2. \A v \in Workers, t \in Tags : InTime(v, t)' => v # w /\ InTime(v, t)
    BY <1>1, <1>2, <1>3, <1>4, Zenon DEF InTime, Commits
  <2> SUFFICES ASSUME Claiming, NEW u \in Tags
               PROVE  /\ claim'[u].owner # None => claim'[u].present
                      /\ \A v \in Workers :
                           InTime(v, u)' => /\ claim'[u].owner = v
                                             /\ claim'[u].expired = {}
                                             /\ claim'[u].observers = {}
    BY <2>1, Zenon DEF CommitsUnderClaim
  <2>3. /\ claim[u].owner # None => claim[u].present
        /\ \A v \in Workers :
             InTime(v, u) => /\ claim[u].owner = v
                              /\ claim[u].expired = {}
                              /\ claim[u].observers = {}
    BY Zenon DEF IInv, CommitsUnderClaim
  <2>4. QED
    BY <1>5, <2>2, <2>3
<1>8. KnowsTag(s)
  BY <1>3, <1>6, QuietKnows, Zenon
<1>9. \A t \in Tags, v \in Workers \ {w} :
        claim'[t].owner = v => claim[t].owner = v
  BY <1>5, WorkerAssumption, Zenon
<1>10. QED
  BY <1>2, <1>3, <1>4, <1>5, <1>6, <1>7, <1>8, <1>9, SessionMoves, Zenon

(* A lease that lapses under a commit is one the commit outlived.          *)
LEMMA LeaseLapsesIInv ==
  ASSUME IInv, NEW w \in Workers, NEW t \in Tags, LeaseLapses(w, t)
  PROVE  IInv'
<1>1. /\ UNCHANGED <<mode, stream, late, offset, seen, handled, session>>
      /\ outrun \subseteq outrun'
  BY Zenon DEF LeaseLapses
<1>2. /\ Tags' = Tags /\ Claiming' = Claiming /\ Session' = Session
      /\ \A u : InOrder(u)' = InOrder(u)
  BY <1>1, Zenon DEF Tags, Claiming, Session, InOrder
<1>3. claim[t] \in Claim
  BY Zenon DEF IInv, TypeOK
<1>4. /\ claim' \in [Tags -> Claim]
      /\ \A u \in Tags :
           /\ claim'[u].owner = claim[u].owner
           /\ claim'[u].present = claim[u].present
           /\ u # t => claim'[u] = claim[u]
  BY <1>3, Zenon DEF LeaseLapses, IInv, TypeOK, Claim
<1>5. TypeOK'
  BY <1>1, <1>2, <1>4, Zenon DEF IInv, TypeOK
<1>6. NoEventSkipped' /\ FromStream' /\ SessionsKnow' /\ RunsAlone'
  BY <1>1, <1>2, Zenon DEF IInv, NoEventSkipped, FromStream, SessionsKnow,
     KnowsTag, RunsAlone, At
<1>7. CommitsUnderClaim'
  <2>1. \A v \in Workers : ~InTime(v, t)'
    BY <1>1, Zenon DEF LeaseLapses, InTime, Commits
  <2>2. \A v \in Workers, u \in Tags : InTime(v, u)' => InTime(v, u)
    BY <1>1, Zenon DEF InTime, Commits
  <2> SUFFICES ASSUME Claiming, NEW u \in Tags
               PROVE  /\ claim'[u].owner # None => claim'[u].present
                      /\ \A v \in Workers :
                           InTime(v, u)' => /\ claim'[u].owner = v
                                            /\ claim'[u].expired = {}
                                            /\ claim'[u].observers = {}
    BY <1>2, Zenon DEF CommitsUnderClaim
  <2>3. /\ claim[u].owner # None => claim[u].present
        /\ \A v \in Workers :
             InTime(v, u) => /\ claim[u].owner = v
                             /\ claim[u].expired = {}
                             /\ claim[u].observers = {}
    BY Zenon DEF IInv, CommitsUnderClaim
  <2>4. QED
    BY <1>4, <2>1, <2>2, <2>3, ZenonT(40)
<1>8. HolderIsUpToDate'
  <2> SUFFICES ASSUME NEW v \in Workers,
                      session[v].pc \in Working,
                      session[v].tag \notin outrun,
                      Claiming => claim'[session[v].tag].owner = v
               PROVE  UpToDate(session[v])
    BY <1>1, <1>2, ZenonT(40) DEF HolderIsUpToDate, UpToDate
  <2>1. session[v].tag \in Tags
    BY Zenon DEF IInv, TypeOK, Session
  <2>2. QED
    BY <1>4, <2>1, ZenonT(40) DEF IInv, HolderIsUpToDate
<1>9. QED
  BY <1>5, <1>6, <1>7, <1>8, Zenon DEF IInv

(* An event inserted in order comes after every other, one inserted late   *)
(* does not count: what a session knows stays true.                        *)
LEMMA InsertKnows ==
  ASSUME IInv, NEW s \in Session, KnowsTag(s),
         NEW d \in SUBSET Nat, NEW e, stream[s.tag] \subseteq e,
         \A u \in d \ InOrder(s.tag) : u > 0 /\ \A x \in stream[s.tag] : ~(u <= x)
  PROVE  Knows(s, handled[s.tag], d, e)
<1> DEFINE h == handled[s.tag]
           o == InOrder(s.tag)
           st == stream[s.tag]
<1>1. Knows(s, h, o, st)
  BY Zenon DEF KnowsTag
<1>2. s.pc = "filter" => Filtering(s, h, d, e)
  BY <1>1, Zenon DEF Knows, Filtering
<1>3. s.pc = "handle" => Filtered(s, h, d, e)
  BY <1>1, Zenon DEF Knows, Filtered
<1>4. s.pc = "fetch" => /\ s.from \in e \cup {0}
                        /\ \A u \in d : u <= s.from => u \in h
  <2>1. \A u \in d \ o : u \in Nat /\ u > 0
    BY Zenon
  <2>2. \A u \in d \ o : ~(u <= 0)
    BY <2>1
  <2>3. QED
    BY <1>1, <2>2, Zenon DEF Knows
<1>5. QED
  BY <1>1, <1>2, <1>3, <1>4, Zenon DEF Knows

LEMMA InsertIInv ==
  ASSUME IInv, NEW t \in Tags, NEW v \in 1 .. LastVersion(t), Insert(t, v)
  PROVE  IInv'
<1>1. UNCHANGED <<mode, offset, seen, handled, claim, outrun, session>>
  BY Zenon DEF Insert
<1>2. Tags' = Tags /\ Claiming' = Claiming /\ Session' = Session
  BY <1>1, Zenon DEF Tags, Claiming, Session
<1>3. v \in Nat /\ v > 0 /\ v # 0
  BY StreamAssumption DEF IInv, TypeOK, Tags
<1>4. /\ stream' = [stream EXCEPT ![t] = @ \cup {v}]
      /\ late' = [late EXCEPT ![t] = IF \E u \in stream[t] : u > v
                                     THEN @ \cup {v} ELSE @]
  BY Zenon DEF Insert
<1>5. /\ stream \in [Tags -> SUBSET Nat] /\ late \in [Tags -> SUBSET Nat]
      /\ \A u \in Tags : IsFiniteSet(stream[u])
  BY Zenon DEF IInv, TypeOK
<1>6. /\ stream' \in [Tags -> SUBSET Nat] /\ late' \in [Tags -> SUBSET Nat]
      /\ stream'[t] = stream[t] \cup {v}
      /\ \A u \in Tags \ {t} : stream'[u] = stream[u] /\ late'[u] = late[u]
      /\ late'[t] = IF \E u \in stream[t] : u > v
                    THEN late[t] \cup {v} ELSE late[t]
  BY <1>3, <1>4, <1>5, ZenonT(40)
<1>7. \A u \in Tags : IsFiniteSet(stream'[u])
  <2>1. IsFiniteSet(stream'[t])
    <3>1. IsFiniteSet(stream[t])
      BY <1>5, Zenon
    <3>2. IsFiniteSet(stream[t] \cup {v})
      BY <3>1, FS_AddElement, Zenon
    <3>3. QED
      BY <1>6, <3>2, Zenon
  <2>2. QED
    BY <1>5, <1>6, <2>1, Zenon
<1>8. TypeOK'
  BY <1>1, <1>2, <1>6, <1>7, Zenon DEF IInv, TypeOK
<1>9. \A u \in Tags :
        /\ stream[u] \subseteq stream'[u]
        /\ \A y \in InOrder(u)' \ InOrder(u) :
             y > 0 /\ \A x \in stream[u] : ~(y <= x)
  <2>1. ASSUME NEW u \in Tags, NEW y \in InOrder(u)', y \notin InOrder(u)
        PROVE  y > 0 /\ \A x \in stream[u] : ~(y <= x)
    <3>1. InOrder(u)' = stream'[u] \ late'[u] /\ InOrder(u) = stream[u] \ late[u]
      BY Zenon DEF InOrder
    <3>2. u = t /\ y = v
      BY <1>6, <2>1, <3>1, Zenon
    <3>3. v \notin late'[t]
      BY <2>1, <3>1, <3>2, Zenon
    <3>4. v \notin stream[t] /\ ~(\E x \in stream[t] : x > v)
      BY <1>6, <3>3, Zenon DEF Insert
    <3>5. \A x \in stream[t] : x \in Nat /\ x # v
      BY <1>5, <3>4, Zenon
    <3>6. \A x \in stream[t] : ~(v <= x)
      BY <1>3, <3>4, <3>5
    <3>7. QED
      BY <1>3, <3>2, <3>6, Zenon
  <2>2. QED
    BY <1>6, <2>1, Zenon
<1>10. FromStream'
  BY <1>1, <1>2, <1>3, <1>6, <1>9, Zenon DEF IInv, FromStream
<1>11. NoEventSkipped'
  <2> SUFFICES ASSUME NEW u \in Tags, NEW x \in handled[u] \cup {offset[u]},
                      NEW y \in InOrder(u)', y <= x
               PROVE  y \in handled[u]
    BY <1>1, <1>2, Zenon DEF IInv, NoEventSkipped
  <2>1. CASE y \in InOrder(u)
    BY <2>1, Zenon DEF IInv, NoEventSkipped
  <2>2. CASE y \notin InOrder(u)
    <3>1. y > 0 /\ \A z \in stream[u] : ~(y <= z)
      BY <1>9, <2>2, Zenon
    <3>2. x \in stream[u] \cup {0}
      BY Zenon DEF IInv, FromStream
    <3>3. x = 0 /\ y <= 0
      BY <3>1, <3>2, Zenon
    <3>4. y \in Nat
      BY <1>6, Zenon DEF InOrder
    <3>5. QED
      BY <3>1, <3>3, <3>4
  <2>3. QED
    BY <2>1, <2>2, Zenon
<1>12. SessionsKnow'
  <2> SUFFICES ASSUME NEW w \in Workers
               PROVE  Knows(session[w], handled[session[w].tag],
                            InOrder(session[w].tag)', stream'[session[w].tag])
    BY <1>1, Zenon DEF SessionsKnow, KnowsTag
  <2>1. session[w] \in Session /\ session[w].tag \in Tags /\ KnowsTag(session[w])
    BY Zenon DEF IInv, TypeOK, Session, SessionsKnow
  <2> DEFINE d == InOrder(session[w].tag)'
             e == stream'[session[w].tag]
  <2>2. /\ d \in SUBSET Nat /\ stream[session[w].tag] \subseteq e
        /\ \A u \in d \ InOrder(session[w].tag) :
             u > 0 /\ \A x \in stream[session[w].tag] : ~(u <= x)
    <3>1. d = e \ late'[session[w].tag] /\ e \in SUBSET Nat
      BY <1>1, <1>6, <2>1, Zenon DEF InOrder
    <3>2. /\ stream[session[w].tag] \subseteq e
          /\ \A u \in d \ InOrder(session[w].tag) :
               u > 0 /\ \A x \in stream[session[w].tag] : ~(u <= x)
      BY <1>1, <1>9, <2>1, Zenon DEF InOrder
    <3>3. QED
      BY <3>1, <3>2, Zenon
  <2> HIDE DEF d, e
  <2>3. Knows(session[w], handled[session[w].tag], d, e)
    BY <2>1, <2>2, InsertKnows, Zenon
  <2>4. QED
    BY <2>3, Zenon DEF d, e
<1>13. RunsAlone'
  BY <1>1, <1>2, Zenon DEF IInv, RunsAlone, At
<1>14. CommitsUnderClaim'
  BY <1>1, <1>2, Zenon DEF IInv, CommitsUnderClaim, InTime, Commits
<1>15. HolderIsUpToDate'
  BY <1>1, <1>2, Zenon DEF IInv, HolderIsUpToDate, UpToDate
<1>16. QED
  BY <1>8, <1>10, <1>11, <1>12, <1>13, <1>14, <1>15, Zenon DEF IInv

(* The stop signal, and a step that changes nothing.                       *)
LEMMA StutterIInv ==
  ASSUME IInv, UNCHANGED <<mode, stream, late, offset, seen, handled, claim, outrun, session>>
  PROVE  IInv'
<1>1. /\ Tags' = Tags /\ Claiming' = Claiming /\ Session' = Session
      /\ \A u : InOrder(u)' = InOrder(u)
  BY Zenon DEF Tags, Claiming, Session, InOrder
<1>2. TypeOK'
  BY <1>1, Zenon DEF IInv, TypeOK
<1>3. NoEventSkipped' /\ FromStream' /\ SessionsKnow' /\ RunsAlone'
  BY <1>1, Zenon DEF IInv, NoEventSkipped, FromStream, SessionsKnow, KnowsTag,
     RunsAlone, At
<1>4. CommitsUnderClaim' /\ HolderIsUpToDate'
  BY <1>1, ZenonT(40) DEF IInv, CommitsUnderClaim, InTime, Commits, HolderIsUpToDate,
     UpToDate
<1>5. QED
  BY <1>2, <1>3, <1>4, Zenon DEF IInv

-----------------------------------------------------------------------------
(* The theorems                                                            *)

LEMMA InitIInv == Init => IInv
<1> SUFFICES ASSUME Init PROVE IInv
    BY Zenon
<1>1. NTags(mode) \in Nat \ {0}
  BY StreamAssumption, Zenon DEF Init
<1>2. 1 \in Tags
  BY <1>1 DEF Tags
<1>3. /\ Idle \in Session /\ Idle.pc = "idle" /\ Idle.unique = {}
      /\ [Idle EXCEPT !.pc = "stopped"] \in Session
      /\ [Idle EXCEPT !.pc = "stopped"].pc = "stopped"
      /\ [Idle EXCEPT !.pc = "stopped"].unique = {}
  BY <1>2, Zenon DEF Idle, Session, Quiet
<1>4. /\ session \in [Workers -> Session]
      /\ \A w \in Workers : session[w].pc \in {"idle", "stopped"}
      /\ \A w \in Workers : session[w].unique = {}
  BY <1>3, Zenon DEF Init
<1>5. Unclaimed \in Claim /\ Unclaimed.owner = None
  BY Zenon DEF Unclaimed, Claim
<1>6. TypeOK
  BY <1>4, <1>5, FS_EmptySet, Zenon DEF Init, TypeOK
<1>7. NoEventSkipped /\ FromStream
  BY Zenon DEF Init, NoEventSkipped, FromStream, InOrder
<1>8. SessionsKnow
  <2>1. \A w \in Workers : session[w].pc \in Quiet
    BY <1>4, Zenon DEF Quiet
  <2> QED
    BY <1>4, <2>1, QuietKnows, Zenon DEF SessionsKnow
<1>9. RunsAlone
  BY Zenon DEF Init, RunsAlone, At
<1>10. CommitsUnderClaim
  BY <1>4, <1>5, Zenon DEF Init, CommitsUnderClaim, InTime, Commits
<1>11. HolderIsUpToDate
  BY <1>4, Zenon DEF HolderIsUpToDate, Working
<1>12. QED
  BY <1>6, <1>7, <1>8, <1>9, <1>10, <1>11, Zenon DEF IInv

LEMMA NextIInv == IInv /\ [Next]_vars => IInv'
<1> SUFFICES ASSUME IInv, [Next]_vars PROVE IInv'
    BY Zenon
<1>1. CASE UNCHANGED vars
  BY <1>1, StutterIInv, Zenon DEF vars
<1>2. ASSUME NEW w \in Workers, LoopStep(w) PROVE IInv'
  BY <1>2, LoopIInv, TryClaimIInv, InsertClaimIInv, ReadClaimIInv,
     TakeOverClaimIInv, ClaimFailsIInv, ReadOffsetIInv, FetchIInv, FilterIInv,
     HandleIInv, RenewIInv, MarkSeenIInv, WriteOffsetIInv, ReleaseIInv, Zenon DEF
     LoopStep, SessionStep
<1>3. ASSUME NEW w \in Workers, StopRequested(w) PROVE IInv'
  BY <1>3, StutterIInv, Zenon DEF StopRequested, LoopFields
<1>4. QED
  BY <1>1, <1>2, <1>3, GoneIInv, LeaseLapsesIInv, InsertIInv, Zenon DEF Next

(* What a session knows, who commits and where the offset stands: the      *)
(* invariant of run_batch and of the claim stores under it, in every       *)
(* reachable state.                                                        *)
THEOREM ReadSideInvariant == Spec => []IInv
BY InitIInv, NextIInv, PTL DEF Spec

(* NoEventSkipped in every reachable state: whatever call fails, whoever   *)
(* crashes and whichever worker takes over, the handled events of a tag    *)
(* are a prefix of its stream, and neither the offset nor the dedup store  *)
(* runs ahead of them (session.rs, run_batch).                             *)
THEOREM SkipsNothing == Spec => []NoEventSkipped
BY ReadSideInvariant, PTL DEF IInv

(* HolderHandlesFreshEvents in every reachable state: as long as no commit *)
(* on a tag outlives its lease, the takeover rules and the renewal before  *)
(* the commit keep every other worker's marks out of the session of the    *)
(* claim's holder.                                                         *)
THEOREM HolderIsAlone == Spec => []HolderHandlesFreshEvents
<1>1. IInv => HolderHandlesFreshEvents
  BY Zenon DEF IInv, HolderHandlesFreshEvents, HolderIsUpToDate, UpToDate, Working
<1>2. QED
  BY <1>1, ReadSideInvariant, PTL

(* OffsetNeverRewinds: no step of any worker moves the offset of a tag     *)
(* back unless a commit on the tag has outlived its lease, although every  *)
(* write of it is a plain upsert (session.rs).                             *)
THEOREM OffsetsOnlyAdvance == Spec => OffsetNeverRewinds
<1>1. IInv /\ [Next]_vars =>
        [\A t \in Tags : t \notin outrun => offset'[t] >= offset[t]]_vars
  <2> SUFFICES ASSUME IInv, Next
               PROVE  \A t \in Tags : t \notin outrun => offset'[t] >= offset[t]
    BY Zenon
  <2>1. \A t \in Tags : offset[t] \in Nat
    BY Zenon DEF IInv, TypeOK
  <2>2. CASE \E w \in Workers : WriteOffset(w)
    BY <2>2, WriteOffsetIInv, Zenon
  <2>3. CASE UNCHANGED offset
    BY <2>1, <2>3
  <2>4. (\E w \in Workers : WriteOffset(w)) \/ UNCHANGED offset
    BY ZenonT(40) DEF Next, LoopStep, SessionStep, Poll, LoopExits, StopRequested,
       Abort, Crash, LeaseLapses, Insert, TryClaim, InsertClaim, ReadClaim,
       TakeOverClaim, ClaimFails, ReadOffset, Fetch, Filter, Handle, Renew,
       MarkSeen, Release, LoopFields, SessionFields, ClaimedFields
  <2>5. QED
    BY <2>2, <2>3, <2>4, Zenon
<1>2. QED
  BY <1>1, ReadSideInvariant, PTL DEF Spec, OffsetNeverRewinds

=============================================================================
