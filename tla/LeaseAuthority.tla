--------------------------- MODULE LeaseAuthority ---------------------------
(***************************************************************************)
(* One target of the route authority (route-authority/src/lib.rs): the     *)
(* lease that owns it, the preempted leases behind that lease, the         *)
(* endpoint's presence, the idempotency cache, and the requests that       *)
(* change them.  Every handler runs under the target's state mutex, so a   *)
(* handler is one step; it reads the monotonic clock several times, so the *)
(* step may also let time pass.  The worker appears only by what it does   *)
(* to this target; Reconciler models it.                                   *)
(***************************************************************************)
EXTENDS Integers, Sequences, FiniteSets, FiniteSetsExt, Functions

CONSTANTS
  Source,               \* adapters allowed on this target
  Policy,               \* AdapterPolicy of each source
  LeaseId, Key, Route, IdleRoute,
  Ttl,                  \* time-to-live values a request may ask for
  OnlineEligibility, AdvertisementWithdraw,
  CacheCapacity,        \* 256 in the code
  NoLease,              \* Option::None of the holder
  HandlerSpan,          \* bound: how far the clock moves inside a handler
  MaxTime, MaxVersion   \* bounds of the clock and of the versions

PolicyType == [priority : Int, resume : BOOLEAN, routes : SUBSET Route,
               minTtl : Nat, maxTtl : Nat]

AcquireRequest == [leaseId : LeaseId, key : Key, route : Route, ttl : Ttl]
RenewRequest   == [leaseId : LeaseId, key : Key, token : 0 .. MaxVersion, ttl : Ttl]
ReleaseRequest == [leaseId : LeaseId, key : Key, token : 0 .. MaxVersion]

\* A lease keeps the request it was granted for.  A token is a fresh UUID;
\* here it is the version the grant commits, which is just as fresh (0 is no
\* token).
Lease == [request : AcquireRequest, source : Source, token : Nat, deadline : Nat]

ASSUME ConstantsAssumption ==
  /\ IdleRoute \in Route
  /\ Ttl \subseteq Nat
  /\ Policy \in [Source -> PolicyType]
  /\ OnlineEligibility \in Nat /\ AdvertisementWithdraw \in Nat
  /\ CacheCapacity \in Nat \ {0}
  /\ HandlerSpan \in Nat /\ MaxTime \in Nat /\ MaxVersion \in Nat
  /\ NoLease \notin Lease

VARIABLES
  now,      \* the monotonic clock
  target,   \* TargetState, without the cache
  cache,    \* TargetState.cache: scope -> [request, token]
  ready,    \* Authority.ready
  reply     \* the answer of the last request

vars == <<now, target, cache, ready, reply>>

NoTime == -1   \* Option::None of an instant
NoReply == [op |-> "none"]
Op == {"acquire", "renew", "release"}
Scope == [source : Source, op : Op, key : Key]
Request == AcquireRequest \cup RenewRequest \cup ReleaseRequest

TargetState == [version : Nat, desired : Route, lease : Lease \cup {NoLease},
                suspended : Seq(Lease), online : BOOLEAN,
                onlineSince : Nat \cup {NoTime}, offlineSince : Nat \cup {NoTime}]

Outcome == {"forbidden", "invalid", "replayed", "idempotency_conflict",
            "unavailable", "contended", "not_found", "bad_token",
            "held", "granted", "renewed", "released"}

Priority(l) == Policy[l.source].priority
Resumes(l) == Policy[l.source].resume

\* Only a strictly greater priority preempts (mutation: so does an equal one).
OutranksOrTies(a, l) == Policy[a].priority >= Priority(l)
Outranks(a, l) == Policy[a].priority > Priority(l)

-----------------------------------------------------------------------------
(* The functions of TargetState *)

\* A deadline is the first instant without the lease (mutation: the last with it).
ExpiredLate(s, t) == s.lease # NoLease /\ s.lease.deadline < t
Expired(s, t) == s.lease # NoLease /\ s.lease.deadline <= t

\* Suspended leases that may come back (mutation: expired ones too).
ResumableForever(s, t) == {i \in DOMAIN s.suspended : Resumes(s.suspended[i])}
Resumable(s, t) ==
  {i \in DOMAIN s.suspended : Resumes(s.suspended[i]) /\ s.suspended[i].deadline > t}

\* Mutation: the restored lease does not bring its route back.
RestoreOldRoute(s, t) ==
  IF Resumable(s, t) = {}
  THEN [s EXCEPT !.lease = NoLease, !.suspended = <<>>, !.desired = IdleRoute]
  ELSE LET i == Max(Resumable(s, t))
       IN  [s EXCEPT !.lease = s.suspended[i],
                     !.suspended = SubSeq(s.suspended, 1, i - 1)]

\* Mutation: the desired route is left behind when nothing can be restored.
RestoreKeepsRoute(s, t) ==
  IF Resumable(s, t) = {}
  THEN [s EXCEPT !.lease = NoLease, !.suspended = <<>>]
  ELSE LET i == Max(Resumable(s, t))
       IN  [s EXCEPT !.lease = s.suspended[i],
                     !.suspended = SubSeq(s.suspended, 1, i - 1),
                     !.desired = s.suspended[i].request.route]

\* Mutation: the lease that has waited longest comes back.
RestoreLongestWaiting(s, t) ==
  IF Resumable(s, t) = {}
  THEN [s EXCEPT !.lease = NoLease, !.suspended = <<>>, !.desired = IdleRoute]
  ELSE LET i == Min(Resumable(s, t))
       IN  [s EXCEPT !.lease = s.suspended[i],
                     !.suspended = SubSeq(s.suspended, 1, i - 1),
                     !.desired = s.suspended[i].request.route]

\* Mutation: the restored lease is read, not popped.
RestoreWithoutPop(s, t) ==
  IF Resumable(s, t) = {}
  THEN [s EXCEPT !.lease = NoLease, !.suspended = <<>>, !.desired = IdleRoute]
  ELSE LET i == Max(Resumable(s, t))
       IN  [s EXCEPT !.lease = s.suspended[i],
                     !.suspended = SubSeq(s.suspended, 1, i),
                     !.desired = s.suspended[i].request.route]

\* Pops suspended leases until one may resume; the ones above it are dropped.
RestoreOrIdle(s, t) ==
  IF Resumable(s, t) = {}
  THEN [s EXCEPT !.lease = NoLease, !.suspended = <<>>, !.desired = IdleRoute]
  ELSE LET i == Max(Resumable(s, t))
       IN  [s EXCEPT !.lease = s.suspended[i],
                     !.suspended = SubSeq(s.suspended, 1, i - 1),
                     !.desired = s.suspended[i].request.route]

\* Mutation: an expiry commits no new version.
AdvanceSilently(s, t) == IF Expired(s, t) THEN RestoreOrIdle(s, t) ELSE s
Advance(s, t) ==
  IF Expired(s, t) THEN [RestoreOrIdle(s, t) EXCEPT !.version = @ + 1] ELSE s

\* Mutation: any online endpoint is eligible at once.
EligibleAtOnce(s, t) == s.online
SessionEligible(s, t) ==
  s.online /\ s.onlineSince # NoTime /\ t - s.onlineSince >= OnlineEligibility

AdvertisementEligible(s, t) ==
  IF s.online THEN SessionEligible(s, t)
  ELSE s.offlineSince # NoTime /\ t - s.offlineSince < AdvertisementWithdraw

\* Instants a handler that starts now may still read.
Readable == {t \in now .. MaxTime : t <= now + HandlerSpan}

\* A new version may still be committed (an expiry and the commit after it).
Unexhausted == target.version + 2 <= MaxVersion

-----------------------------------------------------------------------------
(* What the handlers share *)

Answer(a, op, outcome, token) ==
  reply' = [op |-> op, source |-> a, outcome |-> outcome, token |-> token]

\* advance and emit_transition: a due expiry is committed and clears readiness.
Settle ==
  /\ target' = Advance(target, now)
  /\ ready' = (ready /\ ~Expired(target, now))

\* An error return after advance keeps the expiry it committed.
Refuse(a, op, why) ==
  /\ Settle
  /\ Answer(a, op, why, 0)
  /\ UNCHANGED <<now, cache>>

ScopeOf(a, op, r) == [source |-> a, op |-> op, key |-> r.key]

Remembered(a, op, r) == ScopeOf(a, op, r) \in DOMAIN cache

\* cached_grant and cached_release: the same input gets the same answer.
Recall(a, op, r) ==
  LET entry == cache[ScopeOf(a, op, r)] IN
  /\ Remembered(a, op, r)
  /\ \/ entry.request = r /\ Answer(a, op, "replayed", entry.token)
     \/ entry.request # r /\ Answer(a, op, "idempotency_conflict", 0)
  /\ UNCHANGED <<now, target, cache, ready>>

\* A full cache loses whichever key its iteration yields first.
CacheWithRoom ==
  IF Cardinality(DOMAIN cache) < CacheCapacity THEN {cache}
  ELSE {Restrict(cache, DOMAIN cache \ {k}) : k \in DOMAIN cache}

Remember(scope, r, token) ==
  \E kept \in CacheWithRoom :
    cache' = [k \in DOMAIN kept \cup {scope} |->
                IF k = scope THEN [request |-> r, token |-> token] ELSE kept[k]]

TtlAllowed(a, r) == r.ttl \in Policy[a].minTtl .. Policy[a].maxTtl

Reject(a, op, why) ==
  /\ Answer(a, op, why, 0)
  /\ UNCHANGED <<now, target, cache, ready>>

-----------------------------------------------------------------------------
(* Requests of the adapters *)

\* The holder after advance blocks, repeats or yields to the request.
AcquireRefused(a, r) ==
  LET s == Advance(target, now) IN
  IF ~SessionEligible(s, now) THEN Refuse(a, "acquire", "unavailable")
  ELSE /\ s.lease # NoLease
       /\ IF s.lease.request.leaseId = r.leaseId
          THEN /\ s.lease.request # r \/ s.lease.source # a
               /\ Refuse(a, "acquire", "idempotency_conflict")
          ELSE /\ ~Outranks(a, s.lease)
               /\ Refuse(a, "acquire", "contended")

\* Mutation: whoever repeats the holder's request is told its token.
AcquireHeldByAnyone(a, r) ==
  LET s == Advance(target, now) IN
  /\ SessionEligible(s, now)
  /\ s.lease # NoLease /\ s.lease.request = r
  /\ Settle
  /\ Answer(a, "acquire", "held", s.lease.token)
  /\ UNCHANGED <<now, cache>>

\* The holder's own request, repeated after its cache entry was evicted.
AcquireHeld(a, r) ==
  LET s == Advance(target, now) IN
  /\ SessionEligible(s, now)
  /\ s.lease # NoLease /\ s.lease.request = r /\ s.lease.source = a
  /\ Settle
  /\ Answer(a, "acquire", "held", s.lease.token)
  /\ UNCHANGED <<now, cache>>

\* Eligibility and the preempted deadline are read at seen, the commit at t.
AcquireGranted(a, r) ==
  \E seen, t \in Readable :
    LET s == Advance(target, now)
        token == s.version + 1
        lease == [request |-> r, source |-> a, token |-> token, deadline |-> t + r.ttl]
    IN
    /\ Unexhausted /\ lease.deadline <= MaxTime
    /\ seen <= t
    /\ SessionEligible(s, seen)
    /\ s.lease # NoLease => s.lease.request.leaseId # r.leaseId /\ Outranks(a, s.lease)
    /\ target' = [s EXCEPT !.lease = lease,
                           !.suspended = IF s.lease # NoLease /\ s.lease.deadline > seen
                                         THEN Append(@, s.lease) ELSE @,
                           !.desired = r.route,
                           !.version = token]
    /\ ready' = FALSE
    /\ now' = t
    /\ Remember(ScopeOf(a, "acquire", r), r, token)
    /\ Answer(a, "acquire", "granted", token)

\* Mutation: the route is not checked against the policy.
AcquireAnyRoute(a, r) ==
  /\ TtlAllowed(a, r) /\ ~Remembered(a, "acquire", r)
  /\ AcquireRefused(a, r) \/ AcquireHeld(a, r) \/ AcquireGranted(a, r)

Acquire(a, r) ==
  \/ ~TtlAllowed(a, r) /\ Reject(a, "acquire", "invalid")
  \/ TtlAllowed(a, r) /\ r.route \notin Policy[a].routes /\ Reject(a, "acquire", "forbidden")
  \/ /\ TtlAllowed(a, r) /\ r.route \in Policy[a].routes
     /\ \/ Recall(a, "acquire", r)
        \/ /\ ~Remembered(a, "acquire", r)
           /\ AcquireRefused(a, r) \/ AcquireHeld(a, r) \/ AcquireGranted(a, r)

\* Renewals and releases must name the holder, then its token.
\* Mutation: the source of the request is not compared with the holder's.
NamesHolderId(l, a, r) == l # NoLease /\ l.request.leaseId = r.leaseId
NamesHolder(l, a, r) ==
  l # NoLease /\ l.source = a /\ l.request.leaseId = r.leaseId

MutationRefused(a, op, r) ==
  LET l == Advance(target, now).lease IN
  \/ ~NamesHolder(l, a, r) /\ Refuse(a, op, "not_found")
  \/ NamesHolder(l, a, r) /\ l.token # r.token /\ Refuse(a, op, "bad_token")

\* Mutation: a renewal rotates the token.
RenewRotatingToken(a, r) ==
  \E t \in Readable :
    LET s == Advance(target, now) IN
    /\ Unexhausted /\ t + r.ttl <= MaxTime
    /\ NamesHolder(s.lease, a, r) /\ s.lease.token = r.token
    /\ target' = [s EXCEPT !.lease.deadline = t + r.ttl, !.lease.token = s.version + 1,
                           !.version = @ + 1]
    /\ ready' = (ready /\ ~Expired(target, now))
    /\ now' = t
    /\ Remember(ScopeOf(a, "renew", r), r, r.token)
    /\ Answer(a, "renew", "renewed", r.token)

\* A renewal moves the deadline and the version; readiness survives it.
RenewGranted(a, r) ==
  \E t \in Readable :
    LET s == Advance(target, now) IN
    /\ Unexhausted /\ t + r.ttl <= MaxTime
    /\ NamesHolder(s.lease, a, r) /\ s.lease.token = r.token
    /\ target' = [s EXCEPT !.lease.deadline = t + r.ttl, !.version = @ + 1]
    /\ ready' = (ready /\ ~Expired(target, now))
    /\ now' = t
    /\ Remember(ScopeOf(a, "renew", r), r, r.token)
    /\ Answer(a, "renew", "renewed", r.token)

Renew(a, r) ==
  \/ ~TtlAllowed(a, r) /\ Reject(a, "renew", "invalid")
  \/ /\ TtlAllowed(a, r)
     /\ \/ Recall(a, "renew", r)
        \/ /\ ~Remembered(a, "renew", r)
           /\ MutationRefused(a, "renew", r) \/ RenewGranted(a, r)

\* The answer names the restored lease (0: none).
ReleaseGranted(a, r) ==
  \E t \in Readable :
    LET s == Advance(target, now)
        restored == RestoreOrIdle(s, t)
        token == IF restored.lease = NoLease THEN 0 ELSE restored.lease.token
    IN
    /\ Unexhausted
    /\ NamesHolder(s.lease, a, r) /\ s.lease.token = r.token
    /\ target' = [restored EXCEPT !.version = @ + 1]
    /\ ready' = FALSE
    /\ now' = t
    /\ Remember(ScopeOf(a, "release", r), r, token)
    /\ Answer(a, "release", "released", token)

Release(a, r) ==
  \/ Recall(a, "release", r)
  \/ /\ ~Remembered(a, "release", r)
     /\ MutationRefused(a, "release", r) \/ ReleaseGranted(a, r)

-----------------------------------------------------------------------------
(* The endpoint reporter, readers, the worker and the clock *)

\* presence does not call advance; losing the endpoint ends the session.
Presence(online) ==
  /\ online # target.online
  /\ Unexhausted
  /\ target' =
       IF online
       THEN [target EXCEPT !.online = TRUE, !.onlineSince = now,
                           !.offlineSince = NoTime, !.version = @ + 1]
       ELSE LET gone == [target EXCEPT !.online = FALSE, !.onlineSince = NoTime,
                                       !.offlineSince = now, !.version = @ + 1]
            IN IF target.lease = NoLease THEN gone
               ELSE [gone EXCEPT !.lease = NoLease, !.suspended = <<>>,
                                 !.desired = IdleRoute]
  /\ ready' = FALSE
  /\ reply' = NoReply
  /\ UNCHANGED <<now, cache>>

\* Mutation: a snapshot only reads.
SnapshotWithoutAdvance ==
  /\ reply' = NoReply
  /\ UNCHANGED <<now, target, cache, ready>>

\* GET of a snapshot, and the first phase of reconcile_target.
Snapshot ==
  /\ Settle
  /\ reply' = NoReply
  /\ UNCHANGED <<now, cache>>

\* The worker stores a changed observation: only the version moves here.
StoreObservation ==
  /\ Unexhausted
  /\ target' = [target EXCEPT !.version = @ + 1]
  /\ reply' = NoReply
  /\ UNCHANGED <<now, cache, ready>>

\* The worker ends a pass over all targets.
StoreVerdict ==
  /\ ready' \in BOOLEAN
  /\ reply' = NoReply
  /\ UNCHANGED <<now, target, cache>>

Tick ==
  /\ now < MaxTime
  /\ now' = now + 1
  /\ reply' = NoReply
  /\ UNCHANGED <<target, cache, ready>>

Init ==
  /\ now = 0
  /\ target = [version |-> 0, desired |-> IdleRoute, lease |-> NoLease,
               suspended |-> <<>>, online |-> FALSE,
               onlineSince |-> NoTime, offlineSince |-> NoTime]
  /\ cache = [k \in {} |-> k]
  /\ ready = FALSE
  /\ reply = NoReply

Next ==
  \/ \E a \in Source :
       \/ \E r \in AcquireRequest : Acquire(a, r)
       \/ \E r \in RenewRequest : Renew(a, r)
       \/ \E r \in ReleaseRequest : Release(a, r)
  \/ \E online \in BOOLEAN : Presence(online)
  \/ Snapshot \/ StoreObservation \/ StoreVerdict \/ Tick

\* The worker visits every target each 250 ms, and time passes.
Fairness == WF_vars(Snapshot) /\ WF_vars(Tick)

Spec == Init /\ [][Next]_vars
FairSpec == Spec /\ Fairness

-----------------------------------------------------------------------------
(* Invariants *)

\* The variables hold what the code's types and policies allow: a live lease
\* was granted for a route and a time-to-live of its adapter's policy.
WithinPolicy(l) == TtlAllowed(l.source, l.request) /\ l.request.route \in Policy[l.source].routes

LiveIn(s) == ({s.lease} \ {NoLease}) \cup Range(s.suspended)
Live == LiveIn(target)

CacheTyped ==
  /\ DOMAIN cache \subseteq Scope
  /\ \A k \in DOMAIN cache : cache[k].request \in Request /\ cache[k].token \in Nat

ReplyTyped ==
  \/ reply = NoReply
  \/ reply \in [op : Op, source : Source, outcome : Outcome, token : Nat]

TypeOK ==
  /\ now \in Nat
  /\ target \in TargetState
  /\ \A l \in Live : WithinPolicy(l)
  /\ CacheTyped
  /\ ready \in BOOLEAN
  /\ ReplyTyped

\* The desired route is the holder's, and the idle route when nobody holds the
\* target, through every preemption, expiry, release and endpoint loss.
FollowsHolder(s) ==
  s.desired = IF s.lease = NoLease THEN IdleRoute ELSE s.lease.request.route

DesiredFollowsHolder == FollowsHolder(target)

\* Preempted leases wait in strictly ascending priority below the holder, so no
\* source ever has two live leases; nothing waits when nobody holds the target.
Ordered(s) ==
  /\ s.lease = NoLease => s.suspended = <<>>
  /\ \A i, j \in DOMAIN s.suspended :
       i < j => Priority(s.suspended[i]) < Priority(s.suspended[j])
  /\ s.lease # NoLease =>
       \A i \in DOMAIN s.suspended : Priority(s.suspended[i]) < Priority(s.lease)

PreemptionOrder == Ordered(target)

\* Only an endpoint that has been online long enough carries a session.
HolderNeedsEndpoint ==
  target.lease # NoLease =>
    target.online /\ target.onlineSince >= 0 /\ now - target.onlineSince >= OnlineEligibility

\* No answer, fresh, repeated or replayed, tells a source the token of another
\* source's live lease.
TokenStaysPrivate ==
  reply # NoReply /\ reply.op \in {"acquire", "renew"} =>
    \A l \in Live : l.token = reply.token => l.source = reply.source

\* While the grant of a live lease is cached, a retry of that acquire is answered
\* with the lease's own token.
RetryFindsLiveLease ==
  \A l \in Live :
    Remembered(l.source, "acquire", l.request) =>
      cache[ScopeOf(l.source, "acquire", l.request)]
        = [request |-> l.request, token |-> l.token]

\* A request is called contended only by a holder that has not expired and that
\* it may not preempt: an expired lease never blocks a newcomer.
ContendedOnlyByHolder ==
  reply # NoReply /\ reply.outcome = "contended" =>
    /\ target.lease # NoLease
    /\ target.lease.deadline > now
    /\ Priority(target.lease) >= Policy[reply.source].priority

\* Every token in use, and every token an answer gives (0: none), was issued by a
\* commit of this target; no two live leases share one, and the holder's is newer
\* than those of the leases it preempted.
TokensIssuedOnce ==
  /\ reply # NoReply => reply.token \in 0 .. target.version
  /\ \A l \in Live : l.token \in 1 .. target.version
  /\ \A i, j \in DOMAIN target.suspended :
       target.suspended[i].token = target.suspended[j].token => i = j
  /\ target.lease # NoLease =>
       \A i \in DOMAIN target.suspended : target.suspended[i].token < target.lease.token

-----------------------------------------------------------------------------
(* Action properties *)

\* Another lease becomes holder, or none does.
HolderChanges ==
  target'.lease = NoLease \/ target.lease = NoLease \/ target'.lease.token # target.lease.token

\* The step is its source's release of l.
ReleaseOf(l) ==
  reply'.op = "release" /\ reply'.outcome = "released" /\ reply'.source = l.source

LosesOnlyTo ==
  target.lease # NoLease /\ target.lease.deadline > now' /\ HolderChanges =>
    \/ /\ target'.lease # NoLease
       /\ Priority(target'.lease) > Priority(target.lease)
       /\ target.lease \in Range(target'.suspended)
    \/ ReleaseOf(target.lease)
    \/ ~target'.online

\* A holder whose deadline has not passed loses the target only to a strictly
\* higher priority, behind which it waits, to its own release, or to the loss
\* of the endpoint.
HolderKeepsTarget == [][LosesOnlyTo]_vars

RestoresWaiting ==
  /\ Range(target'.suspended) \subseteq Live
  /\ target'.lease # NoLease /\ target'.lease.token # target'.version /\ HolderChanges =>
       \E w \in Range(target.suspended) :
         /\ w.token = target'.lease.token /\ w.request = target'.lease.request
         /\ Resumes(w) /\ w.deadline > now
         /\ \A l \in Range(target.suspended) :
              Resumes(l) /\ l.deadline > now' /\ ~ReleaseOf(l) => Priority(l) <= Priority(w)

\* A lease that becomes holder without a grant was waiting, had its own deadline
\* still ahead, may resume, and outranks every other that could have resumed (its
\* source may renew it in the step that restores it, or release it so that the
\* next one follows).  What stays behind it was live before with the same
\* deadline: no dropped lease returns.
RestoresOnlyPreempted == [][RestoresWaiting]_vars

\* The lease protocol is a versioned intent: the worker's assumptions hold.
Intent == INSTANCE TargetIntent
            WITH version <- target.version, desired <- target.desired
ImplementsIntent == Intent!Spec

-----------------------------------------------------------------------------
(* Liveness *)

\* When its adapters stop asking, a target falls back to its idle route, however
\* many leases were waiting.
EventuallyIdle == <>[](target.lease = NoLease /\ target.desired = IdleRoute)

-----------------------------------------------------------------------------
(* Claims of the documentation that the code does not keep *)

\* route-authority/README.md:45: a preempted lease is retained only when its
\* adapter opts into resume.
RetainedOnlyIfResumable ==
  \A i \in DOMAIN target.suspended : Resumes(target.suspended[i])

\* route-authority/README.md:61-63: going offline leaves advertisement_eligible
\* as it was for a grace period; only an online endpoint becomes eligible.
AdvertisedOnlyOnceEligible ==
  [][ AdvertisementEligible(target', now') /\ ~AdvertisementEligible(target, now)
      => target'.online ]_vars
=============================================================================
