-------------------------- MODULE LeaseSafetyProofs -------------------------
(***************************************************************************)
(* What adapters may rely on, for any adapters, policies and bounds: who   *)
(* holds a target and why, what tokens are worth, and what a retry is      *)
(* answered.                                                               *)
(***************************************************************************)
EXTENDS LeaseAuthorityProofs

-----------------------------------------------------------------------------
(* Tokens and endpoints *)

\* Tokens were issued in the order of the live leases, the holder's last.
Issued(s) ==
  /\ \A i \in DOMAIN s.suspended : s.suspended[i].token \in 1 .. s.version
  /\ \A i, j \in DOMAIN s.suspended :
       i < j => s.suspended[i].token < s.suspended[j].token
  /\ s.lease # NoLease =>
       /\ s.lease.token \in 1 .. s.version
       /\ \A i \in DOMAIN s.suspended : s.suspended[i].token < s.lease.token

\* A holder has an endpoint that was online long enough at t.
Served(s, t) ==
  s.lease # NoLease =>
    s.online /\ s.onlineSince >= 0 /\ t - s.onlineSince >= OnlineEligibility

\* The parts of a target's state.
LEMMA TargetParts ==
  ASSUME NEW s \in TargetState
  PROVE  /\ Len(s.suspended) \in Nat
         /\ DOMAIN s.suspended = 1 .. Len(s.suspended)
         /\ \A i \in DOMAIN s.suspended : s.suspended[i] \in Lease
         /\ s.lease \in Lease \cup {NoLease}
         /\ s.version \in Nat /\ s.online \in BOOLEAN /\ s.onlineSince \in Int
<1>1. s.suspended \in Seq(Lease)
  BY DEF TargetState
<1>2. s.onlineSince \in Int
  BY DEF TargetState, NoTime
<1> QED BY <1>1, <1>2 DEF TargetState

\* Restoring leaves nobody, or the last lease that may resume with those below it.
LEMMA RestoredShape ==
  ASSUME NEW s \in TargetState, NEW t \in Nat
  PROVE  LET r == RestoreOrIdle(s, t) IN
         \/ r.lease = NoLease /\ r.suspended = << >> /\ Resumable(s, t) = {}
         \/ \E i \in DOMAIN s.suspended :
              /\ r.lease = s.suspended[i] /\ r.lease \in Lease
              /\ Resumes(s.suspended[i]) /\ s.suspended[i].deadline > t
              /\ DOMAIN r.suspended = 1 .. (i - 1)
              /\ \A k \in 1 .. (i - 1) : r.suspended[k] = s.suspended[k]
              /\ \A j \in Resumable(s, t) : j <= i
<1> DEFINE r == RestoreOrIdle(s, t)
<1>1. CASE Resumable(s, t) = {}
  BY <1>1 DEF RestoreOrIdle, TargetState
<1>2. CASE Resumable(s, t) # {}
  <2> DEFINE i == Max(Resumable(s, t))
  <2>1. s.suspended \in Seq(Lease) /\ Len(s.suspended) \in Nat
        /\ DOMAIN s.suspended = 1 .. Len(s.suspended)
    BY TargetParts DEF TargetState
  <2>2. Resumable(s, t) \in SUBSET (1 .. Len(s.suspended))
    BY <2>1 DEF Resumable
  <2>3. i \in Resumable(s, t) /\ \A j \in Resumable(s, t) : j <= i
    BY <1>2, <2>1, <2>2, LastPosition
  <2> HIDE DEF i
  <2>4. i \in 1 .. Len(s.suspended) /\ s.suspended[i] \in Lease
    BY <2>1, <2>2, <2>3
  <2>5. Resumes(s.suspended[i]) /\ s.suspended[i].deadline > t
    BY <2>3 DEF Resumable
  <2>6. r.lease = s.suspended[i] /\ r.suspended = SubSeq(s.suspended, 1, i - 1)
    BY <1>2 DEF RestoreOrIdle, i, TargetState
  <2>7. /\ DOMAIN SubSeq(s.suspended, 1, i - 1) = 1 .. (i - 1)
        /\ \A k \in 1 .. (i - 1) : SubSeq(s.suspended, 1, i - 1)[k] = s.suspended[k]
    BY <2>1, <2>4
  <2> HIDE DEF r
  <2> QED BY <2>1, <2>3, <2>4, <2>5, <2>6, <2>7 DEF r
<1> QED BY <1>1, <1>2

\* Restoring keeps the order of tokens, and serves no one new.
LEMMA RestoreSafe ==
  ASSUME NEW s \in TargetState, NEW t \in Nat, Ordered(s), Issued(s)
  PROVE  LET r == RestoreOrIdle(s, t) IN
         /\ Issued(r)
         /\ \A u \in Nat : Served(s, u) => Served(r, u)
<1> DEFINE r == RestoreOrIdle(s, t)
<1>1. r.version = s.version /\ r.online = s.online /\ r.onlineSince = s.onlineSince
  BY RestoreOrIdleKeeps
<1>2. CASE r.lease = NoLease /\ r.suspended = << >>
  BY <1>2 DEF Issued, Served
<1>3. ASSUME NEW i \in DOMAIN s.suspended, r.lease = s.suspended[i],
             DOMAIN r.suspended = 1 .. (i - 1),
             \A k \in 1 .. (i - 1) : r.suspended[k] = s.suspended[k]
      PROVE  Issued(r) /\ \A u \in Nat : Served(s, u) => Served(r, u)
  <2>1. i \in 1 .. Len(s.suspended) /\ Len(s.suspended) \in Nat
        /\ DOMAIN s.suspended = 1 .. Len(s.suspended)
    BY TargetParts
  <2>2. s.lease # NoLease
    BY <2>1 DEF Ordered
  <2> HIDE DEF r
  <2>3. \A k \in 1 .. (i - 1) : k \in DOMAIN s.suspended /\ k < i
    BY <2>1
  <2>4. Issued(r)
    BY <1>1, <1>3, <2>1, <2>3 DEF Issued
  <2> QED BY <1>1, <2>2, <2>4 DEF Served
<1> QED BY <1>2, <1>3, RestoredShape

\* So does the commit of a due expiry.
LEMMA AdvanceSafe ==
  ASSUME NEW s \in TargetState, NEW t \in Nat, Ordered(s), FollowsHolder(s), Issued(s)
  PROVE  LET r == Advance(s, t) IN
         /\ Issued(r)
         /\ \A u \in Nat : Served(s, u) => Served(r, u)
<1>1. CASE ~Expired(s, t)
  BY <1>1 DEF Advance
<1>2. CASE Expired(s, t)
  <2> DEFINE m == RestoreOrIdle(s, t)
             r == Advance(s, t)
  <2>1. m \in TargetState /\ Issued(m) /\ \A u \in Nat : Served(s, u) => Served(m, u)
    BY RestoreOrIdleKeeps, RestoreSafe
  <2>2. r = [m EXCEPT !.version = @ + 1]
    BY <1>2 DEF Advance
  <2> HIDE DEF m, r
  <2>3. /\ r.version = m.version + 1 /\ m.version \in Nat
        /\ r.lease = m.lease /\ r.suspended = m.suspended
        /\ r.online = m.online /\ r.onlineSince = m.onlineSince
    BY <2>1, <2>2 DEF TargetState
  <2>4. Issued(r)
    BY <2>1, <2>3 DEF Issued
  <2> QED BY <2>1, <2>3, <2>4 DEF Served, r
<1> QED BY <1>1, <1>2

\* Where a grant puts the holder it preempts.
LEMMA PreemptedShape ==
  ASSUME NEW s \in TargetState,
         NEW waiting \in {s.suspended, Append(s.suspended, s.lease)},
         waiting # s.suspended => s.lease # NoLease
  PROVE  LET n == Len(s.suspended) IN
         \/ waiting = s.suspended
         \/ /\ s.lease \in Lease
            /\ DOMAIN waiting = 1 .. (n + 1)
            /\ \A k \in 1 .. n : waiting[k] = s.suspended[k]
            /\ waiting[n + 1] = s.lease
<1>1. s.suspended \in Seq(Lease) /\ s.lease \in Lease \cup {NoLease}
  BY DEF TargetState
<1> QED BY <1>1

\* A grant gets the newest token, and goes on top.
LEMMA GrantSafe ==
  ASSUME NEW s \in TargetState, Issued(s), NEW r,
         r.version = s.version + 1, r.lease.token = s.version + 1,
         r.suspended \in {s.suspended, Append(s.suspended, s.lease)},
         r.suspended # s.suspended => s.lease # NoLease
  PROVE  Issued(r)
<1>1. /\ Len(s.suspended) \in Nat /\ DOMAIN s.suspended = 1 .. Len(s.suspended)
      /\ s.version \in Nat
  BY TargetParts
<1>2. CASE r.suspended = s.suspended
  BY <1>1, <1>2 DEF Issued
<1>3. CASE r.suspended # s.suspended
  <2> DEFINE n == Len(s.suspended)
  <2>1. /\ DOMAIN r.suspended = 1 .. (n + 1)
        /\ \A k \in 1 .. n : r.suspended[k] = s.suspended[k]
        /\ r.suspended[n + 1] = s.lease /\ s.lease # NoLease
    BY <1>3, PreemptedShape
  <2>2. n \in Nat /\ \A k \in 1 .. (n + 1) : k \in 1 .. n \/ k = n + 1
    BY <1>1
  <2>3. \A k \in DOMAIN r.suspended : r.suspended[k].token \in 1 .. s.version
    BY <1>1, <2>1, <2>2 DEF Issued
  <2>4. \A k \in 1 .. n : r.suspended[k].token < s.lease.token
    BY <1>1, <2>1 DEF Issued
  <2> HIDE DEF n
  <2>5. ASSUME NEW i \in DOMAIN r.suspended, NEW j \in DOMAIN r.suspended, i < j
        PROVE  r.suspended[i].token < r.suspended[j].token
    <3>1. i \in 1 .. n
      BY <2>1, <2>2, <2>5
    <3>2. CASE j = n + 1
      BY <2>1, <2>4, <3>1, <3>2
    <3>3. CASE j \in 1 .. n
      BY <1>1, <2>1, <2>5, <3>1, <3>3 DEF Issued, n
    <3> QED BY <2>1, <2>2, <3>2, <3>3
  <2> QED BY <1>1, <2>3, <2>5 DEF Issued
<1> QED BY <1>2, <1>3
-----------------------------------------------------------------------------
(* What the granted requests do *)

\* After advance a target is well formed, has no expired holder, and is the old
\* target unless the holder's deadline had passed.
LEMMA Settled ==
  ASSUME Core
  PROVE  LET s == Advance(target, now) IN
         /\ s \in TargetState /\ Ordered(s) /\ FollowsHolder(s)
         /\ s.version >= target.version
         /\ s.lease # NoLease => s.lease.deadline > now
         /\ ~Expired(target, now) => s = target
<1> USE DEF Core
<1> DEFINE s == Advance(target, now)
<1>1. /\ s \in TargetState /\ Ordered(s) /\ FollowsHolder(s)
      /\ s.version \in {target.version, target.version + 1} /\ target.version \in Nat
  BY AdvanceKeeps DEF TargetState
<1>2. ~Expired(target, now) => s = target
  BY DEF Advance
<1>3. target.lease # NoLease => target.lease.deadline \in Nat
  BY LeaseFields DEF TargetState
<1>4. s.lease # NoLease => s.lease.deadline > now
  <2>1. CASE ~Expired(target, now)
    BY <1>2, <1>3, <2>1 DEF Expired
  <2>2. CASE Expired(target, now)
    <3> DEFINE m == RestoreOrIdle(target, now)
    <3>1. s.lease = m.lease
      <4>1. s = [m EXCEPT !.version = @ + 1] /\ m \in TargetState
        BY <2>2, RestoreOrIdleKeeps DEF Advance
      <4> HIDE DEF s, m
      <4> QED BY <4>1 DEF TargetState
    <3>2. m.lease # NoLease => m.lease.deadline > now
      BY RestoredShape
    <3> QED BY <3>1, <3>2
  <2> QED BY <2>1, <2>2
<1> QED BY <1>1, <1>2, <1>4

\* A grant puts its lease, with the next version as token, above the holder it
\* preempts, on an endpoint that was eligible when the request was admitted.
Grants(s, a, r, seen, t) ==
  /\ now <= seen /\ seen <= t /\ now' = t
  /\ SessionEligible(s, seen)
  /\ s.lease # NoLease => Outranks(a, s.lease)
  /\ target'.lease = [request |-> r, source |-> a, token |-> s.version + 1,
                      deadline |-> t + r.ttl]
  /\ target'.lease \in Lease
  /\ target'.suspended = IF s.lease # NoLease /\ s.lease.deadline > seen
                         THEN Append(s.suspended, s.lease) ELSE s.suspended
  /\ target'.version = s.version + 1
  /\ target'.online = s.online /\ target'.onlineSince = s.onlineSince

LEMMA Granted ==
  ASSUME Core, NEW a \in Source, NEW r \in AcquireRequest, AcquireGranted(a, r)
  PROVE  \E seen, t \in Nat : Grants(Advance(target, now), a, r, seen, t)
<1> DEFINE s == Advance(target, now)
           lease(t) == [request |-> r, source |-> a, token |-> s.version + 1,
                        deadline |-> t + r.ttl]
           waiting(seen) == IF s.lease # NoLease /\ s.lease.deadline > seen
                            THEN Append(s.suspended, s.lease) ELSE s.suspended
<1>1. PICK seen \in Readable, t \in Readable :
        /\ seen <= t /\ now' = t
        /\ SessionEligible(s, seen)
        /\ s.lease # NoLease => Outranks(a, s.lease)
        /\ target' = [s EXCEPT !.lease = lease(t), !.suspended = waiting(seen),
                               !.desired = r.route, !.version = s.version + 1]
  BY DEF AcquireGranted
<1>2. s \in TargetState
  BY Settled
<1> HIDE DEF s, lease, waiting
<1>3. /\ target'.lease = lease(t) /\ target'.suspended = waiting(seen)
      /\ target'.version = s.version + 1
      /\ target'.online = s.online /\ target'.onlineSince = s.onlineSince
  BY <1>1, <1>2 DEF TargetState
<1>4. seen \in Nat /\ t \in Nat /\ now <= seen
  BY ConstantsAssumption DEF Core, Readable
<1>5. lease(t) \in Lease
  <2>1. r.ttl \in Nat
    BY ConstantsAssumption DEF AcquireRequest
  <2>2. s.version + 1 \in Nat /\ t + r.ttl \in Nat
    BY <1>2, <1>4, <2>1 DEF TargetState
  <2> QED BY <2>2 DEF lease, Lease
<1>6. Grants(s, a, r, seen, t)
  BY <1>1, <1>3, <1>4, <1>5 DEF Grants, lease, waiting
<1> QED BY <1>4, <1>6 DEF s

\* A renewal changes the deadline of its source's lease.
LEMMA Renewed ==
  ASSUME Core, NEW a \in Source, NEW r \in RenewRequest, RenewGranted(a, r)
  PROVE  LET s == Advance(target, now) IN
         /\ now' \in Nat /\ now <= now'
         /\ s.lease \in Lease /\ s.lease.source = a /\ s.lease.token = r.token
         /\ target'.lease \in Lease /\ target'.lease.token = s.lease.token
         /\ target'.lease.source = s.lease.source
         /\ target'.lease.request = s.lease.request
         /\ target'.suspended = s.suspended
         /\ target'.version = s.version + 1
         /\ target'.online = s.online /\ target'.onlineSince = s.onlineSince
<1> DEFINE s == Advance(target, now)
<1>1. PICK t \in Readable :
        /\ s.lease # NoLease /\ s.lease.source = a /\ s.lease.token = r.token /\ now' = t
        /\ target' = [s EXCEPT !.lease.deadline = t + r.ttl, !.version = @ + 1]
  BY DEF RenewGranted, NamesHolder
<1>2. t \in Nat /\ r.ttl \in Nat /\ now <= t
  <2>1. r.ttl \in Nat
    BY ConstantsAssumption DEF RenewRequest
  <2> QED BY <2>1, ConstantsAssumption DEF Core, Readable
<1>3. s \in TargetState
  BY Settled
<1>4. s.lease \in Lease
  BY <1>1, <1>3 DEF TargetState
<1> HIDE DEF s
<1> DEFINE d == t + r.ttl
           l == [s.lease EXCEPT !.deadline = d]
<1>5. l \in Lease /\ l.token = s.lease.token /\ l.source = s.lease.source
      /\ l.request = s.lease.request
  BY <1>2, <1>4 DEF Lease
<1>6. target' = [s EXCEPT !.lease = l, !.version = s.version + 1]
  BY <1>1
<1> HIDE DEF d, l
<1>7. /\ target'.lease = l /\ target'.suspended = s.suspended
      /\ target'.version = s.version + 1
      /\ target'.online = s.online /\ target'.onlineSince = s.onlineSince
  BY <1>3, <1>6 DEF TargetState
<1> QED BY <1>1, <1>2, <1>4, <1>5, <1>7 DEF s

\* A release by the holder restores what waits below it.
LEMMA Released ==
  ASSUME Core, NEW a \in Source, NEW r \in ReleaseRequest, ReleaseGranted(a, r)
  PROVE  LET s == Advance(target, now)
             m == RestoreOrIdle(s, now')
         IN
         /\ now' \in Nat /\ now <= now'
         /\ s.lease # NoLease /\ s.lease.source = a
         /\ ReleaseOf(s.lease)
         /\ m \in TargetState
         /\ target'.lease = m.lease /\ target'.suspended = m.suspended
         /\ target'.version = s.version + 1
         /\ target'.online = s.online /\ target'.onlineSince = s.onlineSince
<1> DEFINE s == Advance(target, now)
           m == RestoreOrIdle(s, now')
<1>1. /\ now' \in Readable
      /\ s.lease # NoLease /\ s.lease.source = a
      /\ target' = [m EXCEPT !.version = @ + 1]
      /\ \E token : Answer(a, "release", "released", token)
  BY DEF ReleaseGranted, NamesHolder
<1>2. now' \in Nat /\ now <= now'
  BY <1>1, ConstantsAssumption DEF Core, Readable
<1>3. s \in TargetState /\ Ordered(s)
  BY Settled
<1>4. ReleaseOf(s.lease)
  BY <1>1 DEF Answer, ReleaseOf
<1> HIDE DEF s
<1>5. /\ m \in TargetState /\ m.version = s.version
      /\ m.online = s.online /\ m.onlineSince = s.onlineSince
  BY <1>2, <1>3, RestoreOrIdleKeeps
<1> HIDE DEF m
<1>6. /\ target'.lease = m.lease /\ target'.suspended = m.suspended
      /\ target'.version = s.version + 1
      /\ target'.online = s.online /\ target'.onlineSince = s.onlineSince
  BY <1>1, <1>5 DEF TargetState
<1> QED BY <1>1, <1>2, <1>4, <1>5, <1>6 DEF s, m
-----------------------------------------------------------------------------
(* The inductive invariant *)

\* The facts about one target that the clock and the adapters keep.
Safe == Core /\ Issued(target) /\ Served(target, now)

\* A commit that leaves the leases and the presence alone keeps tokens and endpoint.
LEMMA CommitSafe ==
  ASSUME NEW s \in TargetState, Issued(s), NEW r,
         r.lease = s.lease, r.suspended = s.suspended,
         r.version \in Nat, r.version >= s.version,
         r.online = s.online, r.onlineSince = s.onlineSince
  PROVE  /\ Issued(r)
         /\ \A u \in Nat : Served(s, u) => Served(r, u)
<1>1. s.version \in Nat
  BY DEF TargetState
<1> QED BY <1>1 DEF Issued, Served

\* An endpoint that carried a session keeps carrying it as time passes.
LEMMA ServedLater ==
  ASSUME NEW s \in TargetState, NEW t \in Nat, NEW u \in Nat, t <= u, Served(s, t)
  PROVE  Served(s, u)
<1>1. s.onlineSince \in Int /\ OnlineEligibility \in Nat
  BY TargetParts, ConstantsAssumption
<1> QED BY <1>1 DEF Served

\* Every step keeps the tokens in order and every holder on a live endpoint.
LEMMA NextSafe == Safe /\ [Next]_vars => Safe'
<1> SUFFICES ASSUME Safe, [Next]_vars PROVE Safe'
  OBVIOUS
<1> DEFINE s == Advance(target, now)
<1>1. Core /\ Core' /\ target \in TargetState /\ now \in Nat /\ now' \in Nat
  <2>1. CASE StepEffect
    BY <2>1, StepEffects DEF StepEffect, Core, Safe
  <2>2. CASE UNCHANGED target /\ ready' \in BOOLEAN
    BY <2>2, StepEffects DEF Core, Ordered, FollowsHolder, Safe
  <2> QED BY <2>1, <2>2, StepEffects DEF Safe, Core
<1>2. s \in TargetState /\ Ordered(s) /\ s.version \in Nat
  BY <1>1, Settled DEF TargetState
<1>3. Issued(s) /\ Served(s, now)
  BY <1>1, AdvanceSafe DEF Safe, Core
<1> SUFFICES Issued(target') /\ Served(target', now')
  <2>1. (Issued(target))' /\ (Served(target, now))'
    BY DEF Issued, Served
  <2> QED BY <1>1, <2>1 DEF Safe
<1> HIDE DEF s
<1>4. CASE UNCHANGED target /\ (now' = now \/ now' = now + 1)
  BY <1>1, <1>4, ServedLater DEF Safe
<1>5. CASE Settle /\ now' = now
  BY <1>3, <1>5 DEF Settle, s
<1>6. ASSUME NEW a \in Source, NEW r \in AcquireRequest, AcquireGranted(a, r)
      PROVE  Issued(target') /\ Served(target', now')
  <2>1. PICK seen \in Nat, t \in Nat : Grants(s, a, r, seen, t)
    BY <1>1, <1>6, Granted DEF s
  <2>2. Issued(target')
    <3>1. /\ target'.suspended \in {s.suspended, Append(s.suspended, s.lease)}
          /\ target'.suspended # s.suspended => s.lease # NoLease
          /\ target'.lease.token = s.version + 1 /\ target'.version = s.version + 1
      BY <2>1 DEF Grants
    <3> QED BY <1>2, <1>3, <3>1, GrantSafe
  <2>3. s.onlineSince \in Nat \cup {NoTime} /\ OnlineEligibility \in Nat
    BY <1>2, ConstantsAssumption DEF TargetState
  <2>4. Served(target', t)
    BY <1>1, <2>1, <2>3 DEF Grants, Served, SessionEligible, NoTime
  <2> QED BY <2>1, <2>2, <2>4 DEF Grants
<1>7. ASSUME NEW a \in Source, NEW r \in RenewRequest, RenewGranted(a, r)
      PROVE  Issued(target') /\ Served(target', now')
  <2>1. /\ now <= now' /\ s.lease \in Lease /\ target'.lease \in Lease
        /\ target'.lease.token = s.lease.token
        /\ target'.suspended = s.suspended /\ target'.version = s.version + 1
        /\ target'.online = s.online /\ target'.onlineSince = s.onlineSince
    BY <1>1, <1>7, Renewed DEF s
  <2>2. s.lease # NoLease /\ target'.lease # NoLease
    BY <2>1, LeaseFields
  <2>3. Issued(target')
    BY <1>2, <1>3, <2>1, <2>2 DEF Issued
  <2>4. Served(s, now')
    BY <1>1, <1>2, <1>3, <2>1, ServedLater
  <2> QED BY <2>1, <2>2, <2>3, <2>4 DEF Served
<1>8. ASSUME NEW a \in Source, NEW r \in ReleaseRequest, ReleaseGranted(a, r)
      PROVE  Issued(target') /\ Served(target', now')
  <2> DEFINE m == RestoreOrIdle(s, now')
  <2>1. /\ now <= now' /\ m \in TargetState
        /\ target'.lease = m.lease /\ target'.suspended = m.suspended
        /\ target'.version = s.version + 1
        /\ target'.online = s.online /\ target'.onlineSince = s.onlineSince
    BY <1>1, <1>8, Released DEF s
  <2>2. Served(s, now')
    BY <1>1, <1>2, <1>3, <2>1, ServedLater
  <2>3. Issued(m) /\ Served(m, now')
    BY <1>1, <1>2, <1>3, <2>2, RestoreSafe
  <2>4. m.version = s.version /\ m.online = s.online /\ m.onlineSince = s.onlineSince
    BY <1>1, <1>2, RestoreOrIdleKeeps
  <2> HIDE DEF m
  <2>5. /\ target'.version \in Nat /\ target'.version >= m.version
        /\ target'.online = m.online /\ target'.onlineSince = m.onlineSince
    BY <1>2, <2>1, <2>4
  <2> QED BY <1>1, <2>1, <2>3, <2>5, CommitSafe
<1>9. ASSUME NEW online \in BOOLEAN, Presence(online), now' = now
      PROVE  Issued(target') /\ Served(target', now')
  <2>1. target.version \in Nat
    BY <1>1 DEF TargetState
  <2>2. CASE online \/ target.lease = NoLease
    <3>1. /\ target'.lease = target.lease /\ target'.suspended = target.suspended
          /\ target'.version = target.version + 1
      BY <1>1, <1>9, <2>2 DEF Presence, TargetState
    <3>2. Issued(target')
      BY <2>1, <3>1 DEF Safe, Issued
    <3>3. target.lease = NoLease
      BY <1>9, <2>2 DEF Safe, Served, Presence
    <3> QED BY <3>1, <3>2, <3>3 DEF Served
  <2>3. CASE ~(online \/ target.lease = NoLease)
    <3>1. target'.lease = NoLease /\ target'.suspended = << >>
      BY <1>9, <2>3 DEF Presence, TargetState
    <3> QED BY <3>1 DEF Issued, Served
  <2> QED BY <2>2, <2>3
<1>10. CASE StoreObservation /\ now' = now
  <2>1. /\ target'.lease = target.lease /\ target'.suspended = target.suspended
        /\ target'.online = target.online /\ target'.onlineSince = target.onlineSince
        /\ target'.version = target.version + 1 /\ target.version \in Nat
    BY <1>1, <1>10 DEF StoreObservation, TargetState
  <2> QED BY <1>1, <1>10, <2>1, CommitSafe DEF Safe
<1> QED BY <1>1, StepKinds, <1>4, <1>5, <1>6, <1>7, <1>8, <1>9, <1>10

\* A new target has no lease.
LEMMA InitSafe == Init => Safe
<1> SUFFICES ASSUME Init PROVE Safe
  OBVIOUS
<1>1. target.lease = NoLease /\ target.suspended = << >>
  BY DEF Init
<1> QED BY <1>1, InitCore DEF Safe, Issued, Served

\* The facts hold of every reachable state.
LEMMA SafeInvariant == Spec => []Safe
BY InitSafe, NextSafe, PTL DEF Spec

\* A target has a holder only while its endpoint has been online long enough.
THEOREM HoldersHaveEndpoints == Spec => []HolderNeedsEndpoint
<1>1. Safe => HolderNeedsEndpoint
  BY DEF Safe, Served, HolderNeedsEndpoint
<1> QED BY <1>1, SafeInvariant, PTL
-----------------------------------------------------------------------------
(* Who is turned away, who loses the target, and who gets it back *)

\* Only an acquire that meets a live holder it may not preempt is called contended.
LEMMA ContendedAnswer ==
  ASSUME Core, [Next]_vars, reply' # NoReply, reply'.outcome = "contended"
  PROVE  \/ UNCHANGED vars
         \/ \E a \in Source :
              LET s == Advance(target, now) IN
              /\ target' = s /\ now' = now /\ reply'.source = a
              /\ s.lease # NoLease /\ ~Outranks(a, s.lease)
<1> DEFINE s == Advance(target, now)
<1>1. ASSUME NEW a \in Source, NEW r \in AcquireRequest, Acquire(a, r)
      PROVE  /\ target' = s /\ now' = now /\ reply'.source = a
             /\ s.lease # NoLease /\ ~Outranks(a, s.lease)
  <2>1. ASSUME Reject(a, "acquire", "invalid") \/ Reject(a, "acquire", "forbidden")
               \/ Recall(a, "acquire", r) \/ AcquireHeld(a, r) \/ AcquireGranted(a, r)
        PROVE  FALSE
    <3>1. AcquireGranted(a, r) => reply'.outcome = "granted"
      BY DEF AcquireGranted, Answer
    <3>2. AcquireHeld(a, r) => reply'.outcome = "held"
      BY DEF AcquireHeld, Answer
    <3>3. Recall(a, "acquire", r) => reply'.outcome \in {"replayed", "idempotency_conflict"}
      BY DEF Recall, Answer
    <3>4. \A why : Reject(a, "acquire", why) => reply'.outcome = why
      BY DEF Reject, Answer
    <3> QED BY <2>1, <3>1, <3>2, <3>3, <3>4
  <2>2. AcquireRefused(a, r)
    BY <1>1, <2>1 DEF Acquire
  <2>3. ~Refuse(a, "acquire", "unavailable") /\ ~Refuse(a, "acquire", "idempotency_conflict")
    BY DEF Refuse, Answer
  <2>4. /\ Refuse(a, "acquire", "contended")
        /\ s.lease # NoLease /\ ~Outranks(a, s.lease)
    BY <2>2, <2>3 DEF AcquireRefused
  <2> QED BY <2>4 DEF Refuse, Settle, Answer
<1>2. ASSUME NEW a \in Source, NEW r \in RenewRequest, Renew(a, r) PROVE FALSE
  <2>1. RenewGranted(a, r) => reply'.outcome = "renewed"
    BY DEF RenewGranted, Answer
  <2>2. MutationRefused(a, "renew", r) => reply'.outcome \in {"not_found", "bad_token"}
    BY DEF MutationRefused, Refuse, Answer
  <2>3. Recall(a, "renew", r) => reply'.outcome \in {"replayed", "idempotency_conflict"}
    BY DEF Recall, Answer
  <2>4. Reject(a, "renew", "invalid") => reply'.outcome = "invalid"
    BY DEF Reject, Answer
  <2> QED BY <1>2, <2>1, <2>2, <2>3, <2>4 DEF Renew
<1>3. ASSUME NEW a \in Source, NEW r \in ReleaseRequest, Release(a, r) PROVE FALSE
  <2>1. ReleaseGranted(a, r) => reply'.outcome = "released"
    BY DEF ReleaseGranted, Answer
  <2>2. MutationRefused(a, "release", r) => reply'.outcome \in {"not_found", "bad_token"}
    BY DEF MutationRefused, Refuse, Answer
  <2>3. Recall(a, "release", r) => reply'.outcome \in {"replayed", "idempotency_conflict"}
    BY DEF Recall, Answer
  <2> QED BY <1>3, <2>1, <2>2, <2>3 DEF Release
<1>4. ~(\E online \in BOOLEAN : Presence(online))
  BY DEF Presence
<1>5. ~(Snapshot \/ StoreObservation \/ StoreVerdict \/ Tick)
  BY DEF Snapshot, StoreObservation, StoreVerdict, Tick
<1> QED BY <1>1, <1>2, <1>3, <1>4, <1>5 DEF Next

\* An expired lease never turns anybody away, nor does one that could be preempted.
THEOREM ContentionIsReal == Spec => []ContendedOnlyByHolder
<1> DEFINE IInv == Core /\ ContendedOnlyByHolder
<1>1. Init => ContendedOnlyByHolder
  BY DEF Init, ContendedOnlyByHolder
<1>2. Core /\ ContendedOnlyByHolder /\ [Next]_vars => ContendedOnlyByHolder'
  <2> SUFFICES ASSUME Core, ContendedOnlyByHolder, [Next]_vars,
                      reply' # NoReply, reply'.outcome = "contended"
               PROVE  /\ target'.lease # NoLease /\ target'.lease.deadline > now'
                      /\ Priority(target'.lease) >= Policy[reply'.source].priority
    BY DEF ContendedOnlyByHolder, Priority
  <2>1. CASE UNCHANGED vars
    BY <2>1 DEF vars, ContendedOnlyByHolder
  <2>2. ASSUME NEW a \in Source, LET s == Advance(target, now) IN
                 /\ target' = s /\ now' = now /\ reply'.source = a
                 /\ s.lease # NoLease /\ ~Outranks(a, s.lease)
        PROVE  /\ target'.lease # NoLease /\ target'.lease.deadline > now'
               /\ Priority(target'.lease) >= Policy[reply'.source].priority
    <3>1. /\ target'.lease # NoLease /\ target'.lease.deadline > now'
          /\ target' \in TargetState /\ ~Outranks(a, target'.lease) /\ reply'.source = a
      BY <2>2, Settled
    <3>2. Priority(target'.lease) \in Int
      BY <3>1, LeaseFields DEF TargetState
    <3>3. Policy[a].priority \in Int
      BY ConstantsAssumption DEF PolicyType
    <3> QED BY <3>1, <3>2, <3>3 DEF Outranks
  <2> QED BY <2>1, <2>2, ContendedAnswer
<1> QED BY <1>1, <1>2, CoreInvariant, PTL DEF Spec

\* Time never runs backwards within a handler.
LEMMA ClockAdvances == ASSUME Core, [Next]_vars PROVE now' \in Nat /\ now <= now'
<1>0. now \in Nat
  BY DEF Core
<1>1. ASSUME NEW a \in Source, NEW r \in AcquireRequest, AcquireGranted(a, r)
      PROVE  now' \in Nat /\ now <= now'
  <2>1. PICK seen \in Nat, t \in Nat : now <= seen /\ seen <= t /\ now' = t
    BY <1>1, Granted DEF Grants
  <2> QED BY <1>0, <2>1
<1>2. ASSUME NEW a \in Source, NEW r \in RenewRequest, RenewGranted(a, r)
      PROVE  now' \in Nat /\ now <= now'
  BY <1>2, Renewed
<1>3. ASSUME NEW a \in Source, NEW r \in ReleaseRequest, ReleaseGranted(a, r)
      PROVE  now' \in Nat /\ now <= now'
  BY <1>3, Released
<1> QED BY StepKinds, <1>0, <1>1, <1>2, <1>3 DEF Settle

\* A lease whose time is not up is lost only upwards, by choice, or with the endpoint.
LEMMA NextLosesOnlyTo == ASSUME Core, [Next]_vars PROVE LosesOnlyTo
<1> SUFFICES ASSUME target.lease # NoLease, target.lease.deadline > now', HolderChanges
             PROVE  \/ /\ target'.lease # NoLease
                       /\ Priority(target'.lease) > Priority(target.lease)
                       /\ target.lease \in Range(target'.suspended)
                    \/ ReleaseOf(target.lease)
                    \/ ~target'.online
  BY DEF LosesOnlyTo
<1>1. target \in TargetState /\ target.lease \in Lease /\ now \in Nat
  BY DEF Core, TargetState
<1>2. ~Expired(target, now) /\ Advance(target, now) = target
  <2>1. target.lease.deadline \in Nat
    BY <1>1, LeaseFields
  <2> QED BY <1>1, <2>1, ClockAdvances DEF Expired, Advance
<1>3. target'.lease = target.lease => FALSE
  BY DEF HolderChanges
<1>4. ASSUME NEW a \in Source, NEW r \in AcquireRequest, AcquireGranted(a, r)
      PROVE  /\ target'.lease # NoLease
             /\ Priority(target'.lease) > Priority(target.lease)
             /\ target.lease \in Range(target'.suspended)
  <2>1. PICK seen \in Nat, t \in Nat : Grants(target, a, r, seen, t)
    BY <1>2, <1>4, Granted
  <2>2. target'.lease \in Lease
    BY <2>1 DEF Grants
  <2>3. target'.suspended = Append(target.suspended, target.lease)
    <3>1. target.lease.deadline > seen
      <4>1. target.lease.deadline \in Nat /\ now' = t /\ seen <= t
        BY <1>1, <2>1, LeaseFields DEF Grants
      <4> QED BY <4>1
    <3> QED BY <2>1, <3>1 DEF Grants
  <2>4. target.lease \in Range(target'.suspended)
    <3>1. target.suspended \in Seq(Lease)
      BY <1>1 DEF TargetState
    <3>2. /\ Len(target.suspended) + 1 \in DOMAIN target'.suspended
          /\ target'.suspended[Len(target.suspended) + 1] = target.lease
      BY <1>1, <2>3, <3>1
    <3> QED BY <3>2 DEF Range
  <2>5. Priority(target'.lease) > Priority(target.lease)
    <3>1. Priority(target'.lease) = Policy[a].priority /\ Outranks(a, target.lease)
      BY <2>1 DEF Grants, Priority
    <3> QED BY <3>1 DEF Outranks
  <2> QED BY <2>2, <2>4, <2>5, LeaseFields
<1>5. ASSUME NEW a \in Source, NEW r \in RenewRequest, RenewGranted(a, r) PROVE FALSE
  <2>1. target'.lease \in Lease /\ target'.lease.token = target.lease.token
    BY <1>2, <1>5, Renewed
  <2> QED BY <2>1, LeaseFields DEF HolderChanges
<1>6. ASSUME NEW a \in Source, NEW r \in ReleaseRequest, ReleaseGranted(a, r)
      PROVE  ReleaseOf(target.lease)
  BY <1>2, <1>6, Released
<1>7. ASSUME NEW online \in BOOLEAN, Presence(online) PROVE ~target'.online
  <2>1. CASE online
    BY <1>1, <1>3, <1>7, <2>1 DEF Presence, TargetState
  <2>2. CASE ~online
    <3> DEFINE v == target.version + 1
               gone == [target EXCEPT !.online = FALSE, !.onlineSince = NoTime,
                                      !.offlineSince = now, !.version = v]
    <3>1. target' = [gone EXCEPT !.lease = NoLease, !.suspended = <<>>, !.desired = IdleRoute]
      BY <1>7, <2>2 DEF Presence
    <3>2. target'.online = gone.online
      BY <1>1, <3>1 DEF TargetState
    <3> QED BY <1>1, <3>2 DEF TargetState
  <2> QED BY <2>1, <2>2
<1>8. CASE StoreObservation
  BY <1>1, <1>3, <1>8 DEF StoreObservation, TargetState
<1>9. CASE Settle
  BY <1>2, <1>3, <1>9 DEF Settle
<1> QED BY StepKinds, <1>3, <1>4, <1>5, <1>6, <1>7, <1>8, <1>9

\* A holder whose deadline has not passed loses the target only to a higher
\* priority, behind which it waits, to its own release, or to the endpoint's loss.
THEOREM HoldersKeepTargets == Spec => HolderKeepsTarget
<1>1. Core /\ [Next]_vars => [LosesOnlyTo]_vars
  BY NextLosesOnlyTo
<1> QED BY <1>1, CoreInvariant, PTL DEF Spec, HolderKeepsTarget
\* s is left with the last of old's waiting leases that may resume at t, and with
\* those below it.
Reinstates(s, old, t, i) ==
  /\ i \in DOMAIN old.suspended
  /\ s.lease = old.suspended[i]
  /\ Resumes(old.suspended[i]) /\ old.suspended[i].deadline > t
  /\ DOMAIN s.suspended = 1 .. (i - 1)
  /\ \A k \in 1 .. (i - 1) : s.suspended[k] = old.suspended[k]
  /\ \A j \in DOMAIN old.suspended :
       Resumes(old.suspended[j]) /\ old.suspended[j].deadline > t => j <= i

\* Restoring a holder reinstates it.
LEMMA RestoreReinstates ==
  ASSUME NEW s \in TargetState, NEW t \in Nat, RestoreOrIdle(s, t).lease # NoLease
  PROVE  \E i \in DOMAIN s.suspended : Reinstates(RestoreOrIdle(s, t), s, t, i)
<1> DEFINE r == RestoreOrIdle(s, t)
<1>1. PICK i \in DOMAIN s.suspended :
        /\ r.lease = s.suspended[i]
        /\ Resumes(s.suspended[i]) /\ s.suspended[i].deadline > t
        /\ DOMAIN r.suspended = 1 .. (i - 1)
        /\ \A k \in 1 .. (i - 1) : r.suspended[k] = s.suspended[k]
        /\ \A j \in Resumable(s, t) : j <= i
  BY RestoredShape
<1> HIDE DEF r
<1>2. Reinstates(r, s, t, i)
  BY <1>1 DEF Reinstates, Resumable
<1> QED BY <1>2 DEF r

\* So does an expiry that leaves a holder.
LEMMA AdvanceReinstates ==
  ASSUME Core, Expired(target, now), Advance(target, now).lease # NoLease
  PROVE  \E i \in DOMAIN target.suspended :
           Reinstates(Advance(target, now), target, now, i)
<1> DEFINE m == RestoreOrIdle(target, now)
           s == Advance(target, now)
<1>1. m \in TargetState /\ target \in TargetState /\ now \in Nat
  BY RestoreOrIdleKeeps DEF Core
<1>2. s = [m EXCEPT !.version = @ + 1]
  BY DEF Advance
<1> HIDE DEF m, s
<1>3. s.lease = m.lease /\ s.suspended = m.suspended
  BY <1>1, <1>2 DEF TargetState
<1>4. m.lease # NoLease
  BY <1>3 DEF s
<1>5. PICK i \in DOMAIN target.suspended : Reinstates(m, target, now, i)
  BY <1>1, <1>4, RestoreReinstates DEF m
<1>6. Reinstates(s, target, now, i)
  BY <1>3, <1>5 DEF Reinstates
<1> QED BY <1>6 DEF s

\* What a reinstated lease outranks.
LEMMA ReinstatedIsFirst ==
  ASSUME Core, NEW t \in Nat, now <= t, now' \in Nat, t <= now',
         NEW s, NEW i \in DOMAIN target.suspended, Reinstates(s, target, t, i),
         target'.lease.token = s.lease.token, target'.lease.request = s.lease.request
  PROVE  \E w \in Range(target.suspended) :
           /\ w.token = target'.lease.token /\ w.request = target'.lease.request
           /\ Resumes(w) /\ w.deadline > now
           /\ \A l \in Range(target.suspended) :
                Resumes(l) /\ l.deadline > now' /\ ~ReleaseOf(l) => Priority(l) <= Priority(w)
<1> DEFINE w == target.suspended[i]
<1>1. /\ target \in TargetState /\ Ordered(target) /\ now \in Nat
      /\ Len(target.suspended) \in Nat
      /\ DOMAIN target.suspended = 1 .. Len(target.suspended)
      /\ \A j \in DOMAIN target.suspended : target.suspended[j] \in Lease
  BY TargetParts DEF Core
<1>2. w \in Range(target.suspended)
  BY DEF Range
<1>3. w.token = target'.lease.token /\ w.request = target'.lease.request
  BY DEF Reinstates
<1>4. Resumes(w) /\ w.deadline > now
  <2>1. w.deadline \in Nat
    BY <1>1, LeaseFields
  <2> QED BY <1>1, <2>1 DEF Reinstates
<1>5. ASSUME NEW l \in Range(target.suspended), Resumes(l), l.deadline > now'
      PROVE  Priority(l) <= Priority(w)
  <2>1. PICK j \in DOMAIN target.suspended : l = target.suspended[j]
    BY DEF Range
  <2>2. l.deadline \in Nat /\ Priority(l) \in Int
    BY <1>1, <2>1, LeaseFields
  <2>3. l.deadline > t
    BY <1>5, <2>2
  <2>4. j <= i
    BY <1>5, <2>1, <2>3 DEF Reinstates
  <2>5. CASE j = i
    BY <2>1, <2>2, <2>5
  <2>6. CASE j # i
    <3>1. j < i
      BY <1>1, <2>4, <2>6
    <3>2. Priority(l) < Priority(w) /\ Priority(w) \in Int
      BY <1>1, <2>1, <3>1, LeaseFields DEF Ordered
    <3> QED BY <2>2, <3>2
  <2> QED BY <2>5, <2>6
<1> HIDE DEF w
<1> QED BY <1>2, <1>3, <1>4, <1>5
\* When an expiry reinstates the very lease its source then releases, the next
\* one follows, and outranks all others that could have resumed.
LEMMA NextIsFirst ==
  ASSUME Core, now' \in Nat, now <= now', NEW s, NEW m,
         NEW i \in DOMAIN target.suspended, Reinstates(s, target, now, i),
         NEW j \in DOMAIN s.suspended, Reinstates(m, s, now', j),
         target'.lease = m.lease, ReleaseOf(s.lease)
  PROVE  \E w \in Range(target.suspended) :
           /\ w.token = target'.lease.token /\ w.request = target'.lease.request
           /\ Resumes(w) /\ w.deadline > now
           /\ \A l \in Range(target.suspended) :
                Resumes(l) /\ l.deadline > now' /\ ~ReleaseOf(l) => Priority(l) <= Priority(w)
<1>1. /\ target \in TargetState /\ Ordered(target) /\ now \in Nat
      /\ Len(target.suspended) \in Nat
      /\ DOMAIN target.suspended = 1 .. Len(target.suspended)
      /\ \A k \in DOMAIN target.suspended :
           /\ target.suspended[k] \in Lease
           /\ Priority(target.suspended[k]) \in Int /\ target.suspended[k].deadline \in Nat
  <2>1. target \in TargetState /\ Ordered(target) /\ now \in Nat
    BY DEF Core
  <2> QED BY <2>1, TargetParts, LeaseFields
<1>2. i \in Nat /\ j \in 1 .. (i - 1) /\ j \in DOMAIN target.suspended
      /\ s.suspended[j] = target.suspended[j]
  <2>1. i \in 1 .. Len(target.suspended)
    BY <1>1
  <2>2. j \in 1 .. (i - 1) /\ s.suspended[j] = target.suspended[j]
    BY DEF Reinstates
  <2> QED BY <1>1, <2>1, <2>2
<1> DEFINE w == target.suspended[j]
<1>3. w \in Range(target.suspended)
  BY <1>2 DEF Range
<1>4. m.lease = w /\ Resumes(w) /\ w.deadline > now'
  BY <1>2 DEF Reinstates
<1>5. w.deadline > now
  BY <1>1, <1>2, <1>4
<1>6. ASSUME NEW l \in Range(target.suspended), Resumes(l), l.deadline > now', ~ReleaseOf(l)
      PROVE  Priority(l) <= Priority(w)
  <2>1. PICK k \in DOMAIN target.suspended : l = target.suspended[k]
    BY DEF Range
  <2>2. k \in Nat /\ l.deadline > now
    BY <1>1, <1>6, <2>1
  <2>3. k <= i /\ k # i
    BY <1>6, <2>1, <2>2 DEF Reinstates
  <2>4. k \in 1 .. (i - 1)
    BY <1>1, <1>2, <2>3
  <2>5. k \in DOMAIN s.suspended /\ s.suspended[k] = l
    BY <2>1, <2>4 DEF Reinstates
  <2>6. k <= j
    BY <1>6, <2>5 DEF Reinstates
  <2>7. CASE k = j
    BY <1>1, <2>1, <2>7
  <2>8. CASE k # j
    <3>1. k < j
      BY <1>2, <2>2, <2>6, <2>8
    <3>2. Priority(l) < Priority(w) /\ Priority(l) \in Int /\ Priority(w) \in Int
      BY <1>1, <1>2, <2>1, <3>1 DEF Ordered
    <3> QED BY <3>2
  <2> QED BY <2>7, <2>8
<1> HIDE DEF w
<1> QED BY <1>3, <1>4, <1>5, <1>6

\* What waits after a grant was live after advance.
LEMMA WaitingAfterGrant ==
  ASSUME Core, NEW a, NEW r, NEW seen, NEW t,
         Grants(Advance(target, now), a, r, seen, t)
  PROVE  Range(target'.suspended) \subseteq LiveIn(Advance(target, now))
<1> DEFINE s == Advance(target, now)
<1>1. s \in TargetState
  BY Settled
<1> HIDE DEF s
<1>2. Grants(s, a, r, seen, t)
  BY DEF s
<1>3. CASE target'.suspended = s.suspended
  BY <1>3 DEF LiveIn, s
<1>4. CASE target'.suspended # s.suspended
  <2> DEFINE n == Len(s.suspended)
  <2>1. s.lease # NoLease /\ target'.suspended = Append(s.suspended, s.lease)
    BY <1>2, <1>4 DEF Grants
  <2>2. /\ DOMAIN target'.suspended = 1 .. (n + 1)
        /\ \A k \in 1 .. n : target'.suspended[k] = s.suspended[k]
        /\ target'.suspended[n + 1] = s.lease
    BY <1>1, <2>1, PreemptedShape
  <2>3. n \in Nat /\ DOMAIN s.suspended = 1 .. n
    BY <1>1, TargetParts
  <2> HIDE DEF n
  <2>4. \A k \in 1 .. (n + 1) : k \in 1 .. n \/ k = n + 1
    BY <2>3
  <2> QED BY <2>1, <2>2, <2>3, <2>4 DEF Range, LiveIn, s
<1> QED BY <1>3, <1>4

\* Whatever waits after a step was live before it.
LEMMA WaitingWasLive ==
  ASSUME Core, [Next]_vars
  PROVE  Range(target'.suspended) \subseteq Live
<1> DEFINE s == Advance(target, now)
<1>1. target \in TargetState /\ s \in TargetState /\ now \in Nat /\ LiveIn(s) \subseteq Live
  BY AdvanceLive, Settled DEF Core, Live
<1> HIDE DEF s
<1>2. CASE UNCHANGED target
  BY <1>2 DEF Live, LiveIn
<1>3. CASE Settle
  <2>1. target' = s
    BY <1>3 DEF Settle, s
  <2> QED BY <1>1, <2>1 DEF LiveIn
<1>4. ASSUME NEW a \in Source, NEW r \in AcquireRequest, AcquireGranted(a, r)
      PROVE  Range(target'.suspended) \subseteq Live
  <2>1. PICK seen \in Nat, t \in Nat : Grants(s, a, r, seen, t)
    BY <1>4, Granted DEF s
  <2> QED BY <1>1, <2>1, WaitingAfterGrant DEF s
<1>5. ASSUME NEW a \in Source, NEW r \in RenewRequest, RenewGranted(a, r)
      PROVE  Range(target'.suspended) \subseteq Live
  <2>1. target'.suspended = s.suspended
    BY <1>5, Renewed DEF s
  <2> QED BY <1>1, <2>1 DEF LiveIn
<1>6. ASSUME NEW a \in Source, NEW r \in ReleaseRequest, ReleaseGranted(a, r)
      PROVE  Range(target'.suspended) \subseteq Live
  <2>1. target'.suspended = RestoreOrIdle(s, now').suspended /\ now' \in Nat
    BY <1>6, Released DEF s
  <2>2. LiveIn(RestoreOrIdle(s, now')) \subseteq LiveIn(s)
    BY <1>1, <2>1, RestoreOrIdleLive
  <2> QED BY <1>1, <2>1, <2>2 DEF LiveIn
<1>7. ASSUME NEW online \in BOOLEAN, Presence(online)
      PROVE  Range(target'.suspended) \subseteq Live
  <2>1. CASE online \/ target.lease = NoLease
    <3>1. target'.suspended = target.suspended
      BY <1>1, <1>7, <2>1 DEF Presence, TargetState
    <3> QED BY <3>1 DEF Live, LiveIn
  <2>2. CASE ~(online \/ target.lease = NoLease)
    <3>1. target'.suspended = << >>
      BY <1>1, <1>7, <2>2 DEF Presence, TargetState
    <3> QED BY <3>1 DEF Range
  <2> QED BY <2>1, <2>2
<1>8. CASE StoreObservation
  <2>1. target'.suspended = target.suspended
    BY <1>1, <1>8 DEF StoreObservation, TargetState
  <2> QED BY <2>1 DEF Live, LiveIn
<1> QED BY StepKinds, <1>2, <1>3, <1>4, <1>5, <1>6, <1>7, <1>8

\* Whoever holds the target after a step without a grant was reinstated by it.
LEMMA NextRestoresWaiting == ASSUME Core, [Next]_vars PROVE RestoresWaiting
<1> DEFINE s == Advance(target, now)
           Restored == \E w \in Range(target.suspended) :
             /\ w.token = target'.lease.token /\ w.request = target'.lease.request
             /\ Resumes(w) /\ w.deadline > now
             /\ \A l \in Range(target.suspended) :
                  Resumes(l) /\ l.deadline > now' /\ ~ReleaseOf(l) => Priority(l) <= Priority(w)
<1>0. SUFFICES ASSUME target'.lease # NoLease, target'.lease.token # target'.version,
                      HolderChanges
               PROVE  Restored
  BY WaitingWasLive DEF RestoresWaiting
<1>1. /\ target \in TargetState /\ s \in TargetState /\ now \in Nat
      /\ now' \in Nat /\ now <= now'
      /\ ~Expired(target, now) => s = target
  BY ClockAdvances, Settled DEF Core
<1>2. ASSUME Expired(target, now), s.lease # NoLease,
             target'.lease.token = s.lease.token, target'.lease.request = s.lease.request
      PROVE  Restored
  <2>1. PICK i \in DOMAIN target.suspended : Reinstates(s, target, now, i)
    BY <1>2, AdvanceReinstates
  <2> HIDE DEF s, Restored
  <2> QED BY <1>1, <1>2, <2>1, ReinstatedIsFirst DEF Restored
<1> HIDE DEF s, Restored
<1>3. target'.lease = target.lease => FALSE
  BY <1>0 DEF HolderChanges
<1>4. CASE Settle
  <2>1. target' = s
    BY <1>4 DEF Settle, s
  <2> QED BY <1>0, <1>1, <1>2, <1>3, <2>1
<1>5. ASSUME NEW a \in Source, NEW r \in AcquireRequest, AcquireGranted(a, r) PROVE FALSE
  <2>1. PICK seen \in Nat, t \in Nat : Grants(s, a, r, seen, t)
    BY <1>5, Granted DEF s
  <2> QED BY <1>0, <2>1 DEF Grants
<1>6. ASSUME NEW a \in Source, NEW r \in RenewRequest, RenewGranted(a, r) PROVE Restored
  <2>1. /\ s.lease # NoLease /\ target'.lease.token = s.lease.token
        /\ target'.lease.request = s.lease.request
    BY <1>6, Renewed, LeaseFields DEF s
  <2>2. CASE Expired(target, now)
    BY <1>2, <2>1, <2>2
  <2>3. CASE ~Expired(target, now)
    BY <1>0, <1>1, <2>1, <2>3 DEF HolderChanges
  <2> QED BY <2>2, <2>3
<1>7. ASSUME NEW a \in Source, NEW r \in ReleaseRequest, ReleaseGranted(a, r) PROVE Restored
  <2> DEFINE m == RestoreOrIdle(s, now')
  <2>1. target'.lease = m.lease /\ s.lease # NoLease /\ ReleaseOf(s.lease)
    BY <1>7, Released DEF s
  <2>2. PICK j \in DOMAIN s.suspended : Reinstates(m, s, now', j)
    BY <1>0, <1>1, <2>1, RestoreReinstates
  <2> HIDE DEF m
  <2>3. CASE Expired(target, now)
    <3>1. PICK i \in DOMAIN target.suspended : Reinstates(s, target, now, i)
      BY <2>1, <2>3, AdvanceReinstates DEF s
    <3> QED BY <1>1, <2>1, <2>2, <3>1, NextIsFirst DEF Restored
  <2>4. CASE ~Expired(target, now)
    <3>1. Reinstates(m, target, now', j) /\ j \in DOMAIN target.suspended
      BY <1>1, <2>2, <2>4
    <3> QED BY <1>1, <2>1, <3>1, ReinstatedIsFirst DEF Restored
  <2> QED BY <2>3, <2>4
<1>8. ASSUME NEW online \in BOOLEAN, Presence(online) PROVE FALSE
  BY <1>0, <1>1, <1>3, <1>8 DEF Presence, TargetState
<1>9. CASE StoreObservation
  BY <1>1, <1>3, <1>9 DEF StoreObservation, TargetState
<1>10. CASE UNCHANGED target
  BY <1>3, <1>10
<1> QED BY StepKinds, <1>4, <1>5, <1>6, <1>7, <1>8, <1>9, <1>10

\* A lease that becomes holder without a grant was waiting, had its own deadline
\* still ahead, may resume, and outranks every other that could have; nothing
\* dropped returns.
THEOREM OnlyPreemptedLeasesReturn == Spec => RestoresOnlyPreempted
<1>1. Core /\ [Next]_vars => [RestoresWaiting]_vars
  BY NextRestoresWaiting
<1> QED BY <1>1, CoreInvariant, PTL DEF Spec, RestoresOnlyPreempted
-----------------------------------------------------------------------------
(* What tokens are told, and what a retry is answered *)

\* A remembered answer, given again.
Replayed(a, op, r) ==
  /\ Remembered(a, op, r) /\ UNCHANGED <<target, cache>>
  /\ reply'.op = op /\ reply'.source = a
  /\ reply'.token = cache[ScopeOf(a, op, r)].token

\* The answer and the cache after a step, by what the step was.
LEMMA AnswerKinds ==
  ASSUME Core, [Next]_vars
  PROVE  \/ UNCHANGED vars
         \/ UNCHANGED cache /\ reply' = NoReply
         \/ UNCHANGED cache /\ reply'.token = 0
         \/ \E a \in Source, op \in Op, r \in Request : Replayed(a, op, r)
         \/ \E a \in Source, r \in AcquireRequest : AcquireHeld(a, r)
         \/ \E a \in Source, r \in AcquireRequest : AcquireGranted(a, r)
         \/ \E a \in Source, r \in RenewRequest : RenewGranted(a, r)
         \/ \E a \in Source, r \in ReleaseRequest : ReleaseGranted(a, r)
<1>1. ASSUME NEW a, NEW op, NEW why, Refuse(a, op, why) \/ Reject(a, op, why)
      PROVE  UNCHANGED cache /\ reply'.token = 0
  BY <1>1 DEF Refuse, Reject, Answer
<1>2. ASSUME NEW a \in Source, NEW op \in Op, NEW r \in Request, Recall(a, op, r)
      PROVE  (UNCHANGED cache /\ reply'.token = 0) \/ Replayed(a, op, r)
  BY <1>2 DEF Recall, Answer, Replayed
<1>4. ASSUME NEW a \in Source, NEW r \in AcquireRequest, Acquire(a, r)
      PROVE  \/ \E why : Refuse(a, "acquire", why) \/ Reject(a, "acquire", why)
             \/ Recall(a, "acquire", r) \/ AcquireHeld(a, r) \/ AcquireGranted(a, r)
  BY <1>4 DEF Acquire, AcquireRefused
<1>5. ASSUME NEW a \in Source, NEW r \in RenewRequest, Renew(a, r)
      PROVE  \/ \E why : Refuse(a, "renew", why) \/ Reject(a, "renew", why)
             \/ Recall(a, "renew", r) \/ RenewGranted(a, r)
  BY <1>5 DEF Renew, MutationRefused
<1>6. ASSUME NEW a \in Source, NEW r \in ReleaseRequest, Release(a, r)
      PROVE  \/ \E why : Refuse(a, "release", why)
             \/ Recall(a, "release", r) \/ ReleaseGranted(a, r)
  BY <1>6 DEF Release, MutationRefused
<1>7. /\ AcquireRequest \subseteq Request /\ RenewRequest \subseteq Request
      /\ ReleaseRequest \subseteq Request /\ Op = {"acquire", "renew", "release"}
  BY DEF Request, Op
<1>8. ASSUME NEW online \in BOOLEAN, Presence(online)
      PROVE  UNCHANGED cache /\ reply' = NoReply
  BY <1>8 DEF Presence
<1>9. ASSUME Snapshot \/ StoreObservation \/ StoreVerdict \/ Tick
      PROVE  UNCHANGED cache /\ reply' = NoReply
  BY <1>9 DEF Snapshot, StoreObservation, StoreVerdict, Tick
<1>10. ASSUME NEW a \in Source,
              \/ \E r \in AcquireRequest : Recall(a, "acquire", r)
              \/ \E r \in RenewRequest : Recall(a, "renew", r)
              \/ \E r \in ReleaseRequest : Recall(a, "release", r)
       PROVE  \/ UNCHANGED cache /\ reply'.token = 0
              \/ \E op \in Op, r \in Request : Replayed(a, op, r)
  BY <1>2, <1>7, <1>10
<1> QED BY <1>1, <1>4, <1>5, <1>6, <1>8, <1>9, <1>10 DEF Next

\* A remembered answer joins entries that were there before.
LEMMA RememberedEntries ==
  ASSUME NEW scope, NEW r, NEW token, Remember(scope, r, token)
  PROVE  \A k \in DOMAIN cache' :
           \/ k = scope /\ cache'[k] = [request |-> r, token |-> token]
           \/ k # scope /\ k \in DOMAIN cache /\ cache'[k] = cache[k]
<1>1. PICK kept \in CacheWithRoom :
        cache' = [k \in DOMAIN kept \cup {scope} |->
                    IF k = scope THEN [request |-> r, token |-> token] ELSE kept[k]]
  BY DEF Remember
<1>2. /\ DOMAIN kept \subseteq DOMAIN cache
      /\ \A k \in DOMAIN kept : kept[k] = cache[k]
  <2>1. CASE kept = cache
    BY <2>1
  <2>2. CASE \E k \in DOMAIN cache : kept = Restrict(cache, DOMAIN cache \ {k})
    BY <2>2 DEF Restrict
  <2> QED BY <2>1, <2>2 DEF CacheWithRoom
<1> QED BY <1>1, <1>2

\* Two descriptions of one grant, before and after a renewal.
SameGrant(m, l) == m.token = l.token /\ m.source = l.source /\ m.request = l.request

\* Live tokens were issued, and the holder's is nobody else's.
LEMMA LiveTokens ==
  ASSUME NEW s \in TargetState, Issued(s), NEW l \in LiveIn(s)
  PROVE  /\ l \in Lease /\ l.token \in 1 .. s.version
         /\ s.lease # NoLease /\ l.token = s.lease.token => l = s.lease
<1>1. /\ s.lease \in Lease \cup {NoLease} /\ s.version \in Nat
      /\ \A i \in DOMAIN s.suspended : s.suspended[i] \in Lease
  BY TargetParts
<1>2. CASE l = s.lease /\ l # NoLease
  BY <1>1, <1>2 DEF Issued
<1>3. ASSUME NEW i \in DOMAIN s.suspended, l = s.suspended[i]
      PROVE  /\ l \in Lease /\ l.token \in 1 .. s.version
             /\ ~(s.lease # NoLease /\ l.token = s.lease.token)
  <2>1. l \in Lease /\ l.token \in 1 .. s.version
    BY <1>1, <1>3 DEF Issued
  <2>2. s.lease # NoLease => l.token < s.lease.token /\ s.lease.token \in Nat
    BY <1>1, <1>3, LeaseFields DEF Issued
  <2> QED BY <2>1, <2>2
<1> QED BY <1>2, <1>3 DEF LiveIn, Range

\* A step that grants nothing leaves only grants that were live before it.
LEMMA LiveGrants ==
  ASSUME Core, [Next]_vars, NEW l \in Live'
  PROVE  \/ \E a \in Source, r \in AcquireRequest : AcquireGranted(a, r)
         \/ \E m \in Live : SameGrant(m, l)
<1> DEFINE s == Advance(target, now)
<1>1. target \in TargetState /\ s \in TargetState /\ now \in Nat /\ LiveIn(s) \subseteq Live
  BY AdvanceLive, Settled DEF Core, Live
<1>2. l \in Range(target'.suspended) => \E m \in Live : SameGrant(m, l)
  BY WaitingWasLive DEF SameGrant
<1>3. l \in LiveIn(s) => \E m \in Live : SameGrant(m, l)
  BY <1>1 DEF SameGrant
<1>4. (l = target'.lease /\ l # NoLease) \/ l \in Range(target'.suspended)
  BY DEF Live, LiveIn
<1> HIDE DEF s
<1> SUFFICES ASSUME l = target'.lease, l # NoLease
             PROVE  \/ \E a \in Source, r \in AcquireRequest : AcquireGranted(a, r)
                    \/ \E m \in Live : SameGrant(m, l)
  BY <1>2, <1>4
<1>5. l = target.lease => \E m \in Live : SameGrant(m, l)
  BY DEF Live, LiveIn, SameGrant
<1>6. l = s.lease => \E m \in Live : SameGrant(m, l)
  BY <1>3 DEF LiveIn
<1>7. CASE Settle
  BY <1>6, <1>7 DEF Settle, s
<1>8. ASSUME NEW a \in Source, NEW r \in RenewRequest, RenewGranted(a, r)
      PROVE  \E m \in Live : SameGrant(m, l)
  <2>1. s.lease \in Lease /\ SameGrant(s.lease, l)
    BY <1>8, Renewed DEF s, SameGrant
  <2>2. s.lease \in Live
    BY <1>1, <2>1, LeaseFields DEF LiveIn
  <2> QED BY <2>1, <2>2
<1>9. ASSUME NEW a \in Source, NEW r \in ReleaseRequest, ReleaseGranted(a, r)
      PROVE  \E m \in Live : SameGrant(m, l)
  <2>1. l = RestoreOrIdle(s, now').lease /\ now' \in Nat
    BY <1>9, Released DEF s
  <2>2. l \in LiveIn(s)
    BY <1>1, <2>1, RestoreOrIdleLive DEF LiveIn
  <2> QED BY <1>3, <2>2 DEF s
<1>10. ASSUME NEW online \in BOOLEAN, Presence(online) PROVE l = target.lease
  BY <1>1, <1>10 DEF Presence, TargetState
<1>11. CASE StoreObservation
  BY <1>1, <1>5, <1>11 DEF StoreObservation, TargetState
<1>12. CASE UNCHANGED target
  BY <1>5, <1>12
<1> QED BY StepKinds, <1>5, <1>7, <1>8, <1>9, <1>10, <1>11, <1>12

\* Versions are never taken back.
LEMMA VersionsGrow ==
  ASSUME Core, [Next]_vars
  PROVE  target.version \in Nat /\ target'.version >= target.version
<1>1. target.version \in Nat
  BY DEF Core, TargetState
<1>2. CASE StepEffect
  BY <1>1, <1>2 DEF StepEffect, TargetState
<1>3. CASE UNCHANGED target
  BY <1>1, <1>3
<1> QED BY <1>1, <1>2, <1>3, StepEffects

\* Nobody else's live lease carries this token after the step.
Entrusted(a, token) == \A l \in Live' : l.token = token => l.source = a

\* The token of a holder's answer after the step is entrusted to the holder.
LEMMA HolderEntrusted ==
  ASSUME Safe, Safe', target'.lease # NoLease
  PROVE  Entrusted(target'.lease.source, target'.lease.token)
<1>1. target' \in TargetState /\ Issued(target')
  BY DEF Safe, Core, Issued
<1>2. \A l \in LiveIn(target') : l.token = target'.lease.token => l = target'.lease
  BY <1>1, LiveTokens
<1> QED BY <1>2 DEF Entrusted, Live, LiveIn

\* What the cache and the last answer tell of acquires and renewals is private.
CachePrivate ==
  \A k \in DOMAIN cache :
    k.op \in {"acquire", "renew"} =>
      /\ cache[k].token \in 0 .. target.version
      /\ \A l \in Live : l.token = cache[k].token => l.source = k.source

\* An entry that was private stays so.
LEMMA StaysPrivate ==
  ASSUME Safe, Safe', [Next]_vars, CachePrivate,
         NEW k \in DOMAIN cache, k.op \in {"acquire", "renew"}
  PROVE  cache[k].token \in 0 .. target'.version /\ Entrusted(k.source, cache[k].token)
<1> DEFINE token == cache[k].token
<1>1. /\ token \in 0 .. target.version /\ target.version \in Nat /\ target'.version \in Nat
      /\ \A l \in Live : l.token = token => l.source = k.source
  BY DEF CachePrivate, Safe, Core, TargetState
<1> HIDE DEF token
<1>2. target'.version >= target.version
  BY VersionsGrow DEF Safe
<1>3. ASSUME NEW l \in Live', l.token = token, NEW a \in Source, NEW r \in AcquireRequest,
             AcquireGranted(a, r)
      PROVE  l.source = k.source
  <2> DEFINE s == Advance(target, now)
  <2>1. PICK seen \in Nat, t \in Nat : Grants(s, a, r, seen, t)
    BY <1>3, Granted DEF Safe
  <2>2. s \in TargetState /\ s.version >= target.version /\ LiveIn(s) \subseteq Live
    BY Settled, AdvanceLive DEF Safe, Core, Live
  <2>3. l = target'.lease \/ l \in Range(target'.suspended)
    BY <1>3 DEF Live, LiveIn
  <2>4. l \in Range(target'.suspended) => l \in Live
    BY <2>1, <2>2, WaitingAfterGrant DEF Safe
  <2> HIDE DEF s
  <2>5. l = target'.lease => l.token = s.version + 1 /\ s.version \in Nat
    BY <2>1, <2>2 DEF Grants, TargetState
  <2>6. l # target'.lease
    BY <1>1, <1>3, <2>2, <2>5
  <2> QED BY <1>1, <1>3, <2>3, <2>4, <2>6
<1>4. ASSUME NEW l \in Live', l.token = token, NEW m \in Live, SameGrant(m, l)
      PROVE  l.source = k.source
  BY <1>1, <1>4 DEF SameGrant
<1>5. Entrusted(k.source, token)
  BY <1>3, <1>4, LiveGrants DEF Entrusted, Safe
<1> QED BY <1>1, <1>2, <1>5 DEF token

\* What a grant or a renewal answers is what it remembers.
LEMMA FreshAnswers ==
  /\ \A a, r : AcquireGranted(a, r) =>
       /\ Remember(ScopeOf(a, "acquire", r), r, reply'.token)
       /\ reply'.token = Advance(target, now).version + 1 /\ reply'.source = a
  /\ \A a, r : RenewGranted(a, r) =>
       /\ Remember(ScopeOf(a, "renew", r), r, reply'.token)
       /\ reply'.token = r.token /\ reply'.source = a
<1>1. ASSUME NEW a, NEW r, AcquireGranted(a, r)
      PROVE  /\ Remember(ScopeOf(a, "acquire", r), r, reply'.token)
             /\ reply'.token = Advance(target, now).version + 1 /\ reply'.source = a
  <2> DEFINE token == Advance(target, now).version + 1
  <2>1. Remember(ScopeOf(a, "acquire", r), r, token) /\ Answer(a, "acquire", "granted", token)
    BY <1>1 DEF AcquireGranted
  <2> HIDE DEF token
  <2>2. reply'.token = token /\ reply'.source = a
    BY <2>1 DEF Answer
  <2> QED BY <2>1, <2>2 DEF token
<1>2. ASSUME NEW a, NEW r, RenewGranted(a, r)
      PROVE  /\ Remember(ScopeOf(a, "renew", r), r, reply'.token)
             /\ reply'.token = r.token /\ reply'.source = a
  <2>1. Remember(ScopeOf(a, "renew", r), r, r.token) /\ Answer(a, "renew", "renewed", r.token)
    BY <1>2 DEF RenewGranted
  <2>2. reply'.token = r.token /\ reply'.source = a
    BY <2>1 DEF Answer
  <2> QED BY <2>1, <2>2
<1> QED BY <1>1, <1>2

\* An acquire or a renewal is answered, and remembered, with its own lease's token.
LEMMA FreshIsPrivate ==
  ASSUME Safe, Safe', NEW a \in Source,
         \/ \E r \in AcquireRequest : AcquireGranted(a, r) \/ AcquireHeld(a, r)
         \/ \E r \in RenewRequest : RenewGranted(a, r)
  PROVE  /\ target'.lease # NoLease
         /\ target'.lease.source = a /\ target'.lease.token = reply'.token
         /\ reply'.source = a
<1> DEFINE s == Advance(target, now)
<1>0. Core /\ target' \in TargetState
  BY DEF Safe, Core
<1>1. ASSUME NEW r \in AcquireRequest, AcquireGranted(a, r)
      PROVE  /\ target'.lease # NoLease
             /\ target'.lease.source = a /\ target'.lease.token = reply'.token
             /\ reply'.source = a
  <2>1. PICK seen \in Nat, t \in Nat : Grants(s, a, r, seen, t)
    BY <1>0, <1>1, Granted
  <2>2. reply'.token = s.version + 1 /\ reply'.source = a
    BY <1>1, FreshAnswers
  <2> HIDE DEF s
  <2>3. target'.lease # NoLease
    BY <2>1, LeaseFields DEF Grants
  <2> QED BY <2>1, <2>2, <2>3 DEF Grants
<1>2. ASSUME NEW r \in AcquireRequest, AcquireHeld(a, r)
      PROVE  /\ target'.lease # NoLease
             /\ target'.lease.source = a /\ target'.lease.token = reply'.token
             /\ reply'.source = a
  BY <1>2 DEF AcquireHeld, Settle, Answer
<1>3. ASSUME NEW r \in RenewRequest, RenewGranted(a, r)
      PROVE  /\ target'.lease # NoLease
             /\ target'.lease.source = a /\ target'.lease.token = reply'.token
             /\ reply'.source = a
  <2>1. /\ target'.lease \in Lease /\ target'.lease.source = a
        /\ target'.lease.token = r.token
    BY <1>0, <1>3, Renewed
  <2>2. reply'.token = r.token /\ reply'.source = a
    BY <1>3, FreshAnswers
  <2> QED BY <2>1, <2>2, LeaseFields
<1> QED BY <1>1, <1>2, <1>3

\* Every step keeps the cache and the answers private.
LEMMA NextPrivate ==
  ASSUME Safe, Safe', [Next]_vars, CacheTyped, CachePrivate, TokenStaysPrivate
  PROVE  CachePrivate' /\ TokenStaysPrivate'
<1> DEFINE Told == reply' # NoReply /\ reply'.op \in {"acquire", "renew"} =>
                     Entrusted(reply'.source, reply'.token)
           Kept == \A k \in DOMAIN cache' : k.op \in {"acquire", "renew"} =>
                     cache'[k].token \in 0 .. target'.version /\ Entrusted(k.source, cache'[k].token)
<1>0. SUFFICES Told /\ Kept
  BY DEF Entrusted, CachePrivate, TokenStaysPrivate, Live
<1>1. /\ target' \in TargetState /\ target'.version \in Nat /\ Issued(target')
      /\ \A l \in Live' : l.token \in 1 .. target'.version
  <2>1. target' \in TargetState /\ Issued(target')
    BY DEF Safe, Core, Issued
  <2> QED BY <2>1, LiveTokens DEF Live, TargetState
<1>2. \A k \in DOMAIN cache : k.op \in {"acquire", "renew"} =>
        cache[k].token \in 0 .. target'.version /\ Entrusted(k.source, cache[k].token)
  BY StaysPrivate
<1>3. UNCHANGED cache => Kept
  BY <1>2
<1>4. \A a : Entrusted(a, 0)
  BY <1>1 DEF Entrusted
<1>5. CASE UNCHANGED vars
  <2>1. Told
    BY <1>5 DEF vars, TokenStaysPrivate, Entrusted, Live
  <2> QED BY <1>3, <1>5, <2>1 DEF vars
<1>6. CASE UNCHANGED cache /\ reply' = NoReply
  BY <1>3, <1>6
<1>7. CASE UNCHANGED cache /\ reply'.token = 0
  BY <1>3, <1>4, <1>7
<1>9. ASSUME NEW a \in Source, NEW op \in Op, NEW r \in Request, Replayed(a, op, r)
      PROVE  Told /\ Kept
  <2>1. /\ ScopeOf(a, op, r) \in DOMAIN cache
        /\ ScopeOf(a, op, r).op = op /\ ScopeOf(a, op, r).source = a
    BY <1>9 DEF Replayed, Remembered, ScopeOf
  <2>2. /\ UNCHANGED <<target, cache>> /\ reply'.op = op /\ reply'.source = a
        /\ reply'.token = cache[ScopeOf(a, op, r)].token
    BY <1>9 DEF Replayed
  <2> QED BY <1>2, <1>3, <2>1, <2>2
<1>10. ASSUME NEW a \in Source, NEW r \in AcquireRequest, AcquireHeld(a, r)
       PROVE  Told /\ Kept
  <2>1. Entrusted(a, reply'.token) /\ reply'.source = a
    BY <1>10, FreshIsPrivate, HolderEntrusted
  <2>2. UNCHANGED cache
    BY <1>10 DEF AcquireHeld
  <2> QED BY <1>3, <2>1, <2>2
<1>11. ASSUME NEW a \in Source, NEW op \in {"acquire", "renew"}, NEW r \in Request,
              \/ op = "acquire" /\ r \in AcquireRequest /\ AcquireGranted(a, r)
              \/ op = "renew" /\ r \in RenewRequest /\ RenewGranted(a, r)
       PROVE  Told /\ Kept
  <2>1. /\ target'.lease # NoLease /\ target'.lease.token = reply'.token
        /\ Entrusted(a, reply'.token) /\ reply'.source = a
    BY <1>11, FreshIsPrivate, HolderEntrusted
  <2>2. reply'.token \in 0 .. target'.version
    BY <1>1, <2>1 DEF Live, LiveIn
  <2>3. Remember(ScopeOf(a, op, r), r, reply'.token)
    BY <1>11, FreshAnswers
  <2>4. ASSUME NEW k \in DOMAIN cache', k.op \in {"acquire", "renew"}
        PROVE  cache'[k].token \in 0 .. target'.version /\ Entrusted(k.source, cache'[k].token)
    <3>1. CASE k = ScopeOf(a, op, r) /\ cache'[k] = [request |-> r, token |-> reply'.token]
      <4>1. k.source = a /\ cache'[k].token = reply'.token
        BY <3>1 DEF ScopeOf
      <4> QED BY <2>1, <2>2, <4>1
    <3>2. CASE k \in DOMAIN cache /\ cache'[k] = cache[k]
      BY <1>2, <2>4, <3>2
    <3> QED BY <2>3, <3>1, <3>2, RememberedEntries
  <2> QED BY <2>1, <2>4
<1>12. ASSUME NEW a \in Source, NEW r \in ReleaseRequest, ReleaseGranted(a, r)
       PROVE  Told /\ Kept
  <2>1. PICK token : Remember(ScopeOf(a, "release", r), r, token) /\ reply'.op = "release"
    BY <1>12 DEF ReleaseGranted, Answer
  <2>2. ScopeOf(a, "release", r).op = "release"
    BY DEF ScopeOf
  <2>3. \A k \in DOMAIN cache' : k.op \in {"acquire", "renew"} =>
          k \in DOMAIN cache /\ cache'[k] = cache[k]
    BY <2>1, <2>2, RememberedEntries
  <2> QED BY <1>2, <2>1, <2>3
<1>13. AcquireRequest \subseteq Request /\ RenewRequest \subseteq Request
  BY DEF Request
<1>14. ASSUME NEW a \in Source, NEW r \in AcquireRequest, AcquireGranted(a, r)
       PROVE  Told /\ Kept
  BY <1>11, <1>13, <1>14
<1>15. ASSUME NEW a \in Source, NEW r \in RenewRequest, RenewGranted(a, r)
       PROVE  Told /\ Kept
  BY <1>11, <1>13, <1>15
<1> HIDE DEF Told, Kept
<1> QED BY AnswerKinds, <1>5, <1>6, <1>7, <1>9, <1>10, <1>12, <1>14, <1>15 DEF Safe

\* No answer tells a source the token of another source's live lease.
THEOREM TokensStayPrivate == Spec => []TokenStaysPrivate
<1> DEFINE IInv == CachePrivate /\ TokenStaysPrivate
<1>1. Init => IInv
  BY DEF Init, CachePrivate, TokenStaysPrivate
<1>2. Safe /\ Safe' /\ TypeOK /\ IInv /\ [Next]_vars => IInv'
  <2> SUFFICES ASSUME Safe, Safe', TypeOK, IInv, [Next]_vars PROVE IInv'
    OBVIOUS
  <2> QED BY NextPrivate DEF TypeOK
<1> QED BY <1>1, <1>2, SafeInvariant, TypeCorrect, PTL DEF Spec

\* Every remembered token was issued, or is none.
CacheIssued == \A k \in DOMAIN cache : cache[k].token \in 0 .. target.version
ReplyIssued == reply # NoReply => reply.token \in 0 .. target.version

\* A release answers, and remembers, the token of the lease it restores, or none.
LEMMA ReleaseAnswers ==
  ASSUME Safe, Safe', NEW a \in Source, NEW r \in ReleaseRequest, ReleaseGranted(a, r)
  PROVE  /\ Remember(ScopeOf(a, "release", r), r, reply'.token)
         /\ reply'.token \in 0 .. target'.version
<1> DEFINE m == RestoreOrIdle(Advance(target, now), now')
           token == IF m.lease = NoLease THEN 0 ELSE m.lease.token
<1>1. Remember(ScopeOf(a, "release", r), r, token) /\ Answer(a, "release", "released", token)
  BY DEF ReleaseGranted
<1>2. target'.lease = m.lease
  BY Released DEF Safe
<1>3. target'.lease # NoLease => target'.lease.token \in 1 .. target'.version
  BY DEF Safe, Issued
<1>4. target'.version \in Nat
  BY DEF Safe, Core, TargetState
<1> HIDE DEF m
<1>5. token \in 0 .. target'.version
  BY <1>2, <1>3, <1>4
<1>6. reply'.token = token
  BY <1>1 DEF Answer
<1> QED BY <1>1, <1>5, <1>6

\* Every step answers and remembers only tokens that were issued.
LEMMA NextIssued ==
  ASSUME Safe, Safe', [Next]_vars, CacheIssued, ReplyIssued
  PROVE  CacheIssued' /\ ReplyIssued'
<1> DEFINE Known(token) == token \in 0 .. target'.version
           Kept == \A k \in DOMAIN cache' : Known(cache'[k].token)
           Told == reply' # NoReply => Known(reply'.token)
<1>0. SUFFICES Told /\ Kept
  BY DEF CacheIssued, ReplyIssued
<1>1. /\ target.version \in Nat /\ target'.version \in Nat
      /\ target'.version >= target.version
  BY VersionsGrow DEF Safe, Core, TargetState
<1>2. \A token \in 0 .. target.version : Known(token)
  BY <1>1
<1>3. \A k \in DOMAIN cache : Known(cache[k].token)
  BY <1>2 DEF CacheIssued
<1>4. UNCHANGED cache => Kept
  BY <1>3
<1>5. CASE UNCHANGED vars
  BY <1>2, <1>4, <1>5 DEF vars, ReplyIssued
<1>6. CASE UNCHANGED cache /\ (reply' = NoReply \/ reply'.token = 0)
  BY <1>1, <1>4, <1>6
<1>7. ASSUME NEW a \in Source, NEW op \in Op, NEW r \in Request, Replayed(a, op, r)
      PROVE  Told /\ Kept
  BY <1>3, <1>4, <1>7 DEF Replayed, Remembered
<1>8. target'.lease # NoLease => Known(target'.lease.token)
  BY <1>1 DEF Safe, Issued
<1>9. ASSUME NEW a \in Source, NEW r \in AcquireRequest, AcquireHeld(a, r)
      PROVE  Told /\ Kept
  <2>1. target'.lease # NoLease /\ target'.lease.token = reply'.token
    BY <1>9, FreshIsPrivate
  <2>2. UNCHANGED cache
    BY <1>9 DEF AcquireHeld
  <2> QED BY <1>4, <1>8, <2>1, <2>2
<1>10. ASSUME NEW scope, NEW r, Remember(scope, r, reply'.token), Known(reply'.token)
       PROVE  Told /\ Kept
  <2>1. ASSUME NEW k \in DOMAIN cache' PROVE Known(cache'[k].token)
    <3>1. CASE cache'[k] = [request |-> r, token |-> reply'.token]
      BY <1>10, <3>1
    <3>2. CASE k \in DOMAIN cache /\ cache'[k] = cache[k]
      BY <1>3, <3>2
    <3> QED BY <1>10, <3>1, <3>2, RememberedEntries
  <2> QED BY <1>10, <2>1
<1>11. ASSUME NEW a \in Source, NEW r \in AcquireRequest, AcquireGranted(a, r)
       PROVE  Told /\ Kept
  BY <1>8, <1>10, <1>11, FreshIsPrivate, FreshAnswers
<1>12. ASSUME NEW a \in Source, NEW r \in RenewRequest, RenewGranted(a, r)
       PROVE  Told /\ Kept
  BY <1>8, <1>10, <1>12, FreshIsPrivate, FreshAnswers
<1>13. ASSUME NEW a \in Source, NEW r \in ReleaseRequest, ReleaseGranted(a, r)
       PROVE  Told /\ Kept
  BY <1>10, <1>13, ReleaseAnswers
<1> HIDE DEF Told, Kept
<1> QED BY AnswerKinds, <1>5, <1>6, <1>7, <1>9, <1>11, <1>12, <1>13 DEF Safe

\* No two live leases share a token, and every live token, as every token that an
\* answer gives, fresh or remembered, was issued by a commit of this target.
THEOREM TokensAreIssuedOnce == Spec => []TokensIssuedOnce
<1>1. ASSUME Safe, ReplyIssued PROVE TokensIssuedOnce
  <2>1. /\ Len(target.suspended) \in Nat
        /\ DOMAIN target.suspended = 1 .. Len(target.suspended)
        /\ target.version \in Nat
        /\ \A i \in DOMAIN target.suspended : target.suspended[i].token \in Nat
    <3>1. target \in TargetState
      BY <1>1 DEF Safe, Core
    <3> QED BY <3>1, TargetParts, LeaseFields
  <2>2. \A l \in Live : l.token \in 1 .. target.version
    BY <1>1 DEF Safe, Issued, Live, LiveIn, Range
  <2>3. \A i, j \in DOMAIN target.suspended :
          target.suspended[i].token = target.suspended[j].token => i = j
    <3> SUFFICES ASSUME NEW i \in DOMAIN target.suspended, NEW j \in DOMAIN target.suspended,
                        target.suspended[i].token = target.suspended[j].token
                 PROVE  i = j
      OBVIOUS
    <3>1. i \in Nat /\ j \in Nat /\ target.suspended[i].token \in Nat
      BY <2>1
    <3>2. ~(i < j) /\ ~(j < i)
      BY <1>1, <3>1 DEF Safe, Issued
    <3> QED BY <3>1, <3>2
  <2>4. target.lease # NoLease =>
          \A i \in DOMAIN target.suspended : target.suspended[i].token < target.lease.token
    BY <1>1 DEF Safe, Issued
  <2> QED BY <1>1, <2>2, <2>3, <2>4 DEF TokensIssuedOnce, ReplyIssued
<1>2. Init => CacheIssued /\ ReplyIssued
  BY DEF Init, CacheIssued, ReplyIssued
<1>3. Safe /\ Safe' /\ CacheIssued /\ ReplyIssued /\ [Next]_vars
        => CacheIssued' /\ ReplyIssued'
  BY NextIssued
<1> QED BY <1>1, <1>2, <1>3, SafeInvariant, PTL DEF Spec

\* A source that outranks the holder has no live lease of its own.
LEMMA OutrankingIsNew ==
  ASSUME NEW s \in TargetState, Ordered(s), NEW a \in Source,
         s.lease # NoLease => Outranks(a, s.lease), NEW l \in LiveIn(s)
  PROVE  l.source # a
<1>1. /\ s.lease \in Lease \cup {NoLease}
      /\ \A i \in DOMAIN s.suspended : s.suspended[i] \in Lease
  BY TargetParts
<1>2. s.lease # NoLease /\ s.lease \in Lease /\ Outranks(a, s.lease)
  BY <1>1 DEF LiveIn, Range, Ordered
<1>3. Priority(s.lease) \in Int /\ Policy[a].priority > Priority(s.lease)
  BY <1>2, LeaseFields DEF Outranks
<1>4. Policy[a].priority \in Int
  BY ConstantsAssumption DEF PolicyType
<1>5. CASE l = s.lease
  <2>1. l.source = a => Priority(l) = Policy[a].priority
    BY DEF Priority
  <2> QED BY <1>3, <1>5, <2>1
<1>6. ASSUME NEW i \in DOMAIN s.suspended, l = s.suspended[i] PROVE l.source # a
  <2>1. Priority(l) < Priority(s.lease) /\ Priority(l) \in Int
    BY <1>1, <1>2, <1>6, LeaseFields DEF Ordered
  <2>2. l.source = a => Priority(l) = Policy[a].priority
    BY DEF Priority
  <2> QED BY <1>3, <1>4, <2>1, <2>2
<1> QED BY <1>5, <1>6 DEF LiveIn, Range

\* Every step keeps the cached grant of each live lease its own.
LEMMA NextFindsLiveLease ==
  ASSUME Core, RetryFindsLiveLease, [Next]_vars
  PROVE  RetryFindsLiveLease'
<1> DEFINE K(l) == ScopeOf(l.source, "acquire", l.request)
           Found(l) == K(l) \in DOMAIN cache' =>
                         cache'[K(l)] = [request |-> l.request, token |-> l.token]
<1>0. SUFFICES ASSUME NEW l \in Live' PROVE Found(l)
  BY DEF RetryFindsLiveLease, Remembered, ScopeOf
<1>1. \A m \in Live : K(m) \in DOMAIN cache =>
        cache[K(m)] = [request |-> m.request, token |-> m.token]
  BY DEF RetryFindsLiveLease, Remembered
<1>2. K(l).op = "acquire" /\ K(l).source = l.source
  BY DEF ScopeOf
<1>3. ASSUME NEW m \in Live, SameGrant(m, l),
             K(l) \in DOMAIN cache' => K(l) \in DOMAIN cache /\ cache'[K(l)] = cache[K(l)]
      PROVE  Found(l)
  <2>1. K(m) = K(l) /\ m.request = l.request /\ m.token = l.token
    BY <1>3 DEF SameGrant
  <2> HIDE DEF K
  <2> QED BY <1>1, <1>3, <2>1
<1>4. ASSUME NEW a \in Source, NEW r \in AcquireRequest, AcquireGranted(a, r)
      PROVE  Found(l)
  <2> DEFINE s == Advance(target, now)
  <2>1. PICK seen \in Nat, t \in Nat : Grants(s, a, r, seen, t)
    BY <1>4, Granted
  <2>2. s \in TargetState /\ Ordered(s) /\ LiveIn(s) \subseteq Live
    BY Settled, AdvanceLive DEF Core, Live
  <2>3. Remember(ScopeOf(a, "acquire", r), r, reply'.token) /\ reply'.token = s.version + 1
    BY <1>4, FreshAnswers
  <2>4. l = target'.lease \/ l \in LiveIn(s)
    BY <1>0, <2>1, WaitingAfterGrant DEF Live, LiveIn
  <2> HIDE DEF s
  <2>5. CASE l = target'.lease
    <3>1. l.request = r /\ l.source = a /\ l.token = reply'.token
      BY <2>1, <2>3, <2>5 DEF Grants
    <3>2. K(l) = ScopeOf(a, "acquire", r)
      BY <3>1
    <3> HIDE DEF K
    <3> QED BY <2>3, <3>1, <3>2, RememberedEntries
  <2>6. CASE l \in LiveIn(s)
    <3>1. l.source # a
      BY <2>1, <2>2, <2>6, OutrankingIsNew DEF Grants
    <3>2. K(l) # ScopeOf(a, "acquire", r)
      BY <1>2, <3>1 DEF ScopeOf
    <3>3. K(l) \in DOMAIN cache' => K(l) \in DOMAIN cache /\ cache'[K(l)] = cache[K(l)]
      BY <2>3, <3>2, RememberedEntries
    <3>4. l \in Live /\ SameGrant(l, l)
      BY <2>2, <2>6 DEF SameGrant
    <3> HIDE DEF K, Found
    <3> QED BY <1>3, <3>3, <3>4
  <2> QED BY <2>4, <2>5, <2>6
<1>5. CASE ~(\E a \in Source, r \in AcquireRequest : AcquireGranted(a, r))
  <2>1. PICK m \in Live : SameGrant(m, l)
    BY <1>0, <1>5, LiveGrants
  <2>2. K(l) \in DOMAIN cache' => K(l) \in DOMAIN cache /\ cache'[K(l)] = cache[K(l)]
    <3>1. CASE UNCHANGED cache
      BY <3>1
    <3>2. ASSUME NEW a \in Source, NEW r \in RenewRequest, RenewGranted(a, r)
          PROVE  K(l) \in DOMAIN cache' => K(l) \in DOMAIN cache /\ cache'[K(l)] = cache[K(l)]
      <4>1. ScopeOf(a, "renew", r) # K(l)
        BY <1>2 DEF ScopeOf
      <4>2. Remember(ScopeOf(a, "renew", r), r, reply'.token)
        BY <3>2, FreshAnswers
      <4> QED BY <4>1, <4>2, RememberedEntries
    <3>3. ASSUME NEW a \in Source, NEW r \in ReleaseRequest, ReleaseGranted(a, r)
          PROVE  K(l) \in DOMAIN cache' => K(l) \in DOMAIN cache /\ cache'[K(l)] = cache[K(l)]
      <4>1. ScopeOf(a, "release", r) # K(l)
        BY <1>2 DEF ScopeOf
      <4>2. PICK token : Remember(ScopeOf(a, "release", r), r, token)
        BY <3>3 DEF ReleaseGranted
      <4> QED BY <4>1, <4>2, RememberedEntries
    <3>4. ASSUME NEW a \in Source, NEW r \in AcquireRequest, AcquireHeld(a, r)
          PROVE  UNCHANGED cache
      BY <3>4 DEF AcquireHeld
    <3>5. ASSUME NEW a \in Source, NEW op \in Op, NEW r \in Request, Replayed(a, op, r)
          PROVE  UNCHANGED cache
      BY <3>5 DEF Replayed
    <3> HIDE DEF K
    <3> QED BY <1>5, AnswerKinds, <3>1, <3>2, <3>3, <3>4, <3>5 DEF vars
  <2> HIDE DEF K, Found
  <2> QED BY <1>3, <2>1, <2>2
<1> QED BY <1>4, <1>5

\* While the grant of a live lease is cached, a retry of its acquire is answered
\* with the lease's own token.
THEOREM RetriesFindLiveLeases == Spec => []RetryFindsLiveLease
<1>1. Init => RetryFindsLiveLease
  BY DEF Init, RetryFindsLiveLease, Live, LiveIn, Range
<1>2. Core /\ RetryFindsLiveLease /\ [Next]_vars => RetryFindsLiveLease'
  BY NextFindsLiveLease
<1> QED BY <1>1, <1>2, CoreInvariant, PTL DEF Spec
=============================================================================
