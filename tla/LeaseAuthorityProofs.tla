------------------------ MODULE LeaseAuthorityProofs ------------------------
(***************************************************************************)
(* Theorems about one target of the authority, for any adapters, policies  *)
(* and bounds.                                                             *)
(***************************************************************************)
EXTENDS LeaseAuthority, WellFoundedInduction, TLAPS

-----------------------------------------------------------------------------
(* The last suspended lease that may resume *)

\* A nonempty set of positions of a sequence has a last one.
LEMMA LastPosition ==
  ASSUME NEW n \in Nat, NEW S \in SUBSET (1 .. n), S # {}
  PROVE  Max(S) \in S /\ \A j \in S : j <= Max(S)
<1> DEFINE D == {k \in Nat : \E i \in S : k = n - i}
<1>1. D \subseteq Nat /\ D # {}
  <2>1. PICK i \in S : TRUE
    OBVIOUS
  <2>2. i \in Nat /\ n - i \in Nat
    BY <2>1, SMT
  <2>3. n - i \in D
    BY <2>1, <2>2
  <2> QED BY <2>3
<1>2. PICK k \in D : \A y \in D : ~(<<y, k>> \in OpToRel(<, Nat))
  <2>1. IsWellFoundedOn(OpToRel(<, Nat), Nat)
    BY NatLessThanWellFounded
  <2> HIDE DEF D
  <2> QED BY <1>1, <2>1, WFMin
<1>3. \A y \in D : ~(y < k)
  BY <1>1, <1>2 DEF OpToRel
<1>4. \E i \in S : \A j \in S : j <= i
  BY <1>1, <1>3, SMT
<1> QED BY <1>4 DEF Max

\* What the handlers read of a lease.
LEMMA LeaseFields ==
  ASSUME NEW l \in Lease
  PROVE  /\ l # NoLease
         /\ l.source \in Source /\ Priority(l) \in Int /\ Resumes(l) \in BOOLEAN
         /\ l.token \in Nat /\ l.deadline \in Nat
         /\ l.request \in AcquireRequest /\ l.request.route \in Route
<1> USE ConstantsAssumption
<1>1. l # NoLease /\ l.source \in Source /\ l.token \in Nat /\ l.deadline \in Nat
  BY DEF Lease
<1>2. l.request \in AcquireRequest /\ l.request.route \in Route
  BY DEF Lease, AcquireRequest
<1>3. Policy[l.source] \in PolicyType
  BY <1>1
<1>4. Priority(l) \in Int /\ Resumes(l) \in BOOLEAN
  BY <1>3 DEF Priority, Resumes, PolicyType
<1> QED BY <1>1, <1>2, <1>4

\* Restoring keeps the order, follows the new holder, and touches nothing else;
\* the holder it leaves, if any, was waiting and may resume.
LEMMA RestoreOrIdleKeeps ==
  ASSUME NEW s \in TargetState, NEW t \in Nat, Ordered(s)
  PROVE  LET r == RestoreOrIdle(s, t) IN
         /\ r \in TargetState /\ Ordered(r) /\ FollowsHolder(r)
         /\ r.version = s.version /\ r.online = s.online
         /\ r.onlineSince = s.onlineSince /\ r.offlineSince = s.offlineSince
<1> USE ConstantsAssumption
<1> DEFINE r == RestoreOrIdle(s, t)
<1>1. CASE Resumable(s, t) = {}
  <2>1. r = [s EXCEPT !.lease = NoLease, !.suspended = <<>>, !.desired = IdleRoute]
    BY <1>1 DEF RestoreOrIdle
  <2>2. << >> \in Seq(Lease)
    OBVIOUS
  <2>3. r \in TargetState
    <3> HIDE DEF r
    <3> QED BY <2>1, <2>2 DEF TargetState
  <2> QED BY <2>1, <2>3 DEF TargetState, Ordered, FollowsHolder
<1>2. CASE Resumable(s, t) # {}
  <2> DEFINE i == Max(Resumable(s, t))
  <2>1. s.suspended \in Seq(Lease) /\ Len(s.suspended) \in Nat
    BY DEF TargetState
  <2>2. Resumable(s, t) \in SUBSET (1 .. Len(s.suspended))
    BY <2>1 DEF Resumable
  <2>3. i \in Resumable(s, t)
    BY <1>2, <2>1, <2>2, LastPosition
  <2>4. i \in 1 .. Len(s.suspended)
    BY <2>2, <2>3
  <2> HIDE DEF i
  <2>5. r = [s EXCEPT !.lease = s.suspended[i], !.suspended = SubSeq(s.suspended, 1, i - 1),
                      !.desired = s.suspended[i].request.route]
    BY <1>2 DEF RestoreOrIdle, i
  <2>6. s.suspended[i] \in Lease
    BY <2>1, <2>4
  <2>7. SubSeq(s.suspended, 1, i - 1) \in Seq(Lease)
    BY <2>1, <2>4
  <2>8. r \in TargetState
    BY <2>5, <2>6, <2>7, LeaseFields DEF TargetState
  <2>9. FollowsHolder(r)
    BY <2>5, <2>6, LeaseFields DEF FollowsHolder, TargetState
  <2>10. /\ r.lease = s.suspended[i] /\ r.lease # NoLease
         /\ DOMAIN r.suspended = 1 .. (i - 1)
         /\ \A k \in 1 .. (i - 1) : r.suspended[k] = s.suspended[k]
    <3>1. r.lease = s.suspended[i] /\ r.suspended = SubSeq(s.suspended, 1, i - 1)
      BY <2>5 DEF TargetState
    <3>2. /\ DOMAIN SubSeq(s.suspended, 1, i - 1) = 1 .. (i - 1)
          /\ \A k \in 1 .. (i - 1) : SubSeq(s.suspended, 1, i - 1)[k] = s.suspended[k]
      BY <2>1, <2>4
    <3> HIDE DEF r
    <3> QED BY <2>6, <3>1, <3>2, LeaseFields
  <2>11. Ordered(r)
    BY <2>1, <2>4, <2>10, SMTT(20) DEF Ordered
  <2> QED BY <2>5, <2>8, <2>9, <2>11 DEF TargetState
<1> QED BY <1>1, <1>2

-----------------------------------------------------------------------------
(* What each handler does to the target *)

\* Committing a due expiry keeps the order and follows the holder it leaves.
LEMMA AdvanceKeeps ==
  ASSUME NEW s \in TargetState, NEW t \in Nat, Ordered(s), FollowsHolder(s)
  PROVE  LET r == Advance(s, t) IN
         /\ r \in TargetState /\ Ordered(r) /\ FollowsHolder(r)
         /\ r.version \in {s.version, s.version + 1}
         /\ r.online = s.online /\ r.onlineSince = s.onlineSince
<1>1. CASE ~Expired(s, t)
  BY <1>1 DEF Advance, TargetState
<1>2. CASE Expired(s, t)
  <2> DEFINE m == RestoreOrIdle(s, t)
             r == Advance(s, t)
  <2>1. /\ m \in TargetState /\ Ordered(m) /\ FollowsHolder(m) /\ m.version = s.version
        /\ m.online = s.online /\ m.onlineSince = s.onlineSince
    BY RestoreOrIdleKeeps
  <2>2. r = [m EXCEPT !.version = @ + 1]
    BY <1>2 DEF Advance
  <2> HIDE DEF m, r
  <2>3. r \in TargetState /\ r.version = m.version + 1
    BY <2>1, <2>2 DEF TargetState
  <2>4. /\ r.lease = m.lease /\ r.suspended = m.suspended /\ r.desired = m.desired
        /\ r.online = m.online /\ r.onlineSince = m.onlineSince
    BY <2>1, <2>2 DEF TargetState
  <2>5. Ordered(r) /\ FollowsHolder(r)
    BY <2>1, <2>4 DEF Ordered, FollowsHolder
  <2> QED BY <2>1, <2>3, <2>4, <2>5 DEF r
<1> QED BY <1>1, <1>2

\* A grant that outranks the holder goes on top of the order.
LEMMA GrantKeeps ==
  ASSUME NEW s \in TargetState, Ordered(s), NEW l \in Lease, NEW v \in Nat,
         NEW waiting \in {s.suspended, Append(s.suspended, s.lease)},
         waiting # s.suspended => s.lease # NoLease,
         s.lease # NoLease => Priority(s.lease) < Priority(l)
  PROVE  LET r == [s EXCEPT !.lease = l, !.suspended = waiting,
                            !.desired = l.request.route, !.version = v]
         IN  r \in TargetState /\ Ordered(r) /\ FollowsHolder(r)
<1> DEFINE r == [s EXCEPT !.lease = l, !.suspended = waiting,
                          !.desired = l.request.route, !.version = v]
<1>1. s.suspended \in Seq(Lease) /\ s.lease \in Lease \cup {NoLease}
  BY DEF TargetState
<1>2. waiting \in Seq(Lease)
  BY <1>1
<1>3. r \in TargetState
  BY <1>2, LeaseFields DEF TargetState
<1>4. r.lease = l /\ r.suspended = waiting /\ r.desired = l.request.route
  BY DEF TargetState
<1> HIDE DEF r
<1>5. FollowsHolder(r)
  BY <1>4, LeaseFields DEF FollowsHolder
<1>6. \A i \in DOMAIN s.suspended : s.suspended[i] \in Lease /\ Priority(s.suspended[i]) \in Int
  BY <1>1, LeaseFields
<1>7. CASE waiting = s.suspended
  <2>1. \A i \in DOMAIN waiting : Priority(waiting[i]) < Priority(l)
    <3>1. CASE s.lease = NoLease
      BY <1>7, <3>1 DEF Ordered
    <3>2. CASE s.lease # NoLease
      <4>1. s.lease \in Lease
        BY <1>1, <3>2
      <4>2. Priority(s.lease) \in Int /\ Priority(l) \in Int
        BY <4>1, LeaseFields
      <4> QED BY <1>6, <1>7, <3>2, <4>2 DEF Ordered
    <3> QED BY <3>1, <3>2
  <2> QED BY <1>3, <1>4, <1>5, <1>7, <2>1, LeaseFields DEF Ordered, r
<1>8. CASE waiting # s.suspended
  <2>1. waiting = Append(s.suspended, s.lease) /\ s.lease # NoLease /\ s.lease \in Lease
    BY <1>1, <1>8
  <2>2. Priority(s.lease) \in Int /\ Priority(l) \in Int
    BY <2>1, LeaseFields
  <2> DEFINE n == Len(s.suspended)
  <2>3. /\ n \in Nat /\ DOMAIN s.suspended = 1 .. n /\ DOMAIN waiting = 1 .. (n + 1)
        /\ \A i \in 1 .. n : waiting[i] = s.suspended[i]
        /\ waiting[n + 1] = s.lease
    BY <1>1, <2>1
  <2>4. \A i \in 1 .. n : Priority(waiting[i]) < Priority(s.lease)
    BY <2>1, <2>3 DEF Ordered
  <2>5. \A i \in 1 .. n : Priority(waiting[i]) \in Int
    BY <1>6, <2>3
  <2> HIDE DEF n
  <2>6. \A i \in DOMAIN waiting : Priority(waiting[i]) < Priority(l)
    <3> SUFFICES ASSUME NEW i \in 1 .. (n + 1) PROVE Priority(waiting[i]) < Priority(l)
      BY <2>3
    <3>1. CASE i \in 1 .. n
      <4>1. Priority(waiting[i]) < Priority(s.lease) /\ Priority(waiting[i]) \in Int
        BY <2>4, <2>5, <3>1
      <4>2. Priority(s.lease) < Priority(l)
        BY <2>1
      <4> QED BY <2>2, <4>1, <4>2
    <3>2. CASE i = n + 1
      BY <2>1, <2>2, <2>3, <3>2
    <3> QED BY <2>3, <3>1, <3>2
  <2>7. \A i, j \in DOMAIN waiting : i < j => Priority(waiting[i]) < Priority(waiting[j])
    <3> SUFFICES ASSUME NEW i \in 1 .. (n + 1), NEW j \in 1 .. (n + 1), i < j
                 PROVE  Priority(waiting[i]) < Priority(waiting[j])
      BY <2>3
    <3>1. CASE j \in 1 .. n
      BY <2>3, <3>1 DEF Ordered
    <3>2. CASE j = n + 1
      BY <2>3, <2>4, <3>2
    <3> QED BY <2>3, <3>1, <3>2
  <2> QED BY <1>3, <1>4, <1>5, <2>6, <2>7, LeaseFields DEF Ordered, r
<1> QED BY <1>7, <1>8

\* The target has its type, its order and its route.
Core ==
  /\ now \in Nat
  /\ ready \in BOOLEAN
  /\ target \in TargetState
  /\ Ordered(target)
  /\ FollowsHolder(target)

\* A renewal moves a deadline and a version, nothing the order depends on.
LEMMA RenewalKeeps ==
  ASSUME NEW s \in TargetState, Ordered(s), FollowsHolder(s), s.lease # NoLease, NEW d \in Nat
  PROVE  LET r == [s EXCEPT !.lease.deadline = d, !.version = @ + 1] IN
         /\ r \in TargetState /\ Ordered(r) /\ FollowsHolder(r)
         /\ r.version = s.version + 1 /\ r.desired = s.desired
         /\ r.suspended = s.suspended /\ r.lease = [s.lease EXCEPT !.deadline = d]
         /\ r.lease.source = s.lease.source /\ r.lease.request = s.lease.request
<1> DEFINE l == [s.lease EXCEPT !.deadline = d]
           r == [s EXCEPT !.lease.deadline = d, !.version = @ + 1]
<1>1. s.lease \in Lease
  BY DEF TargetState
<1>2. l \in Lease /\ l.source = s.lease.source /\ l.request = s.lease.request
  BY <1>1 DEF Lease
<1>3. r \in TargetState
  <2> DEFINE v == s.version + 1
  <2>1. v \in Nat
    BY DEF TargetState
  <2>2. r = [s EXCEPT !.lease = l, !.version = v]
    OBVIOUS
  <2> HIDE DEF l, r, v
  <2> QED BY <1>2, <2>1, <2>2 DEF TargetState
<1>4. /\ r.lease = l /\ r.suspended = s.suspended /\ r.desired = s.desired
      /\ r.version = s.version + 1
  BY DEF TargetState
<1>5. l # NoLease /\ Priority(l) = Priority(s.lease)
  BY <1>2, LeaseFields DEF Priority
<1> HIDE DEF l
<1>6. Ordered(r) /\ FollowsHolder(r)
  <2> HIDE DEF r
  <2> QED BY <1>2, <1>4, <1>5 DEF Ordered, FollowsHolder
<1> QED BY <1>2, <1>3, <1>4, <1>6 DEF l

\* Losing the endpoint leaves nothing to order; gaining it touches no lease.
LEMMA PresenceKeeps ==
  ASSUME Core, NEW online \in BOOLEAN, Presence(online)
  PROVE  target' \in TargetState /\ Ordered(target') /\ FollowsHolder(target')
         /\ target'.version = target.version + 1
<1> DEFINE v == target.version + 1
<1>1. /\ now \in Nat /\ IdleRoute \in Route /\ << >> \in Seq(Lease)
      /\ target \in TargetState /\ Ordered(target) /\ FollowsHolder(target)
  BY ConstantsAssumption DEF Core
<1>v. v \in Nat
  BY <1>1 DEF TargetState
<1>2. CASE online
  <2>1. target' = [target EXCEPT !.online = TRUE, !.onlineSince = now,
                                 !.offlineSince = NoTime, !.version = v]
    BY <1>2 DEF Presence
  <2>2. target' \in TargetState
    <3> HIDE DEF v
    <3> QED BY <1>1, <1>v, <2>1 DEF TargetState
  <2>3. /\ target'.lease = target.lease /\ target'.suspended = target.suspended
        /\ target'.desired = target.desired /\ target'.version = target.version + 1
    BY <1>1, <2>1 DEF TargetState
  <2> QED BY <1>1, <2>2, <2>3 DEF Ordered, FollowsHolder
<1>3. CASE ~online /\ target.lease = NoLease
  <2>1. target' = [target EXCEPT !.online = FALSE, !.onlineSince = NoTime,
                                 !.offlineSince = now, !.version = v]
    BY <1>3 DEF Presence
  <2>2. target' \in TargetState
    <3> HIDE DEF v
    <3> QED BY <1>1, <1>v, <2>1 DEF TargetState
  <2>3. /\ target'.lease = target.lease /\ target'.suspended = target.suspended
        /\ target'.desired = target.desired /\ target'.version = target.version + 1
    BY <1>1, <2>1 DEF TargetState
  <2> QED BY <1>1, <2>2, <2>3 DEF Ordered, FollowsHolder
<1>4. CASE ~online /\ target.lease # NoLease
  <2> DEFINE gone == [target EXCEPT !.online = FALSE, !.onlineSince = NoTime,
                                    !.offlineSince = now, !.version = v]
  <2>1. target' = [gone EXCEPT !.lease = NoLease, !.suspended = <<>>, !.desired = IdleRoute]
    BY <1>4 DEF Presence
  <2>2. gone \in TargetState /\ gone.version = v
    <3> HIDE DEF v
    <3> QED BY <1>1, <1>v DEF TargetState
  <2> HIDE DEF gone
  <2>3. target' \in TargetState
    BY <1>1, <2>1, <2>2 DEF TargetState
  <2>4. /\ target'.lease = NoLease /\ target'.suspended = <<>>
        /\ target'.desired = IdleRoute /\ target'.version = target.version + 1
    BY <2>1, <2>2 DEF TargetState
  <2> QED BY <2>3, <2>4 DEF Ordered, FollowsHolder
<1> QED BY <1>2, <1>3, <1>4

\* Every step is one of a few kinds, as far as target, clock and readiness go.
LEMMA StepKinds ==
  ASSUME Core, [Next]_vars
  PROVE  \/ /\ UNCHANGED target
            /\ UNCHANGED ready \/ ready' \in BOOLEAN
            /\ now' = now \/ now' = now + 1
         \/ Settle /\ now' = now
         \/ \E a \in Source, r \in AcquireRequest :
              AcquireGranted(a, r) /\ TtlAllowed(a, r) /\ r.route \in Policy[a].routes
         \/ \E a \in Source, r \in RenewRequest : RenewGranted(a, r)
         \/ \E a \in Source, r \in ReleaseRequest : ReleaseGranted(a, r)
         \/ \E online \in BOOLEAN : Presence(online) /\ now' = now
         \/ StoreObservation /\ now' = now
<1>1. ASSUME NEW a \in Source, NEW r \in AcquireRequest, Acquire(a, r)
      PROVE  \/ UNCHANGED <<now, target, ready>>
             \/ Settle /\ now' = now
             \/ AcquireGranted(a, r) /\ TtlAllowed(a, r) /\ r.route \in Policy[a].routes
  BY <1>1 DEF Acquire, Reject, Recall, AcquireRefused, AcquireHeld, Refuse
<1>2. ASSUME NEW a \in Source, NEW r \in RenewRequest, Renew(a, r)
      PROVE  \/ UNCHANGED <<now, target, ready>>
             \/ Settle /\ now' = now
             \/ RenewGranted(a, r)
  BY <1>2 DEF Renew, Reject, Recall, MutationRefused, Refuse
<1>3. ASSUME NEW a \in Source, NEW r \in ReleaseRequest, Release(a, r)
      PROVE  \/ UNCHANGED <<now, target, ready>>
             \/ Settle /\ now' = now
             \/ ReleaseGranted(a, r)
  BY <1>3 DEF Release, Recall, MutationRefused, Refuse
<1>4. ASSUME NEW online \in BOOLEAN, Presence(online) PROVE now' = now
  BY <1>4 DEF Presence
<1>5. Snapshot => Settle /\ now' = now
  BY DEF Snapshot
<1>6. StoreObservation => now' = now
  BY DEF StoreObservation
<1>7. StoreVerdict => UNCHANGED <<now, target>> /\ ready' \in BOOLEAN
  BY DEF StoreVerdict
<1>8. Tick => UNCHANGED <<target, ready>> /\ now' = now + 1
  BY DEF Tick
<1>9. UNCHANGED vars => UNCHANGED <<now, target, ready>>
  BY DEF vars
<1> QED BY <1>1, <1>2, <1>3, <1>4, <1>5, <1>6, <1>7, <1>8, <1>9 DEF Next

-----------------------------------------------------------------------------
(* The invariant, and the target as a versioned intent *)

\* What a step that may change the target does to it and to readiness.
StepEffect ==
  /\ target' \in TargetState /\ Ordered(target') /\ FollowsHolder(target')
  /\ ready' \in BOOLEAN
  /\ \/ target' = target /\ ready' = ready
     \/ target'.version > target.version /\ ready' = FALSE
     \/ target'.version > target.version /\ target'.desired = target.desired /\ ready' = ready

\* A handler that only advances commits at most one expiry, and then clears readiness.
LEMMA SettleEffect == ASSUME Core, Settle PROVE StepEffect
<1> USE DEF Core
<1>1. CASE Expired(target, now)
  <2>1. ready' = FALSE /\ target' = Advance(target, now)
    BY <1>1 DEF Settle
  <2>2. target'.version = target.version + 1
    <3>1. RestoreOrIdle(target, now) \in TargetState
          /\ RestoreOrIdle(target, now).version = target.version
      BY RestoreOrIdleKeeps
    <3>2. target' = [RestoreOrIdle(target, now) EXCEPT !.version = @ + 1]
      BY <1>1, <2>1 DEF Advance
    <3> QED BY <3>1, <3>2 DEF TargetState
  <2>3. target.version \in Nat
    BY DEF TargetState
  <2>4. target' \in TargetState /\ Ordered(target') /\ FollowsHolder(target')
    BY <2>1, AdvanceKeeps
  <2>5. target'.version > target.version /\ ready' = FALSE
    BY <2>1, <2>2, <2>3
  <2> QED BY <2>4, <2>5 DEF StepEffect
<1>2. CASE ~Expired(target, now)
  <2>1. target' = target
    BY <1>2 DEF Settle, Advance
  <2>2. ready' = ready
    BY <1>2 DEF Settle
  <2> QED BY <2>1, <2>2 DEF StepEffect
<1> QED BY <1>1, <1>2

\* Whatever instant a handler reads is an instant.
LEMMA ReadableIsNat == ASSUME now \in Nat, NEW t \in Readable PROVE t \in Nat
BY ConstantsAssumption DEF Readable

\* A granted acquire moves the version, clears readiness and keeps the core facts.
LEMMA AcquireEffect ==
  ASSUME Core, NEW a \in Source, NEW r \in AcquireRequest, AcquireGranted(a, r)
  PROVE  StepEffect /\ now' \in Nat
<1> USE DEF Core
<1> DEFINE s == Advance(target, now)
           token == s.version + 1
<1>1. PICK seen \in Readable, t \in Readable :
        LET lease == [request |-> r, source |-> a, token |-> token, deadline |-> t + r.ttl]
            waiting == IF s.lease # NoLease /\ s.lease.deadline > seen
                       THEN Append(s.suspended, s.lease) ELSE s.suspended
        IN  /\ s.lease # NoLease => Outranks(a, s.lease)
            /\ target' = [s EXCEPT !.lease = lease, !.suspended = waiting,
                                   !.desired = lease.request.route, !.version = token]
            /\ ready' = FALSE
            /\ now' = t
  BY DEF AcquireGranted
<1> DEFINE lease == [request |-> r, source |-> a, token |-> token, deadline |-> t + r.ttl]
           waiting == IF s.lease # NoLease /\ s.lease.deadline > seen
                      THEN Append(s.suspended, s.lease) ELSE s.suspended
<1>2. t \in Nat
  BY ReadableIsNat
<1>3. /\ s \in TargetState /\ Ordered(s) /\ s.version \in Nat
      /\ s.version >= target.version /\ target.version \in Nat
  <2>1. s \in TargetState /\ Ordered(s) /\ s.version \in {target.version, target.version + 1}
    BY AdvanceKeeps
  <2>2. target.version \in Nat
    BY DEF TargetState
  <2> QED BY <2>1, <2>2
<1>4. lease \in Lease
  <2>1. r.ttl \in Nat
    BY ConstantsAssumption DEF AcquireRequest
  <2>2. token \in Nat /\ t + r.ttl \in Nat
    BY <1>2, <1>3, <2>1
  <2> HIDE DEF token, s
  <2> QED BY <2>2 DEF Lease
<1>5. s.lease # NoLease => Priority(s.lease) < Priority(lease)
  <2> SUFFICES ASSUME s.lease # NoLease PROVE Priority(s.lease) < Priority(lease)
    OBVIOUS
  <2>1. s.lease \in Lease
    BY <1>3 DEF TargetState
  <2>2. Outranks(a, s.lease)
    BY <1>1
  <2>3. Priority(lease) = Policy[a].priority
    BY DEF Priority
  <2>4. Priority(s.lease) \in Int /\ Priority(lease) \in Int
    BY <1>4, <2>1, LeaseFields
  <2> QED BY <2>2, <2>3, <2>4 DEF Outranks
<1>6. target' = [s EXCEPT !.lease = lease, !.suspended = waiting,
                          !.desired = lease.request.route, !.version = token]
      /\ ready' = FALSE /\ now' = t
  BY <1>1
<1>7. /\ waiting \in {s.suspended, Append(s.suspended, s.lease)}
      /\ waiting # s.suspended => s.lease # NoLease
      /\ token \in Nat
  BY <1>3
<1>8. token > target.version
  BY <1>3
<1>9. target'.version = token
  <2> HIDE DEF s, lease, waiting, token
  <2> QED BY <1>3, <1>6 DEF TargetState
<1> HIDE DEF s, lease, waiting, token
<1>10. target' \in TargetState /\ Ordered(target') /\ FollowsHolder(target')
  BY <1>3, <1>4, <1>5, <1>6, <1>7, GrantKeeps
<1> QED BY <1>2, <1>6, <1>8, <1>9, <1>10 DEF StepEffect

\* A renewal moves the version of the same intent, after an expiry if one was due.
LEMMA RenewEffect ==
  ASSUME Core, NEW a \in Source, NEW r \in RenewRequest, RenewGranted(a, r)
  PROVE  StepEffect /\ now' \in Nat
<1> USE DEF Core
<1> DEFINE s == Advance(target, now)
<1>1. PICK t \in Readable :
        /\ s.lease # NoLease
        /\ target' = [s EXCEPT !.lease.deadline = t + r.ttl, !.version = @ + 1]
        /\ ready' = (ready /\ ~Expired(target, now))
        /\ now' = t
  BY DEF RenewGranted, NamesHolder
<1>2. t \in Nat /\ t + r.ttl \in Nat
  <2>1. t \in Nat
    BY ReadableIsNat
  <2>2. r.ttl \in Nat
    BY ConstantsAssumption DEF RenewRequest
  <2> QED BY <2>1, <2>2
<1>3. /\ s \in TargetState /\ Ordered(s) /\ FollowsHolder(s)
      /\ s.version \in {target.version, target.version + 1}
  BY AdvanceKeeps
<1>4. target.version \in Nat
  BY DEF TargetState
<1>5. ~Expired(target, now) => s = target
  BY DEF Advance
<1> DEFINE d == t + r.ttl
<1> HIDE DEF s, d
<1>6. target' = [s EXCEPT !.lease.deadline = d, !.version = @ + 1]
  BY <1>1 DEF d
<1>7. /\ target' \in TargetState /\ Ordered(target') /\ FollowsHolder(target')
      /\ target'.version = s.version + 1 /\ target'.desired = s.desired
  <2>1. d \in Nat
    BY <1>2 DEF d
  <2>2. s.lease # NoLease
    BY <1>1
  <2> QED BY <1>3, <1>6, <2>1, <2>2, RenewalKeeps
<1>8. target'.version > target.version
  BY <1>3, <1>4, <1>7
<1>9. CASE Expired(target, now)
  BY <1>1, <1>2, <1>7, <1>8, <1>9 DEF StepEffect
<1>10. CASE ~Expired(target, now)
  <2>1. ready' = ready
    BY <1>1, <1>10
  <2> QED BY <1>1, <1>2, <1>5, <1>7, <1>8, <1>10, <2>1 DEF StepEffect
<1> QED BY <1>9, <1>10

\* A release moves the version and leaves the restored holder's route, or idle.
LEMMA ReleaseEffect ==
  ASSUME Core, NEW a \in Source, NEW r \in ReleaseRequest, ReleaseGranted(a, r)
  PROVE  StepEffect /\ now' \in Nat
<1> USE DEF Core
<1> DEFINE s == Advance(target, now)
<1>1. PICK t \in Readable :
        /\ target' = [RestoreOrIdle(s, t) EXCEPT !.version = @ + 1]
        /\ ready' = FALSE
        /\ now' = t
  BY DEF ReleaseGranted
<1>2. t \in Nat /\ target.version \in Nat
  BY ReadableIsNat DEF TargetState
<1>3. /\ s \in TargetState /\ Ordered(s)
      /\ s.version \in {target.version, target.version + 1}
  BY AdvanceKeeps
<1> DEFINE m == RestoreOrIdle(s, t)
<1>4. m \in TargetState /\ Ordered(m) /\ FollowsHolder(m) /\ m.version = s.version
  BY <1>2, <1>3, RestoreOrIdleKeeps
<1> HIDE DEF m, s
<1>5. target' = [m EXCEPT !.version = @ + 1]
  BY <1>1 DEF m
<1>6. target' \in TargetState /\ target'.version = m.version + 1
  <2> DEFINE v == m.version + 1
  <2>1. v \in Nat
    BY <1>4 DEF TargetState
  <2>2. target' = [m EXCEPT !.version = v]
    BY <1>5
  <2> HIDE DEF v
  <2>3. target' \in TargetState /\ target'.version = v
    BY <1>4, <2>1, <2>2 DEF TargetState
  <2> QED BY <2>3 DEF v
<1>7. /\ target'.lease = m.lease /\ target'.suspended = m.suspended
      /\ target'.desired = m.desired
  BY <1>4, <1>5 DEF TargetState
<1>8. Ordered(target') /\ FollowsHolder(target')
  BY <1>4, <1>7 DEF Ordered, FollowsHolder
<1>9. target'.version > target.version
  BY <1>2, <1>3, <1>4, <1>6
<1> QED BY <1>1, <1>2, <1>6, <1>8, <1>9 DEF StepEffect

\* A stored observation moves only the version.
LEMMA ObservationEffect == ASSUME Core, StoreObservation PROVE StepEffect
<1> USE DEF Core
<1> DEFINE v == target.version + 1
<1>1. v \in Nat /\ v > target.version
  BY DEF TargetState
<1>2. target' = [target EXCEPT !.version = v] /\ ready' = ready
  BY DEF StoreObservation
<1> HIDE DEF v
<1>3. target' \in TargetState /\ target'.version = v
  BY <1>1, <1>2 DEF TargetState
<1>4. /\ target'.lease = target.lease /\ target'.suspended = target.suspended
      /\ target'.desired = target.desired
  BY <1>2 DEF TargetState
<1>5. Ordered(target') /\ FollowsHolder(target')
  BY <1>4 DEF Ordered, FollowsHolder
<1> QED BY <1>1, <1>2, <1>3, <1>4, <1>5 DEF StepEffect

\* Any step has such an effect, or leaves the target to the worker's verdict.
LEMMA StepEffects ==
  ASSUME Core, [Next]_vars
  PROVE  /\ now' \in Nat
         /\ StepEffect \/ (UNCHANGED target /\ ready' \in BOOLEAN)
<1>1. ASSUME NEW online \in BOOLEAN, Presence(online), now' = now
      PROVE  StepEffect /\ now' \in Nat
  <2>1. ready' = FALSE /\ target.version \in Nat
    BY <1>1 DEF Presence, Core, TargetState
  <2>2. /\ target' \in TargetState /\ Ordered(target') /\ FollowsHolder(target')
        /\ target'.version = target.version + 1
    BY <1>1, PresenceKeeps
  <2>3. target'.version > target.version /\ now' \in Nat
    BY <1>1, <2>1, <2>2 DEF Core
  <2> QED BY <2>1, <2>2, <2>3 DEF StepEffect
<1>2. ASSUME UNCHANGED target, UNCHANGED ready \/ ready' \in BOOLEAN,
             now' = now \/ now' = now + 1
      PROVE  now' \in Nat /\ UNCHANGED target /\ ready' \in BOOLEAN
  BY <1>2 DEF Core
<1>3. now' = now => now' \in Nat
  BY DEF Core
<1> QED BY StepKinds, SettleEffect, AcquireEffect, RenewEffect, ReleaseEffect,
           ObservationEffect, <1>1, <1>2, <1>3

\* A new target is idle, unowned and ordered.
LEMMA InitCore == Init => Core
<1> SUFFICES ASSUME Init PROVE Core
  OBVIOUS
<1>1. target \in TargetState
  <2>1. << >> \in Seq(Lease) /\ IdleRoute \in Route
    BY ConstantsAssumption
  <2> QED BY <2>1 DEF Init, TargetState
<1>2. Ordered(target) /\ FollowsHolder(target)
  BY DEF Init, Ordered, FollowsHolder
<1> QED BY <1>1, <1>2 DEF Init, Core

\* The core facts hold of every reachable state.
LEMMA CoreInvariant == Spec => []Core
<1>1. Core /\ [Next]_vars => Core'
  <2> SUFFICES ASSUME Core, [Next]_vars PROVE Core'
    OBVIOUS
  <2>1. CASE StepEffect
    BY <2>1, StepEffects DEF StepEffect, Core
  <2>2. CASE UNCHANGED target /\ ready' \in BOOLEAN
    BY <2>2, StepEffects DEF Core, Ordered, FollowsHolder
  <2> QED BY <2>1, <2>2, StepEffects
<1> QED BY InitCore, <1>1, PTL DEF Spec

\* The desired route is always the holder's, or idle.
THEOREM DesiredRouteFollowsHolder == Spec => []DesiredFollowsHolder
<1>1. Core => DesiredFollowsHolder
  BY DEF Core, DesiredFollowsHolder
<1> QED BY <1>1, CoreInvariant, PTL

\* Live leases are strictly ordered by priority with the holder on top.
THEOREM LeasesStayOrdered == Spec => []PreemptionOrder
<1>1. Core => PreemptionOrder
  BY DEF Core, PreemptionOrder
<1> QED BY <1>1, CoreInvariant, PTL

\* The lease protocol implements the versioned intent the worker relies on.
THEOREM IntentImplemented == Spec => ImplementsIntent
<1>1. Init => Intent!Init
  BY DEF Init, Intent!Init
<1>2. Core /\ [Next]_vars => [Intent!Next]_(Intent!vars)
  <2> SUFFICES ASSUME Core, [Next]_vars PROVE [Intent!Next]_(Intent!vars)
    OBVIOUS
  <2> USE DEF Intent!Next, Intent!vars
  <2>1. ASSUME StepEffect PROVE [Intent!Next]_(Intent!vars)
    <3>1. target'.version \in Nat /\ target'.desired \in Route
      BY <2>1 DEF StepEffect, TargetState
    <3>2. CASE target' = target /\ ready' = ready
      BY <3>2
    <3>3. CASE target'.version > target.version /\ ready' = FALSE
      BY <3>1, <3>3 DEF Intent!Decide
    <3>4. CASE target'.version > target.version /\ target'.desired = target.desired
               /\ ready' = ready
      BY <3>1, <3>4 DEF Intent!Touch
    <3> QED BY <2>1, <3>2, <3>3, <3>4 DEF StepEffect
  <2>2. CASE UNCHANGED target /\ ready' \in BOOLEAN
    BY <2>2 DEF Intent!Verdict
  <2> QED BY <2>1, <2>2, StepEffects
<1> QED BY <1>1, <1>2, CoreInvariant, PTL DEF Spec, ImplementsIntent, Intent!Spec

-----------------------------------------------------------------------------
(* Type correctness *)

\* Restoring brings no lease to life.
LEMMA RestoreOrIdleLive ==
  ASSUME NEW s \in TargetState, NEW t \in Nat
  PROVE  LiveIn(RestoreOrIdle(s, t)) \subseteq LiveIn(s)
<1> DEFINE r == RestoreOrIdle(s, t)
<1>1. CASE Resumable(s, t) = {}
  <2>1. r.lease = NoLease /\ r.suspended = << >>
    BY <1>1 DEF RestoreOrIdle, TargetState
  <2> HIDE DEF r
  <2> QED BY <2>1 DEF LiveIn, Range, r
<1>2. CASE Resumable(s, t) # {}
  <2> DEFINE i == Max(Resumable(s, t))
  <2>1. s.suspended \in Seq(Lease) /\ Len(s.suspended) \in Nat
    BY DEF TargetState
  <2>2. Resumable(s, t) \in SUBSET (1 .. Len(s.suspended))
    BY <2>1 DEF Resumable
  <2>3. i \in 1 .. Len(s.suspended)
    BY <1>2, <2>1, <2>2, LastPosition
  <2> HIDE DEF i
  <2>4. r.lease = s.suspended[i] /\ r.suspended = SubSeq(s.suspended, 1, i - 1)
    BY <1>2 DEF RestoreOrIdle, i, TargetState
  <2> HIDE DEF r
  <2>5. /\ DOMAIN SubSeq(s.suspended, 1, i - 1) = 1 .. (i - 1)
        /\ \A k \in 1 .. (i - 1) : SubSeq(s.suspended, 1, i - 1)[k] = s.suspended[k]
    BY <2>1, <2>3
  <2>6. DOMAIN s.suspended = 1 .. Len(s.suspended)
    BY <2>1
  <2>7. r.lease \in Range(s.suspended) /\ Range(r.suspended) \subseteq Range(s.suspended)
    BY <2>3, <2>4, <2>5, <2>6 DEF Range
  <2> QED BY <2>7 DEF LiveIn, r
<1> QED BY <1>1, <1>2

\* Committing an expiry brings no lease to life.
LEMMA AdvanceLive ==
  ASSUME NEW s \in TargetState, NEW t \in Nat, Ordered(s)
  PROVE  LiveIn(Advance(s, t)) \subseteq LiveIn(s)
<1>1. CASE ~Expired(s, t)
  BY <1>1 DEF Advance
<1>2. CASE Expired(s, t)
  <2> DEFINE m == RestoreOrIdle(s, t)
             r == Advance(s, t)
  <2>1. m \in TargetState
    BY RestoreOrIdleKeeps
  <2>2. r = [m EXCEPT !.version = @ + 1]
    BY <1>2 DEF Advance
  <2> HIDE DEF m, r
  <2>3. r.lease = m.lease /\ r.suspended = m.suspended
    BY <2>1, <2>2 DEF TargetState
  <2>4. LiveIn(m) \subseteq LiveIn(s)
    BY RestoreOrIdleLive DEF m
  <2> QED BY <2>3, <2>4 DEF LiveIn, r
<1> QED BY <1>1, <1>2

\* A grant adds itself, and a renewal keeps the request of what it renews.
LEMMA LiveStaysWithinPolicy ==
  ASSUME Core, [Next]_vars, \A l \in Live : WithinPolicy(l)
  PROVE  \A l \in Live' : WithinPolicy(l)
<1> USE DEF Core
<1> DEFINE s == Advance(target, now)
<1>1. /\ s \in TargetState /\ Ordered(s)
      /\ \A l \in LiveIn(s) : WithinPolicy(l)
  BY AdvanceKeeps, AdvanceLive DEF Live
<1> HIDE DEF s
<1>2. CASE Settle
  BY <1>1, <1>2 DEF Settle, Live, s
<1>3. ASSUME NEW a \in Source, NEW r \in AcquireRequest, AcquireGranted(a, r),
             TtlAllowed(a, r), r.route \in Policy[a].routes
      PROVE  \A l \in Live' : WithinPolicy(l)
  <2>1. PICK seen \in Readable, t \in Readable :
          LET lease == [request |-> r, source |-> a, token |-> s.version + 1,
                        deadline |-> t + r.ttl]
          IN  target' = [s EXCEPT !.lease = lease,
                                  !.suspended = IF s.lease # NoLease /\ s.lease.deadline > seen
                                                THEN Append(@, s.lease) ELSE @,
                                  !.desired = r.route,
                                  !.version = s.version + 1]
    BY <1>3 DEF AcquireGranted, s
  <2> DEFINE lease == [request |-> r, source |-> a, token |-> s.version + 1,
                       deadline |-> t + r.ttl]
             waiting == IF s.lease # NoLease /\ s.lease.deadline > seen
                        THEN Append(s.suspended, s.lease) ELSE s.suspended
  <2>2. target'.lease = lease /\ target'.suspended = waiting
    BY <1>1, <2>1 DEF TargetState
  <2>3. WithinPolicy(lease)
    BY <1>3 DEF WithinPolicy
  <2>4. s.suspended \in Seq(Lease) /\ s.lease \in Lease \cup {NoLease}
    BY <1>1 DEF TargetState
  <2>5. Range(waiting) \subseteq LiveIn(s)
    <3>1. CASE s.lease # NoLease /\ s.lease.deadline > seen
      <4>1. waiting = Append(s.suspended, s.lease) /\ s.lease \in Lease
        BY <2>4, <3>1
      <4> DEFINE n == Len(s.suspended)
      <4>2. /\ DOMAIN waiting = 1 .. (n + 1) /\ DOMAIN s.suspended = 1 .. n /\ n \in Nat
            /\ \A k \in 1 .. n : waiting[k] = s.suspended[k]
            /\ waiting[n + 1] = s.lease
        BY <2>4, <4>1
      <4> HIDE DEF waiting, n
      <4>3. \A k \in 1 .. (n + 1) : k \in 1 .. n \/ k = n + 1
        BY <4>2
      <4> QED BY <3>1, <4>2, <4>3 DEF Range, LiveIn
    <3>2. CASE ~(s.lease # NoLease /\ s.lease.deadline > seen)
      BY <3>2 DEF LiveIn
    <3> QED BY <3>1, <3>2
  <2> HIDE DEF lease, waiting
  <2>6. Live' = ({lease} \ {NoLease}) \cup Range(waiting)
    BY <2>2 DEF Live, LiveIn
  <2> QED BY <1>1, <2>3, <2>5, <2>6
<1>4. ASSUME NEW a \in Source, NEW r \in RenewRequest, RenewGranted(a, r)
      PROVE  \A l \in Live' : WithinPolicy(l)
  <2>1. PICK t \in Readable :
          /\ s.lease # NoLease
          /\ target' = [s EXCEPT !.lease.deadline = t + r.ttl, !.version = @ + 1]
    BY <1>4 DEF RenewGranted, NamesHolder, s
  <2>2. /\ target'.suspended = s.suspended
        /\ target'.lease = [s.lease EXCEPT !.deadline = t + r.ttl]
    BY <1>1, <2>1 DEF TargetState
  <2>3. s.lease \in Lease /\ s.lease \in LiveIn(s)
    BY <1>1, <2>1 DEF TargetState, LiveIn
  <2>4. target'.lease.source = s.lease.source /\ target'.lease.request = s.lease.request
    BY <2>2, <2>3 DEF Lease
  <2>5. WithinPolicy(target'.lease)
    BY <1>1, <2>3, <2>4 DEF WithinPolicy
  <2> QED BY <1>1, <2>2, <2>5 DEF Live, LiveIn
<1>5. ASSUME NEW a \in Source, NEW r \in ReleaseRequest, ReleaseGranted(a, r)
      PROVE  \A l \in Live' : WithinPolicy(l)
  <2>1. PICK t \in Readable : target' = [RestoreOrIdle(s, t) EXCEPT !.version = @ + 1]
    BY <1>5 DEF ReleaseGranted, s
  <2> DEFINE m == RestoreOrIdle(s, t)
  <2>2. t \in Nat
    BY ReadableIsNat
  <2>3. m \in TargetState /\ LiveIn(m) \subseteq LiveIn(s)
    BY <1>1, <2>2, RestoreOrIdleKeeps, RestoreOrIdleLive
  <2> HIDE DEF m
  <2>4. target'.lease = m.lease /\ target'.suspended = m.suspended
    BY <2>1, <2>3 DEF TargetState, m
  <2> QED BY <1>1, <2>3, <2>4 DEF Live, LiveIn
<1>6. ASSUME NEW online \in BOOLEAN, Presence(online)
      PROVE  \A l \in Live' : WithinPolicy(l)
  <2>1. CASE online \/ target.lease = NoLease
    <3>1. target'.lease = target.lease /\ target'.suspended = target.suspended
      BY <1>6, <2>1 DEF Presence, TargetState
    <3> QED BY <3>1 DEF Live, LiveIn
  <2>2. CASE ~(online \/ target.lease = NoLease)
    <3>1. target'.lease = NoLease /\ target'.suspended = << >>
      BY <1>6, <2>2 DEF Presence, TargetState
    <3> QED BY <3>1 DEF Live, LiveIn, Range
  <2> QED BY <2>1, <2>2
<1>7. CASE StoreObservation
  <2>1. target'.lease = target.lease /\ target'.suspended = target.suspended
    BY <1>7 DEF StoreObservation, TargetState
  <2> QED BY <2>1 DEF Live, LiveIn
<1>8. CASE UNCHANGED target
  BY <1>8 DEF Live, LiveIn
<1> QED BY StepKinds, <1>2, <1>3, <1>4, <1>5, <1>6, <1>7, <1>8

\* A new entry joins those that stay in the cache.
LEMMA RememberTyped ==
  ASSUME CacheTyped, NEW scope \in Scope, NEW r \in Request, NEW token \in Nat,
         Remember(scope, r, token)
  PROVE  CacheTyped'
<1>1. PICK kept \in CacheWithRoom :
        cache' = [k \in DOMAIN kept \cup {scope} |->
                    IF k = scope THEN [request |-> r, token |-> token] ELSE kept[k]]
  BY DEF Remember
<1>2. /\ DOMAIN kept \subseteq DOMAIN cache
      /\ \A k \in DOMAIN kept : kept[k] = cache[k]
  <2>1. CASE kept = cache
    BY <2>1
  <2>2. CASE \E k \in DOMAIN cache : kept = Restrict(cache, DOMAIN cache \ {k})
    BY <2>2 DEF Restrict
  <2> QED BY <2>1, <2>2 DEF CacheWithRoom
<1>3. DOMAIN cache' = DOMAIN kept \cup {scope}
  BY <1>1
<1>4. ASSUME NEW k \in DOMAIN cache'
      PROVE  cache'[k].request \in Request /\ cache'[k].token \in Nat
  <2>1. CASE k = scope
    BY <1>1, <1>3, <2>1
  <2>2. CASE k # scope
    BY <1>1, <1>2, <1>3, <2>2 DEF CacheTyped
  <2> QED BY <2>1, <2>2
<1>5. DOMAIN cache' \subseteq Scope
  BY <1>2, <1>3 DEF CacheTyped
<1> QED BY <1>4, <1>5 DEF CacheTyped

\* Any outcome with a token, real or 0, is a typed answer.
LEMMA AnswerTyped ==
  ASSUME NEW a \in Source, NEW op \in Op, NEW why \in Outcome, NEW token \in Nat,
         Answer(a, op, why, token)
  PROVE  ReplyTyped'
BY DEF Answer, ReplyTyped

\* What the three requests share: a refusal, a rejection or a replay.
LEMMA SharedAnswersTyped ==
  ASSUME CacheTyped, NEW a \in Source, NEW op \in Op, NEW r \in Request,
         \/ \E why \in Outcome : Refuse(a, op, why) \/ Reject(a, op, why)
         \/ Recall(a, op, r)
  PROVE  CacheTyped' /\ ReplyTyped'
<1>1. ASSUME NEW why \in Outcome, Refuse(a, op, why) \/ Reject(a, op, why)
      PROVE  CacheTyped' /\ ReplyTyped'
  <2>1. Answer(a, op, why, 0) /\ UNCHANGED cache
    BY <1>1 DEF Refuse, Reject
  <2> QED BY <2>1, AnswerTyped DEF CacheTyped
<1>2. CASE Recall(a, op, r)
  <2> DEFINE entry == cache[ScopeOf(a, op, r)]
  <2>1. /\ ScopeOf(a, op, r) \in DOMAIN cache /\ UNCHANGED cache
        /\ Answer(a, op, "replayed", entry.token) \/ Answer(a, op, "idempotency_conflict", 0)
    BY <1>2 DEF Recall, Remembered
  <2>2. entry.token \in Nat
    BY <2>1 DEF CacheTyped
  <2>3. "replayed" \in Outcome /\ "idempotency_conflict" \in Outcome
    BY DEF Outcome
  <2> HIDE DEF entry
  <2> QED BY <2>1, <2>2, <2>3, AnswerTyped DEF CacheTyped
<1> QED BY <1>1, <1>2

\* Scopes, requests and the lease after advance have their types.
LEMMA HandlerInputs ==
  ASSUME Core
  PROVE  /\ \A a \in Source, op \in Op, r \in Request : ScopeOf(a, op, r) \in Scope
         /\ Advance(target, now) \in TargetState
         /\ Advance(target, now).lease \in Lease \cup {NoLease}
         /\ Advance(target, now).version + 1 \in Nat
<1>1. \A r \in Request : r.key \in Key
  BY DEF Request, AcquireRequest, RenewRequest, ReleaseRequest
<1>2. \A a \in Source, op \in Op, r \in Request : ScopeOf(a, op, r) \in Scope
  BY <1>1 DEF Scope, ScopeOf
<1>3. Advance(target, now) \in TargetState
  BY AdvanceKeeps DEF Core
<1> QED BY <1>2, <1>3 DEF TargetState

\* An acquire answers with the holder's token, the new lease's, or none.
LEMMA AcquireTyped ==
  ASSUME Core, CacheTyped, NEW a \in Source, NEW r \in AcquireRequest, Acquire(a, r)
  PROVE  CacheTyped' /\ ReplyTyped'
<1> DEFINE s == Advance(target, now)
<1>1. r \in Request /\ "acquire" \in Op /\ ScopeOf(a, "acquire", r) \in Scope
  <2>1. r \in Request /\ "acquire" \in Op
    BY DEF Request, Op
  <2> QED BY <2>1, HandlerInputs
<1>2. s.lease \in Lease \cup {NoLease} /\ s.version + 1 \in Nat
  BY HandlerInputs
<1> HIDE DEF s
<1>3. ASSUME AcquireHeld(a, r) PROVE CacheTyped' /\ ReplyTyped'
  <2>1. s.lease # NoLease /\ Answer(a, "acquire", "held", s.lease.token) /\ UNCHANGED cache
    BY <1>3 DEF AcquireHeld, s
  <2>2. s.lease.token \in Nat /\ "held" \in Outcome
    BY <1>2, <2>1, LeaseFields DEF Outcome
  <2> QED BY <1>1, <2>1, <2>2, AnswerTyped DEF CacheTyped
<1>4. ASSUME AcquireGranted(a, r) PROVE CacheTyped' /\ ReplyTyped'
  <2> DEFINE token == s.version + 1
  <2>1. Remember(ScopeOf(a, "acquire", r), r, token) /\ Answer(a, "acquire", "granted", token)
    BY <1>4 DEF AcquireGranted, s
  <2>2. token \in Nat /\ "granted" \in Outcome
    BY <1>2 DEF Outcome
  <2> HIDE DEF token
  <2> QED BY <1>1, <2>1, <2>2, AnswerTyped, RememberTyped
<1>5. ASSUME AcquireRefused(a, r) PROVE CacheTyped' /\ ReplyTyped'
  <2>1. \E why \in Outcome : Refuse(a, "acquire", why)
    BY <1>5 DEF AcquireRefused, Outcome
  <2> QED BY <1>1, <2>1, SharedAnswersTyped
<1>6. ASSUME Reject(a, "acquire", "invalid") \/ Reject(a, "acquire", "forbidden")
      PROVE  CacheTyped' /\ ReplyTyped'
  <2>1. \E why \in Outcome : Reject(a, "acquire", why)
    BY <1>6 DEF Outcome
  <2> QED BY <1>1, <2>1, SharedAnswersTyped
<1>7. ASSUME Recall(a, "acquire", r) PROVE CacheTyped' /\ ReplyTyped'
  BY <1>1, <1>7, SharedAnswersTyped
<1> QED BY <1>3, <1>4, <1>5, <1>6, <1>7 DEF Acquire

\* A renewal or a release that does not name the holder and its token is refused.
LEMMA MutationRefusedTyped ==
  ASSUME CacheTyped, NEW a \in Source, NEW op \in Op, NEW r \in Request,
         MutationRefused(a, op, r)
  PROVE  CacheTyped' /\ ReplyTyped'
<1>1. \E why \in Outcome : Refuse(a, op, why)
  BY DEF MutationRefused, Outcome
<1> QED BY <1>1, SharedAnswersTyped

\* A renewal repeats the token it was asked with.
LEMMA RenewTyped ==
  ASSUME Core, CacheTyped, NEW a \in Source, NEW r \in RenewRequest, Renew(a, r)
  PROVE  CacheTyped' /\ ReplyTyped'
<1>1. /\ r \in Request /\ "renew" \in Op /\ "renewed" \in Outcome /\ "invalid" \in Outcome
      /\ r.token \in Nat
  BY ConstantsAssumption DEF Request, Op, Outcome, RenewRequest
<1>2. ScopeOf(a, "renew", r) \in Scope
  BY <1>1, HandlerInputs
<1>3. ASSUME RenewGranted(a, r) PROVE CacheTyped' /\ ReplyTyped'
  <2>1. /\ Remember(ScopeOf(a, "renew", r), r, r.token)
        /\ Answer(a, "renew", "renewed", r.token)
    BY <1>3 DEF RenewGranted
  <2> QED BY <1>1, <1>2, <2>1, AnswerTyped, RememberTyped
<1>4. ASSUME Reject(a, "renew", "invalid") \/ Recall(a, "renew", r)
      PROVE  CacheTyped' /\ ReplyTyped'
  BY <1>1, <1>4, SharedAnswersTyped
<1>5. ASSUME MutationRefused(a, "renew", r) PROVE CacheTyped' /\ ReplyTyped'
  BY <1>1, <1>5, MutationRefusedTyped
<1> QED BY <1>3, <1>4, <1>5 DEF Renew

\* A release answers with the restored lease's token, or none.
LEMMA ReleaseTyped ==
  ASSUME Core, CacheTyped, NEW a \in Source, NEW r \in ReleaseRequest, Release(a, r)
  PROVE  CacheTyped' /\ ReplyTyped'
<1>1. r \in Request /\ "release" \in Op /\ "released" \in Outcome
  BY DEF Request, Op, Outcome
<1>2. ScopeOf(a, "release", r) \in Scope
  BY <1>1, HandlerInputs
<1>3. ASSUME ReleaseGranted(a, r) PROVE CacheTyped' /\ ReplyTyped'
  <2> DEFINE s == Advance(target, now)
             m(t) == RestoreOrIdle(s, t)
             token(t) == IF m(t).lease = NoLease THEN 0 ELSE m(t).lease.token
  <2>1. PICK t \in Readable : /\ Remember(ScopeOf(a, "release", r), r, token(t))
                              /\ Answer(a, "release", "released", token(t))
    BY <1>3 DEF ReleaseGranted
  <2>2. t \in Nat /\ s \in TargetState /\ Ordered(s)
    BY ReadableIsNat, AdvanceKeeps DEF Core
  <2> HIDE DEF s
  <2>3. m(t) \in TargetState
    BY <2>2, RestoreOrIdleKeeps
  <2> HIDE DEF m
  <2>4. m(t).lease \in Lease \cup {NoLease}
    BY <2>3 DEF TargetState
  <2>5. token(t) \in Nat
    BY <2>4, LeaseFields
  <2> HIDE DEF token
  <2> QED BY <1>1, <1>2, <2>1, <2>5, AnswerTyped, RememberTyped
<1>4. ASSUME Recall(a, "release", r) PROVE CacheTyped' /\ ReplyTyped'
  BY <1>1, <1>4, SharedAnswersTyped
<1>5. ASSUME MutationRefused(a, "release", r) PROVE CacheTyped' /\ ReplyTyped'
  BY <1>1, <1>5, MutationRefusedTyped
<1> QED BY <1>3, <1>4, <1>5 DEF Release

\* Every variable keeps its type, and every live lease was granted within the
\* policy of its adapter.
THEOREM TypeCorrect == Spec => []TypeOK
<1> DEFINE IInv == Core /\ TypeOK
<1>1. Init => IInv
  <2> SUFFICES ASSUME Init PROVE IInv
    OBVIOUS
  <2>1. Core
    BY InitCore
  <2>2. \A l \in Live : WithinPolicy(l)
    BY DEF Init, Live, LiveIn, Range
  <2>3. CacheTyped /\ ReplyTyped
    BY DEF Init, CacheTyped, ReplyTyped
  <2> QED BY <2>1, <2>2, <2>3 DEF Core, TypeOK
<1>2. Core /\ [Next]_vars => Core'
  <2> SUFFICES ASSUME Core, [Next]_vars PROVE Core'
    OBVIOUS
  <2>1. CASE StepEffect
    BY <2>1, StepEffects DEF StepEffect, Core
  <2>2. CASE UNCHANGED target /\ ready' \in BOOLEAN
    BY <2>2, StepEffects DEF Core, Ordered, FollowsHolder
  <2> QED BY <2>1, <2>2, StepEffects
<1>3. IInv /\ [Next]_vars => CacheTyped' /\ ReplyTyped'
  <2> SUFFICES ASSUME Core, CacheTyped, ReplyTyped, [Next]_vars
               PROVE  CacheTyped' /\ ReplyTyped'
    BY DEF TypeOK
  <2>1. CASE \/ \E online \in BOOLEAN : Presence(online)
             \/ Snapshot \/ StoreObservation \/ StoreVerdict \/ Tick
    <3>1. reply' = NoReply /\ UNCHANGED cache
      BY <2>1 DEF Presence, Snapshot, StoreObservation, StoreVerdict, Tick
    <3> QED BY <3>1 DEF CacheTyped, ReplyTyped
  <2>2. CASE UNCHANGED vars
    BY <2>2 DEF vars, CacheTyped, ReplyTyped
  <2> QED BY <2>1, <2>2, AcquireTyped, RenewTyped, ReleaseTyped DEF Next
<1>4. IInv /\ [Next]_vars => IInv'
  <2> SUFFICES ASSUME IInv, [Next]_vars PROVE IInv'
    OBVIOUS
  <2>1. \A l \in Live' : WithinPolicy(l)
    BY LiveStaysWithinPolicy DEF TypeOK
  <2>2. (\A l \in Live : WithinPolicy(l))'
    BY <2>1 DEF WithinPolicy, TtlAllowed
  <2> HIDE DEF IInv
  <2>3. Core' /\ CacheTyped' /\ ReplyTyped'
    BY <1>2, <1>3 DEF IInv
  <2> QED BY <2>2, <2>3 DEF IInv, Core, TypeOK
<1>5. IInv => TypeOK
  OBVIOUS
<1> QED BY <1>1, <1>4, <1>5, PTL DEF Spec
=============================================================================
