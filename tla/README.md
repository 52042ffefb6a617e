# Formal verification of household-audio-fabric

TLA+ specifications, model-checking instances and machine-checked proofs for the
stateful parts of this repository: the **route authority** (Rust), which decides
what each room plays and drives Snapcast accordingly, and the **announcer**
(Python), which turns authorised text into one-shot speech. Everything is written
from the source; line numbers below are of the files under `src/components/`.

## 1. Inventory

### 1.1 The system

```
 adapters ──acquire/renew/release──►┌─────────────────┐   observe/set   ┌──────────┐
 reporter ──presence───────────────►│ route authority │────────────────►│ Snapcast │
 readers  ◄─snapshots, SSE, readyz──│ targets, worker │                 └────▲─────┘
                                    └─────────────────┘      idle? (read-only)│
 callers  ──announce/status────────►┌─────────────────┐──────────────────────┘
 apps     ──next/result────────────►│    announcer    │──MQTT notify──► broker ──► speakers
 speakers ──GET clip───────────────►│ ledger, worker  │
                                    └─────────────────┘
 AirPlay receiver (patched shairport-sync + nqptp behind an attested firewall) ──► relay ──► Snapserver
```

The two services share nothing but Snapcast, which the authority commands and the
announcer only reads. The AirPlay receiver and the relay are third-party programs
that this repository patches, configures and guards.

### 1.2 Components

| Component | State | Operations | Hard behaviour | Correct means |
|---|---|---|---|---|
| Lease authority (`route-authority/src/lib.rs`) | per target: version, desired and observed route, holder, stack of preempted leases, presence, idempotency cache; one ready flag | acquire, renew, release, presence, snapshot(s) | lazy expiry, nested preemption, retries against an evicting cache, several clock readings in a handler, endpoint loss | the route follows the holder; priority and deadlines decide who holds; a retry finds its lease; tokens stay private |
| Reconciliation worker (`lib.rs` tick, `main.rs`) | locals across driver calls, the ready flag | probe, copy intent, observe, set, confirm, store, verdict | no lock across network calls, concurrent decisions, failing targets | never acts on an intent older than the version it checks; converges; readiness is honest |
| Snapcast driver (`snapcast.rs`) | none | set_route, observe_route, probe | timeouts whose effect arrives late, foreign changes | a failed call is healed |
| Event stream (`lib.rs` emit, `api.rs` events) | 256-entry broadcast buffer, ids | emit, subscribe, receive, gap | slow consumers; ids drawn apart from the sending; a snapshot that races events | a consumer that missed events learns it, and ends with the current state |
| API, authorisation, metrics (`api.rs`) | counters, connections | the HTTP handlers | who learns what before which check; peers that leave or stall in mid-request | role separation; documented answers; counters that add up |
| Configuration, lifecycle (`main.rs`) | configuration, tasks, shutdown channel | validate, start, shut down | abort in mid-call; streams that subscribe after the broadcast; drain deadline | a token, a target's presence and a source have one owner; the process ends |
| Announcer ledger (`announcer/service.py`) | jobs and deliveries in SQLite, clips on disk | accept, status, claim, result, media_data, fetched, cleanup, refresh | concurrent transactions, sweeps in every request, removals that do not roll back | admission limits, honest statuses |
| Announcer worker (`service.py`, `portal.py`) | the job in hand | pick, synthesise, dispatch, record, recover | crashes between intent and outcome, lock released around network calls, a worker thread that dies alone, restarts with a new configuration | at most once, one lane, nothing false, everything settles |
| Media listener (`media.py`) | transfers in flight | GET, HEAD, ranges | fetch quicker than the acknowledgement | bounded, authorised |
| Bounded servers, announcer configuration, synthesis child | slots | – | – | – |
| AirPlay port patch | listeners of a connection | SETUP, teardown | partial failure, small port range | every socket is returned |
| Firewall attestation, entrypoints | attestation file | apply, verify, start, health check | check-then-use | no start without a verified boundary |
| Relay, snapserver, packaging, CI | none of their own | – | – | – |

`PROJECT.json` lists each with its status and, under `hazards`, every place where
the code is hard to test, with the properties that cover it.

## 2. Plan

Modules, in the order of their importance:

1. `TargetIntent`, `LeaseAuthority`, `LeaseAuthorityProofs`, `LeaseSafetyProofs` – *done*;
   every safety property of it is proved.
2. `Reconciler`, `ReconcilerProofs`, composed with 1 through `TargetIntent` – *done*;
   a restart may leave the driver call in flight to take effect later.
3. `OneShot`, `Announcer` – *done*, with the death of its worker thread and the supervision that
   answers it; `AnnouncerProofs` (no delivery is sent twice), `AnnouncerRowProofs` (what
   each statement does to a row) and `AnnouncerSafetyProofs` (every other safety and
   action property, and that `Announcer` implements `OneShot`) – *done*.
4. `StateFeed`, `EventStream`: ids, broadcast buffer, lag, gap and the consumer's
   snapshot – *done*, with `EventStreamProofs`.
5. `Configuration`, `AuthorityService`: validation, authorisation, metrics, and the
   process from boot to its exit – *done*, with `AuthorityServiceProofs`.

Every safety property and every action property that a passing run checks is proved, and so
is that each detailed specification implements its abstract one.

The AirPlay receiver's port patch and firewall attestation were planned and are left
out; section 6 says why.

## 3. The modules

| Module | What it is |
|---|---|
| `TargetIntent` | abstract: one target's versioned intent, all that worker and readiness may rely on |
| `LeaseAuthority` | one target in detail; implements `TargetIntent` |
| `Reconciler` | the worker, Snapcast and restarts over targets given by their intent |
| `StateFeed` | abstract: what a consumer of the events may rely on |
| `EventStream` | commits, broadcast buffer, subscriptions and snapshots; implements `StateFeed` |
| `Configuration` | the authority's configuration and what `validate` demands of it |
| `AuthorityService` | the authority's handlers and process, over `Configuration` |
| `OneShot` | abstract: what may be relied on of one delivery of an announcement |
| `Announcer` | the announcement service: ledger, worker, transfers, process; implements `OneShot` for every delivery |
| `LeaseAuthorityProofs`, `LeaseSafetyProofs`, `ReconcilerProofs`, `EventStreamProofs`, `AuthorityServiceProofs`, `AnnouncerProofs`, `AnnouncerSafetyProofs` | theorems |
| `AnnouncerRowProofs` | lemmas about the rows of the announcer's two tables |
| `MCLeaseAuthority`, `MCReconciler`, `MCEventStream`, `MCAuthorityService`, `MCAnnouncer` | constants for TLC |

Definitions introduced by a comment that says *Mutation* are plausible bugs. No
specification uses them; each shows that some property would notice the bug.

### 3.1 LeaseAuthority

A handler runs under the target's state mutex, so it is one action. It reads the
monotonic clock several times; an action therefore may read later instants, up to
`HandlerSpan`, and leaves the clock at the last one. Every request action contains the
code's order: validation, cache, `advance` (a due expiry is committed and clears
readiness even if the request then fails), the refusals, the commit, `remember`.

| Variable | Code |
|---|---|
| `target` | `TargetState` without `cfg`, `cache` and `observed` |
| `cache` | `TargetState.cache`, keyed by source, operation and key (`scope`), entry = request (its fingerprint) and the token of the cached answer |
| `ready` | `Authority.ready` |
| `reply` | the last answer (only for properties) |

A token is the version its grant commits: like the code's UUID it is fresh at every
grant, and unlike a UUID it can be compared. `Policy` stands for `AdapterPolicy`; a
lease's priority and resume flag are those of its source, which a configuration fixes
(`main.rs` accepts a source once). Which entry a full cache evicts is any one, as the
iteration order of the map is. A target an adapter may not use is not modelled: such a
request returns before it reads anything. `StoreObservation` and `StoreVerdict` are the
worker as this target sees it.

### 3.2 Reconciler

`worker.pc` is the place in `tick`/`reconcile_target`:
`idle` → (probe) `pick` → (first lock section) `observe` → [`set` → `confirm`] →
`store` (second lock section) → `pick` … → (verdict) `idle`. Driver calls and lock
sections are separate steps, so decisions and renewals interleave everywhere. The
targets appear by their intent only, which is sound because `LeaseAuthority`
implements `TargetIntent` (proved) and `Reconciler`'s own `Decide` and `Renew` are
steps of the same specification (proved). An expiry committed by the first lock section
is a `Decide` just before it. A call that fails had no effect, its effect, or will have
it later (`late`); so may one that a restart or the shutdown's abort of the worker finds
in flight (`InFlight`). `overtaken` is a history variable: the
targets that a decision reached since a pass last found them reconciled.

### 3.3 EventStream

A target's mutex is held from a commit over its events to the end of the handler, so a
target's `section` is where its holder is: an event's id is drawn in one step
(`fetch_add`, `lib.rs:488`) and broadcast in a later one, and the sections of two
targets interleave in between. A section may commit twice (an expiry, then the request
that found it) and an expiry that restores a lease has a second event of the same
version. A commit and the drawing of its first id are one step: both happen under the
mutex, which is what a snapshot needs too.

| Variable | Code |
|---|---|
| `version`, `section`, `drawn` | `TargetState.version`, the place in a handler's lock section, the id in its hands |
| `nextEvent` | `Authority.next_event` |
| `sent` | the broadcast channel: all it ever carried, of which it retains the last `Capacity` |
| `cursor` | a `broadcast::Receiver`: the position it reads next |
| `fetching`, `view` | the consumer: targets its snapshot has yet to visit, the newest version it knows of each |

`snapshot_all` locks one target after another (`Fetch`), so a snapshot is no common
instant of the targets. The consumer is not in the repository. `route-authority/README.md:69`
asks it to refetch the snapshot at a gap, and no more; that it subscribes before it fetches
its first snapshot, and keeps the newer of two versions, is this model's assumption about it,
without which it could stay behind for good. The tokio channel is modelled by its documented behaviour:
a receiver that fell behind is told so once and resumes at the oldest retained value.

### 3.4 AuthorityService and Configuration

`Configuration` is `validate`: a configuration keeps the *lists* of the document, so that
duplicates exist to be found. `AuthorityService` begins before `main` has validated any.

| Variable | Code |
|---|---|
| `config` | the parsed `ROUTER_CONFIG_JSON` |
| `proc` | the place in `main`: `boot`, `serving`, and after the signal `told` (broadcast sent), `stopping` (nothing accepted), `draining` (worker aborted, deadline running), `exited`; or `refused` |
| `worker` | the reconciliation task: waiting in its `select!`, in a pass, or stopped |
| `conn` | per connection: what its peer and its handler have got to |
| `metrics` | `Metrics` |
| `effects` | history: which token did what |

A request is an operation, a token, a target and whether its body would parse. A handler
is one step (`Handle`), in its order: token, body, policy, method. `observe_http` then counts
the answer in up to two further steps, as the counter of its class and the counter of errors
are separate atomics: `CountClass`, `CountError`. A scrape of `/metrics` loads the counters one
after another (`api.rs:230-235`), so its figures may be of several of these moments; what it
prints is not modelled. What keeps a
connection waiting is its peer, which sends a head (`Begin`, `Arrive`) and a body in its
own time. What `Authority` answers to an admitted request is `LeaseAuthority`'s matter
and here any status that method can lead to. An `events` handler that runs after the
broadcast has a receiver that never hears it (`deaf`): such a stream ends with its peer
or with the drain deadline.

### 3.5 Announcer

A transaction (`with self.lock, self.db`) is one action; `cleanup` is applied at the
start of every transaction that calls it (`Cleaned`), its file removals survive a
rollback (`RollBack`). The worker's locals are kept in `worker`, whose steps are the
points between transactions, calls and checks of the clock. `portal.publish` looks at the
clock for the last time (`Publish`, `portal.py:58-62`) before the packet leaves
(`Transmit`, line 68 or a later `client.loop`), so a notification may leave after its
deadline; no property says otherwise. `Pick` finds the process running as it opens its
transaction, where the code looked just before (`service.py:313`), and of an unauthorised
job it fails the deliveries that wait, where the code fails all (line 326): a job that waits
has no others (`NothingStaysInLimbo`), and `Start` looks at the flag again. An exception that `deliver`
does not list ends the worker thread and nothing else (`Die`): the process goes on
admitting, `/healthz` fails, and the supervisor it is written for stops the process
(`Supervise`), after which recovery runs.

`OneShot` is one delivery as its caller and its listener know it. Its `stage` is the
delivery's status seen from afar (`StageOf`: what is claimed, dispatching, uncertain or
published may have left and is *given*), its `sent` and `heard` are `sent` and `delivered`.
Whole transactions are one of its steps or none: a sweep gives up, a claim and a dispatch
intent give, a fetch or an app's report confirms, a deleted row is forgotten.

Abstractions: one topic stands for all; the time-to-live stands for the whole body and
its fingerprint; `config` changes only at `Startup`; an output is polled (`Native`) or
notified; downloads in flight are a set, so two simultaneous transfers to one device
are one; instants are integers, so the whole seconds that `publish` leaves to a message
(`math.floor`) are the time to the deadline; texts and clips are present or absent;
`sent` and `delivered` are history variables about the world outside.

Assumptions about the outside: a negative PUBACK means that the message reached no
device; an app reports only on clips it received; the wall clock does not step back or jump. A
time-to-live is at most 30 s (`service.py:231`) and a row is kept for 24 h
(`service.py:265`): of this the model keeps that a job's life, and a transaction more,
fits into the retention (`RetentionAssumption`). A delivery or a response may last past
the deadline (a slow broker, a slow transfer), but not for a day: `Reachable` bounds the
clock so that no row is deleted while one of them uses it.

## 4. Runs

| Run | Checks | Result |
|---|---|---|
| `lease_preemption` | `TypeOK`, `DesiredFollowsHolder`, `PreemptionOrder`, `HolderNeedsEndpoint`, `ContendedOnlyByHolder`, `TokensIssuedOnce`, `HolderKeepsTarget`, `RestoresOnlyPreempted` | holds, 106,958 states |
| `lease_retries` | `TokenStaysPrivate`, `RetryFindsLiveLease`, `ImplementsIntent`, `EventuallyIdle` | holds, 39,884 states |
| `lease_retained` | `RetainedOnlyIfResumable` | violated (finding) |
| `lease_advertised` | `AdvertisedOnlyOnceEligible` | violated (finding) |
| `reconcile` | `TypeOK`, `VersionPinsIntent`, `ReadyUnlessOvertaken`, `ImplementsIntent`, `Converges` | holds, 570,126 states |
| `reconcile_overtaken` | `ReadyMeansReconciled` | violated (finding) |
| `event_stream` | `TypeOK`, `EventsInOrder`, `NeverSilentlyStale`, `ImplementsFeed` | holds, 72,949 states |
| `authority_service` | `TypeOK`, `RolesSeparate`, `OneVoice`, `AnswersAreDocumented`, `MetricsAddUp`, `ShutdownEnds` | holds, 83,946 states |
| `announce_lane` | `AtMostOnce`, `LaneExclusive`, `AdmissionBounded` | holds, 351,915 states |
| `announce_delivery` | `TypeOK`, `ReadyIsComplete`, `NothingStaysInLimbo`, `NoFalseFailure`, `SettledStays`, `SendsAreAuthorized`, `KeepsPromise` | holds, 410,083 states |
| `announce_settles` | `EverythingSettles` | holds, 28,483 states |
| `announce_aggregate` | `AggregateIsCurrent` | violated (finding) |

### 4.1 Bounds and why they are enough

* `lease_preemption`: three priorities are the least that nest preemptions twice. Of the
  two adapters of the middle one, one does not resume, so a restoration must skip it, and
  one does, so two leases that may resume can wait together; the highest may ask only for
  short leases, so deadlines cross. The lowest plays a route of its own, so a restoration
  must bring it back. `MaxVersion = 5` allows
  eligibility, three grants and what they lead to; a handler may start only with two
  versions left. One key and a cache of one entry keep replays and evictions frequent.
* `lease_retries`: two adapters with the same ids, key and routes, a cache of two
  entries out of more scopes, and leases that last 0 or 2: an acquire may be repeated while
  its lease lives, waits, is restored, has expired or has been evicted from the cache.
* `reconcile`: two targets, as a pass must be overtaken on one while it works on the
  other; two versions per target; two disturbances, the least that combine a late call
  with a failing one or with a restart.
* `event_stream`: two targets, as ids of one target cannot be out of order; a buffer of two
  and four ids, so that a reader falls out of it in the middle of a snapshot, reads on
  after a gap and falls out again. One reader: readers do not touch one another.
* `authority_service`: a sound configuration with two adapters, two reporters, a reader
  and an admin, and five that differ from it in one entry and must be refused: a token in
  two roles (reader and adapter; adapter and reporter; reader and admin), two reporters of
  one target, two adapters of one source. Two connections, so that one stream or stalled peer is open
  while another request is under way; three requests, so that one token can be seen
  doing two things; requests name a room that exists and one that does not.
* `announce_lane`: two jobs compete for the lane and the queue; callers and keys are
  interchangeable there, and nothing in those properties names one, so `SYMMETRY` is
  sound. Time runs past both lane deadlines.
* `announce_delivery`: one job to both kinds of output, two restarts, two configurations,
  two GETs, a clock that moves inside a transaction (`HandlerSpan = 1`).
* `announce_settles`, `announce_aggregate`: one job, one restart (a death of the worker
  counts as one).
* The limits of the code (8 jobs, 8 per minute, 16 GETs, 256 entries, 15 s, 24 h) are
  constants with small values; only their order matters (lane guard below retention).

`MaxTime`, `MaxVersion`, `MaxJobs`, `MaxRestarts`, `MaxDisturbances`, `MaxEvents`,
`MaxRequests` and `HandlerSpan` are the bounds; each appears only in guards. Only
`authority_service` runs without deadlock checking: a refused or exited process is at its
end.

### 4.2 Fairness

* `LeaseAuthority`: the worker looks at every target each 250 ms (`main.rs:154-162`), so
  `Snapshot` and time are weakly fair; requests are not. `EventuallyIdle` therefore says
  that nobody but the worker is needed to wind a target down.
* `Reconciler`: the worker's loop runs while the process lives, and every call of the
  driver ends within its two-second timeout (`snapcast.rs:16-21`): weak fairness of the
  worker's steps as a whole. Failures are bounded by `MaxDisturbances`, so `Converges`
  reads: once decisions and disturbances stop, intent, observation, Snapcast and
  readiness agree for good.
* `EventStream`: a lock section awaits nothing, so events drawn are sent and sections left
  (weak); a connected consumer goes on reading (weak); its snapshot request gets the mutex
  although handlers keep taking it (strong: tokio's mutex is fair). Commits are not fair.
* `AuthorityService`: only `main`'s own steps after the signal; in `draining` its timer is
  one of them. Peers may stall for ever, and a pass of the worker need not end.
* `Announcer`: the worker thread runs, a transfer ends (sockets have a two-second
  timeout), a stopped process is started again, time passes. That a process whose
  `/healthz` fails for a dead worker is stopped is the deployment's part
  (`announcer/README.md:91`), not the code's: without such a supervisor nothing settles
  after the worker died. Nothing is assumed of callers, apps, speakers, Snapcast or the
  broker.

### 4.3 Findings

1. **Readiness may be set over a decision** (`lib.rs:470`). A pass has found a target
   reconciled and works on another; `acquire` changes the first one's route and clears
   readiness; the pass ends and sets it. `/readyz` is wrong until the next pass has
   visited the target. `ReadyUnlessOvertaken` (proved) says when a ready authority can be
   wrong about a target at all: after a decision that overtook a pass in this way, and
   between a pass's observation that Snapcast has drifted and the end of that pass, which
   reports it. Neither lasts (`Converges`).
2. **Preempted leases that may not resume are kept** (`lib.rs:285`), which shows in
   `suspended_leases`; they are dropped at restoration. The README says they are not
   retained.
3. **An endpoint becomes advertised by going offline** (`lib.rs:533`) when it was online
   for less than five seconds.
4. **Recovery misses a job whose status a fetch has changed** (`service.py:83-85`): its
   aggregate stays what it was before the crash. By the same cause its text is kept past
   its use (`service.py:263-264`), until the row is deleted.

Observed, and not counted as a finding: an `events` request handled between the
broadcast and the end of accepting (`main.rs:179`, `api.rs:253`) gets a stream that never
hears of the shutdown. `ShutdownEnds` holds because the drain deadline cuts it.

## 5. Proofs

For every set of adapters, policies, routes, targets, readers, configurations,
connections, callers and outputs and all bounds, from the assumptions on the constants
alone (`ConstantsAssumption` of each module and `RetentionAssumption` of `Announcer`):

| Theorem | Statement |
|---|---|
| `LeaseAuthorityProofs!TypeCorrect` | `Spec => []TypeOK` |
| `LeaseAuthorityProofs!DesiredRouteFollowsHolder` | `Spec => []DesiredFollowsHolder` |
| `LeaseAuthorityProofs!LeasesStayOrdered` | `Spec => []PreemptionOrder` |
| `LeaseAuthorityProofs!IntentImplemented` | `Spec => Intent!Spec` |
| `LeaseSafetyProofs!TokensAreIssuedOnce` | `Spec => []TokensIssuedOnce` |
| `LeaseSafetyProofs!HoldersHaveEndpoints` | `Spec => []HolderNeedsEndpoint` |
| `LeaseSafetyProofs!ContentionIsReal` | `Spec => []ContendedOnlyByHolder` |
| `LeaseSafetyProofs!HoldersKeepTargets` | `Spec => HolderKeepsTarget` |
| `LeaseSafetyProofs!OnlyPreemptedLeasesReturn` | `Spec => RestoresOnlyPreempted` |
| `LeaseSafetyProofs!TokensStayPrivate` | `Spec => []TokenStaysPrivate` |
| `LeaseSafetyProofs!RetriesFindLiveLeases` | `Spec => []RetryFindsLiveLease` |
| `ReconcilerProofs!TypeCorrect` | `Spec => []TypeOK` |
| `ReconcilerProofs!VersionPins` | `Spec => []VersionPinsIntent` |
| `ReconcilerProofs!ReadinessOvertakenOnly` | `Spec => []ReadyUnlessOvertaken` |
| `ReconcilerProofs!IntentImplemented` | every target implements `TargetIntent` |
| `EventStreamProofs!TypeCorrect` | `Spec => []TypeOK` |
| `EventStreamProofs!IdsOrderEvents` | `Spec => []EventsInOrder` |
| `EventStreamProofs!StaleReadersAreTold` | `Spec => []NeverSilentlyStale` |
| `EventStreamProofs!FeedImplemented` | `Spec => Feed!Spec` |
| `AuthorityServiceProofs!TypeCorrect` | `Spec => []TypeOK` |
| `AuthorityServiceProofs!CredentialsSeparate` | `Spec => []RolesSeparate` |
| `AuthorityServiceProofs!OneVoiceEach` | `Spec => []OneVoice` |
| `AuthorityServiceProofs!MetricsAgree` | `Spec => []MetricsAddUp` |
| `AuthorityServiceProofs!DocumentIsComplete` | `Spec => []AnswersAreDocumented` |
| `AnnouncerProofs!SentAtMostOnce` | `Spec => []AtMostOnce` |
| `AnnouncerSafetyProofs!TypeCorrect` | `Spec => []TypeOK` |
| `AnnouncerSafetyProofs!FailuresAreTrue` | `Spec => []NoFalseFailure` |
| `AnnouncerSafetyProofs!OneLane` | `Spec => []LaneExclusive` |
| `AnnouncerSafetyProofs!ReadyHasItsClip` | `Spec => []ReadyIsComplete` |
| `AnnouncerSafetyProofs!LimboIsEmpty` | `Spec => []NothingStaysInLimbo` |
| `AnnouncerSafetyProofs!SettledForGood` | `Spec => SettledStays` |
| `AnnouncerSafetyProofs!SendsAllowed` | `Spec => SendsAreAuthorized` |
| `AnnouncerSafetyProofs!AdmissionHolds` | `Spec => []AdmissionBounded` |
| `AnnouncerSafetyProofs!PromiseKept` | every delivery implements `OneShot` |

**Lease authority.** The inductive invariant `Core` says: the clock is a natural, readiness
a boolean, the target well typed, the leases ordered, the route the holder's. Order and
route have to go together: a restoration takes a lease from below the
holder and leaves what is below that, so the order of the stack is what keeps the new
holder above the rest. `RestoreOrIdleKeeps` and `AdvanceKeeps` are proved once for
arbitrary states and instants, as handlers read different ones; that the last resumable
lease exists is `LastPosition`, by the library's `WFMin` over the natural order (a set of naturals has a least
element; no operator parameter is needed). `StepEffects` then says of every action
that it leaves the target well formed and either nothing changed, or the version grew
and readiness was cleared, or the version grew and the route did not change, from which
the invariant and the refinement both follow. `TypeOK` is proved over
`IInv == Core /\ TypeOK`: that live leases were granted within policy needs
`LiveStaysWithinPolicy` (no step brings a lease to life but a grant).

**Lease safety.** `Safe == Core /\ Issued(target) /\ Served(target, now)`: tokens ascend with
the live leases up to the version, and a holder's endpoint is eligible. `Granted`, `Renewed`
and `Released` say once what a successful request does to the target; everything else is
about these. Privacy adds `CachePrivate`: a cached acquire or renewal has a token that is
not ahead of the version and that no other source's live lease carries, hence none will,
as later tokens are larger. `TokensAreIssuedOnce` adds `CacheIssued`, the same bound for
everything the cache remembers: a replayed answer may be old, but its token was issued. The
retry theorem rests on `OutrankingIsNew`: who may be
granted has no live lease, so a grant never overwrites a live lease's entry. The two
action properties follow from `Core`. `RestoresOnlyPreempted` excepts the lease that its
source releases in the step: with three leases that may resume, one handler can commit the
holder's expiry, restore a lease, and release that very lease for its source, so that the
third holds the target. The instances are too small to meet this; the proof does.

**Reconciler.** `IInv == TypeOK /\ VersionPinsIntent /\ PassInv /\ ReadyUnlessOvertaken`.
Readiness is not inductive by itself: a verdict is reached target by target and stored
later. `PassInv` says that while a pass is still ok, every target it is done with is
reconciled or has been overtaken by a decision, the one in hand excepted. At the end of
an ok pass this is `ReadyUnlessOvertaken`; a pass that is not ok ends readiness, and until
it ends a target that it caught with a foreign route is `CaughtByPass`.

**Event stream.** `IInv == TypeOK /\ IdsInv /\ EventsInOrder /\ ViewInv /\ NeverSilentlyStale`.
Order is not inductive alone: `IdsInv` says that the counter is ahead of every id sent or
drawn, and that an id in somebody's hands is new and above all its target has sent.
`ViewInv` (nobody knows more than there is, nobody who left knows anything) is what makes
a step a `Learn` of `StateFeed` or a stutter. The liveness half of `ImplementsFeed` is TLC's.

**Authority service.** `IInv == TypeOK /\ EffectsInv`: whatever was done was done under a
valid configuration by a token whose entry allows it (`EffectIsAllowed`: a handler that
succeeds has passed every check). `RolesSeparate` and `OneVoice` then are facts about
`Valid`. `MetricsAgree` counts the handlers between the two counters of a failure
and the requests that are not counted by outcome, finite sets as there are finitely many
connections. `DocumentIsComplete` needs no invariant: it is a case
analysis of `Handled` against the document, whatever the configuration.

**Announcer.** That nothing is sent twice rests on where a delivery may still be sent from:
a job that waits, a delivery that is ready for its app, the worker's list of outputs to
come, the output it is about to notify. `SendInv` says that nothing was sent for any of
these and that no response to an app is under way for them (`LedgerFresh`, `WorkerFresh`).
`Follows` is the order in which rows change: no delivery becomes ready and no job waits
again. Sweeps, refreshes, recoveries, reports and outcomes all keep to it (`SweepFollows`
to `StartFollows`), so such a step is `Quiet` and keeps the invariant (`QuietStep`,
`GoOn`); the exceptions, acceptance, a claim, a response, a notification and the step that
makes a delivery ready, are proved one by one. Nothing is assumed about how long a
transaction takes: this theorem also covers a row deleted in the worker's hands.

**Announcer: everything else.** The other properties hang together, so they share one
inductive invariant `Inv`, which TLC checked on the instances of `announce_delivery` and
`announce_lane` before it was proved. Its parts, beside `SendInv`:

| Part | Says | Needed because |
|---|---|---|
| `Kept` | a row in the hands of the worker or of a response exists and is young enough | otherwise `Job` is no row; rests on `RetentionAssumption` when the worker takes a job (`LiveIsKept`, `TakeInv`) and on `Reachable` afterwards |
| `ProcessInv` | types of the process, the worker, the clips; what stops with what | – |
| `SoundInv` | of a row whatever its history: its text is there while a delivery may need it, and all its deliveries wait only while the job waits or is being delivered (`Sound`) | `cleanup` and `refresh` read the statuses that others wrote |
| `CalmInv` | of a row that nobody has in hand: nothing is dispatching (`Calm`) | is `NothingStaysInLimbo`; a crash leaves rows that are not calm, and the recovery must make them so |
| `SentInv` | what a device has, the ledger calls sent, and a response belongs to a delivery that its device heard of | is what makes a *failed* true |
| `AllowedInv` | the job in hand and the responses under way are allowed by the configuration | subscribers are as old as the job, and only a restart changes the configuration |
| `HandInv` | how far `deliver` has got with each output of the job in hand | a sweep may have expired any of them since the worker looked (`Untouched`) |
| `LaneInv` | one job holds the lane, and none but the one in hand while one is in hand | `work` asks for a free lane long before the job gets into it |
| `ClipsInv` | what may be claimed has its file | any request's `cleanup` removes files |

`AnnouncerRowProofs` says, statement by statement of `service.py`, how a row may change:
`Drifts` (nothing settled changes, nobody gets into the lane, nothing waits again) and
`Rests` (it also stays calm). Sweeps, refreshes, reports, refusals and recoveries are such
changes in any order, so a step of anybody but the worker is a `RestingStep`, which keeps
`Inv` whatever the worker has in hand (`Aside`, `AsideStep`). A step of the worker either
keeps its job (`KeepsJob`), lets it go (`LetGo`) or takes one (`TakeInv`). Each lemma
about an action also proves `LedgerMoves`: every row of the next state was there before
and moved as `Moved` allows, or is new (`Young`); from this follow `SettledForGood` and,
with `LaneMoves`, that the lane is entered only from the worker's hands. `AdmissionHolds`
is an induction of its own on top of `Inv`: only `Accept` issues (`OnlyAcceptIssues`), at
most one job (`OneAccepted`, `OneMore`), and only after counting.

**Announcer: the promise.** That every delivery implements `OneShot` is proved over
`Told == Inv /\ ToldRows /\ ToldHand`: a status and what the device has agree (confirmed is
had, waiting or ready is unsent, a response under way is of a claim), and so will the
outcome that the worker has in hand once it is stored. `Fades` is what becomes of a delivery
that nobody gives away or reports on; sweeps, refreshes, recoveries, refusals and the
exception handler are all of this kind (`SweepWinds` to `FailWinds`). `Goes` lists what else
can happen to a status: a claim, a report, a complete fetch, the dispatch intent, a stored
outcome. `StepEffects` says of every action that each row it leaves went so, that new rows
wait, and that something leaves only when the ledger says that it may; from this follow the
invariant (`ToldStep`) and the refinement (`StepKeepsPromise`). `Goes` allows a recorded
outcome over a delivery that a sweep has expired: an expiry is final only once something was
sent, and `OneShot` says so.

**Only model-checked.** Liveness (`EventuallyIdle`, `Converges`,
`EverythingSettles`, `ShutdownEnds`, the catching up of `ImplementsFeed`) and everything
under `ENABLED` are out of the prover's reach, as is induction over data. What else the
passing runs check is proved.

## 6. Not modelled

* **AirPlay port patch.** The patch changes a few functions of shairport-sync; who calls
  them, under which cancellation points and locks, is in the third-party C that the
  repository does not contain. A model of SETUP's error paths would be of guessed code.
* **Firewall attestation and entrypoints.** Shell over nftables, container namespaces and
  a file: what could go wrong is in the host and in the orchestrator's start order,
  neither of which is in the repository.
* **Relay, Snapserver image, build, packaging, CI.** No state of their own.
* **Announcer: configuration, signal processing, voice fetching.** `main.py`'s checks are
  pure predicates, `synthesize.py` is a child that ends or is killed (its outcomes are the
  worker's), downloads are pure I/O. `BoundedServer`'s slots are a semaphore around each
  connection.
* **Within modelled components.** Wall clocks that step or jump; the `events_lagged`
  counter; what a full HTTP stack does to malformed heads. The hazards that no property
  covers say so in their notes.
