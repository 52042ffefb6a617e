----------------------------- MODULE Reconciler -----------------------------
(***************************************************************************)
(* The reconciliation worker (route-authority/src/lib.rs, tick and         *)
(* reconcile_target) driving Snapcast through the JSON-RPC driver          *)
(* (route-authority/src/snapcast.rs) while decisions are committed on the  *)
(* targets.  The worker holds no lock across a driver call, so every call  *)
(* and every lock section is a step of its own.  The targets appear by     *)
(* their TargetIntent, which LeaseAuthority implements.  Snapcast itself   *)
(* is external: a route per group, calls that fail, calls whose effect     *)
(* arrives after the client gave up, and routes changed by others.         *)
(***************************************************************************)
EXTENDS Integers, FiniteSets

CONSTANTS
  Target, Route, IdleRoute,
  NoRoute,               \* Option::None of an observation
  MaxVersion,            \* bound: a target at this version decides no more
  MaxDisturbances        \* bound: failed calls, foreign changes and restarts

ASSUME ConstantsAssumption ==
  /\ Target # {}
  /\ IdleRoute \in Route
  /\ NoRoute \notin Route
  /\ MaxVersion \in Nat /\ MaxDisturbances \in Nat

VARIABLES
  version, desired, observed,   \* TargetState fields, by target
  ready,                        \* Authority.ready
  worker,                       \* the worker's place and local variables
  actual,                       \* the route of each target's Snapcast group
  late,                         \* SetStream calls given up on, still under way
  disturbances,
  overtaken                     \* history: targets a decision reached since a
                                \* pass last found them reconciled

intentVars == <<version, desired>>
vars == <<version, desired, observed, ready, worker, actual, late, disturbances, overtaken>>

Busy == {"observe", "set", "confirm", "store"}
WorkerState == [pc : {"idle", "pick"} \cup Busy, ok : BOOLEAN, todo : SUBSET Target,
                cur : Target, ver : Nat, want : Route, seen : Route]

TypeOK ==
  /\ version \in [Target -> Nat]
  /\ desired \in [Target -> Route]
  /\ observed \in [Target -> Route \cup {NoRoute}]
  /\ ready \in BOOLEAN
  /\ worker \in WorkerState
  /\ actual \in [Target -> Route]
  /\ late \in SUBSET (Target \X Route)
  /\ disturbances \in 0 .. MaxDisturbances
  /\ overtaken \subseteq Target

AnyTarget == CHOOSE t \in Target : TRUE
IdleWorker == [pc |-> "idle", ok |-> FALSE, todo |-> {}, cur |-> AnyTarget,
               ver |-> 0, want |-> IdleRoute, seen |-> IdleRoute]

Init ==
  /\ version = [t \in Target |-> 0]
  /\ desired = [t \in Target |-> IdleRoute]
  /\ observed = [t \in Target |-> NoRoute]
  /\ ready = FALSE
  /\ worker = IdleWorker
  /\ actual \in [Target -> Route]
  /\ late = {}
  /\ disturbances = 0
  /\ overtaken = {}

-----------------------------------------------------------------------------
(* Decisions on the targets, committed under a target's state mutex *)

\* Mutation: the decision does not move the version.
DecideSilently(t) ==
  /\ version[t] < MaxVersion
  /\ \E r \in Route : desired' = [desired EXCEPT ![t] = r]
  /\ ready' = FALSE
  /\ overtaken' = overtaken \cup {t}
  /\ UNCHANGED <<version, observed, worker, actual, late, disturbances>>

\* Mutation: the decision leaves readiness to the worker.
DecideStayingReady(t) ==
  /\ version[t] < MaxVersion
  /\ version' = [version EXCEPT ![t] = @ + 1]
  /\ \E r \in Route : desired' = [desired EXCEPT ![t] = r]
  /\ overtaken' = overtaken \cup {t}
  /\ UNCHANGED <<observed, ready, worker, actual, late, disturbances>>

\* Acquire, release, presence, or an expiry found by any of them.
Decide(t) ==
  /\ version[t] < MaxVersion
  /\ version' = [version EXCEPT ![t] = @ + 1]
  /\ \E r \in Route : desired' = [desired EXCEPT ![t] = r]
  /\ ready' = FALSE
  /\ overtaken' = overtaken \cup {t}
  /\ UNCHANGED <<observed, worker, actual, late, disturbances>>

\* A renewal: a new version of the same intent, readiness untouched.
Renew(t) ==
  /\ version[t] < MaxVersion
  /\ version' = [version EXCEPT ![t] = @ + 1]
  /\ UNCHANGED <<desired, observed, ready, worker, actual, late, disturbances, overtaken>>

-----------------------------------------------------------------------------
(* The worker *)

\* A driver call fails, within the budget of disturbances.
CallFails ==
  /\ disturbances < MaxDisturbances
  /\ disturbances' = disturbances + 1

CallSucceeds == UNCHANGED disturbances

\* reconcile_target returns an error: the pass goes on, not ok.
GiveUp == worker' = [worker EXCEPT !.pc = "pick", !.ok = FALSE]

\* tick starts with a probe.
StartPass ==
  /\ worker.pc = "idle"
  /\ \/ /\ CallSucceeds
        /\ worker' = [worker EXCEPT !.pc = "pick", !.ok = TRUE, !.todo = Target]
     \/ /\ CallFails
        /\ worker' = [worker EXCEPT !.pc = "pick", !.ok = FALSE, !.todo = Target]
  /\ UNCHANGED <<intentVars, observed, ready, actual, late, overtaken>>

\* Mutation: the observation is copied in place of the intent.
PickTargetObserved(t) ==
  /\ worker.pc = "pick" /\ t \in worker.todo
  /\ worker' = [worker EXCEPT !.pc = "observe", !.todo = @ \ {t}, !.cur = t,
                              !.ver = version[t], !.want = observed[t]]
  /\ UNCHANGED <<intentVars, observed, ready, actual, late, disturbances, overtaken>>

\* The first lock section: version and intent are copied.  (A due expiry that
\* advance commits here is a Decide just before.)
PickTarget(t) ==
  /\ worker.pc = "pick" /\ t \in worker.todo
  /\ worker' = [worker EXCEPT !.pc = "observe", !.todo = @ \ {t}, !.cur = t,
                              !.ver = version[t], !.want = desired[t]]
  /\ UNCHANGED <<intentVars, observed, ready, actual, late, disturbances, overtaken>>

ReadRoute(next) ==
  \/ /\ CallSucceeds
     /\ worker' = [worker EXCEPT !.pc = next, !.seen = actual[worker.cur]]
  \/ CallFails /\ GiveUp

\* Mutation: a drifted route is observed and never set.
ObserveOnly ==
  /\ worker.pc = "observe"
  /\ ReadRoute("store")
  /\ UNCHANGED <<intentVars, observed, ready, actual, late, overtaken>>

Observe ==
  /\ worker.pc = "observe"
  /\ ReadRoute(IF actual[worker.cur] = worker.want THEN "store" ELSE "set")
  /\ UNCHANGED <<intentVars, observed, ready, actual, late, overtaken>>

\* set_route reads the route and, unless it is the wanted one, sends SetStream.
\* A call that fails may have had no effect, its effect, or have it later.
SetRoute ==
  /\ worker.pc = "set"
  /\ \/ /\ CallSucceeds
        /\ worker' = [worker EXCEPT !.pc = "confirm"]
        /\ actual' = [actual EXCEPT ![worker.cur] = worker.want]
        /\ UNCHANGED late
     \/ /\ CallFails /\ GiveUp
        /\ \/ UNCHANGED <<actual, late>>
           \/ /\ actual' = [actual EXCEPT ![worker.cur] = worker.want]
              /\ UNCHANGED late
           \/ /\ late' = late \cup {<<worker.cur, worker.want>>}
              /\ UNCHANGED actual
  /\ UNCHANGED <<intentVars, observed, ready, overtaken>>

Confirm ==
  /\ worker.pc = "confirm"
  /\ ReadRoute("store")
  /\ UNCHANGED <<intentVars, observed, ready, actual, late, overtaken>>

\* The second lock section stores the observation only if the version it copied
\* is still current.
Current == version[worker.cur] = worker.ver

\* Mutation: the verdict compares the observation with the copied intent.
MatchesCopy == worker.seen = worker.want
MatchesIntent == Current /\ worker.seen = desired[worker.cur]

Store ==
  LET t == worker.cur IN
  /\ worker.pc = "store"
  /\ observed' = IF Current THEN [observed EXCEPT ![t] = worker.seen] ELSE observed
  /\ version' = IF Current /\ observed[t] # worker.seen
                THEN [version EXCEPT ![t] = @ + 1] ELSE version
  /\ worker' = [worker EXCEPT !.pc = "pick", !.ok = @ /\ MatchesIntent]
  /\ overtaken' = IF MatchesIntent THEN overtaken \ {t} ELSE overtaken
  /\ UNCHANGED <<desired, ready, actual, late, disturbances>>

\* Mutation: a pass that was not ok leaves readiness as it was.
EndPassRaising ==
  /\ worker.pc = "pick" /\ worker.todo = {}
  /\ ready' = (ready \/ worker.ok)
  /\ worker' = [worker EXCEPT !.pc = "idle"]
  /\ UNCHANGED <<intentVars, observed, actual, late, disturbances, overtaken>>

\* The pass ends: its verdict replaces readiness, whatever happened since.
EndPass ==
  /\ worker.pc = "pick" /\ worker.todo = {}
  /\ ready' = worker.ok
  /\ worker' = [worker EXCEPT !.pc = "idle"]
  /\ UNCHANGED <<intentVars, observed, actual, late, disturbances, overtaken>>

Worker == StartPass \/ (\E t \in Target : PickTarget(t)) \/ Observe \/ SetRoute
          \/ Confirm \/ Store \/ EndPass

-----------------------------------------------------------------------------
(* Snapcast and the process *)

\* A SetStream the worker gave up on takes effect.
LateArrival ==
  \E m \in late :
    /\ late' = late \ {m}
    /\ actual' = [actual EXCEPT ![m[1]] = m[2]]
    /\ UNCHANGED <<intentVars, observed, ready, worker, disturbances, overtaken>>

\* Another Snapcast client, or a Snapcast restart, changes a route.
ForeignChange(t) ==
  /\ CallFails
  /\ \E r \in Route : actual' = [actual EXCEPT ![t] = r]
  /\ UNCHANGED <<intentVars, observed, ready, worker, late, overtaken>>

\* The SetStream that the worker may have sent.
InFlight == IF worker.pc = "set" THEN {<<worker.cur, worker.want>>} ELSE {}

\* The process ends, by a crash or by a shutdown that aborts the worker wherever
\* it is, and starts again.  Nothing of the authority survives; Snapcast keeps its
\* routes, and a request cut in the middle may still take effect.
Restart ==
  /\ CallFails
  /\ \E cut \in SUBSET InFlight : late' = late \cup cut
  /\ version' = [t \in Target |-> 0]
  /\ desired' = [t \in Target |-> IdleRoute]
  /\ observed' = [t \in Target |-> NoRoute]
  /\ ready' = FALSE
  /\ worker' = IdleWorker
  /\ overtaken' = {}
  /\ UNCHANGED actual

Next ==
  \/ \E t \in Target : Decide(t) \/ Renew(t) \/ ForeignChange(t)
  \/ Worker \/ LateArrival \/ Restart

\* The worker's loop never stops while the process lives: the interval ticks
\* and every driver call ends within its timeout.
Fairness == WF_vars(Worker)

Spec == Init /\ [][Next]_vars
FairSpec == Spec /\ Fairness

-----------------------------------------------------------------------------
(* Properties *)

\* While the version the worker copied is still current, so is the route it
\* copied: the check of the version alone tells that what was sent and observed
\* without a lock answers the present intent.  (SetStream is sent without the
\* check; one that comes too late is healed by a later pass, see Converges.)
VersionPinsIntent ==
  worker.pc \in Busy =>
    /\ worker.ver <= version[worker.cur]
    /\ worker.ver = version[worker.cur] => worker.want = desired[worker.cur]

\* The pass under way has looked at the target and will end not ready.
CaughtByPass(t) ==
  /\ worker.pc # "idle" /\ ~worker.ok
  /\ t \notin worker.todo
  /\ worker.pc \in Busy => t # worker.cur

\* While ready, a target whose stored observation is not its intent is one that a
\* decision (a renewal is none) reached since a pass last found it reconciled, or
\* one that the pass under way has just caught, so that readiness ends with it.
ReadyUnlessOvertaken ==
  ready => \A t \in Target :
    observed[t] = desired[t] \/ t \in overtaken \/ CaughtByPass(t)

\* What the worker relies on holds of every target.
Intent(t) == INSTANCE TargetIntent WITH version <- version[t], desired <- desired[t]
ImplementsIntent ==
  /\ \A t \in Target : Intent(t)!Init
  /\ [][\A t \in Target : [Intent(t)!Next]_(Intent(t)!vars)]_vars

Reconciled == \A t \in Target : observed[t] = desired[t]
Settled == ready /\ Reconciled /\ \A t \in Target : actual[t] = desired[t]

\* Once decisions and disturbances stop, Snapcast carries the intent, the
\* authority has observed it, and says so, for good; calls that arrive late
\* and foreign changes are healed.
Converges == <>[]Settled

\* route-authority/README.md:57-58: readiness is false until every target is
\* observed reconciled.
ReadyMeansReconciled == ready => Reconciled
=============================================================================
