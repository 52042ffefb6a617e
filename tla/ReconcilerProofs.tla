-------------------------- MODULE ReconcilerProofs --------------------------
(***************************************************************************)
(* Theorems about the reconciliation worker, for any set of targets and    *)
(* routes and any bounds: its variables keep their types, the version it   *)
(* copied pins the intent it copied, and readiness is wrong only about a   *)
(* target overtaken by a decision or just caught by the pass under way.    *)
(***************************************************************************)
EXTENDS Reconciler, TLAPS

\* A pass that is still ok has found every target it is done with reconciled: if
\* one of them is not, a decision has reached it since.
PassInv ==
  /\ worker.pc \in Busy => worker.cur \notin worker.todo
  /\ worker.pc # "idle" /\ worker.ok =>
       \A t \in Target \ worker.todo :
         \/ observed[t] = desired[t]
         \/ t \in overtaken
         \/ worker.pc \in Busy /\ t = worker.cur

IInv == TypeOK /\ VersionPinsIntent /\ PassInv /\ ReadyUnlessOvertaken

\* Initially the worker is idle, and the authority not ready.
LEMMA InitIInv == Init => IInv
<1> SUFFICES ASSUME Init PROVE IInv
  OBVIOUS
<1> USE ConstantsAssumption
<1>1. worker \in WorkerState
  <2>1. AnyTarget \in Target
    BY DEF AnyTarget
  <2> QED BY <2>1 DEF Init, IdleWorker, WorkerState, Busy
<1>2. version \in [Target -> Nat] /\ desired \in [Target -> Route]
  BY DEF Init
<1>3. observed \in [Target -> Route \cup {NoRoute}] /\ overtaken \subseteq Target
  BY DEF Init
<1>4. late \in SUBSET (Target \X Route) /\ disturbances \in 0 .. MaxDisturbances
  BY DEF Init
<1>5. ready \in BOOLEAN /\ actual \in [Target -> Route]
  BY DEF Init
<1>6. TypeOK
  BY <1>1, <1>2, <1>3, <1>4, <1>5 DEF TypeOK
<1>7. VersionPinsIntent /\ PassInv /\ ReadyUnlessOvertaken
  BY DEF Init, IdleWorker, VersionPinsIntent, PassInv, ReadyUnlessOvertaken, Busy
<1> QED BY <1>6, <1>7 DEF IInv

\* What a failing or succeeding driver call leaves behind is well typed.
LEMMA CallTypes ==
  ASSUME TypeOK
  PROVE  /\ CallFails \/ CallSucceeds => disturbances' \in 0 .. MaxDisturbances
         /\ GiveUp => worker' \in WorkerState
<1> USE ConstantsAssumption DEF TypeOK
<1>1. CallFails \/ CallSucceeds => disturbances' \in 0 .. MaxDisturbances
  BY DEF CallFails, CallSucceeds
<1>2. GiveUp => worker' \in WorkerState
  BY ZenonT(60) DEF GiveUp, WorkerState, Busy
<1> QED BY <1>1, <1>2

\* Every step of the system keeps the variables in their types.
LEMMA NextTypeOK == TypeOK /\ [Next]_vars => TypeOK'
<1> SUFFICES ASSUME TypeOK, [Next]_vars PROVE TypeOK'
  OBVIOUS
<1> USE ConstantsAssumption DEF TypeOK
<1>1. ASSUME NEW t \in Target, Decide(t) \/ Renew(t) PROVE TypeOK'
  <2>1. version' \in [Target -> Nat]
    BY <1>1 DEF Decide, Renew
  <2>2. desired' \in [Target -> Route] /\ ready' \in BOOLEAN
    BY <1>1 DEF Decide, Renew
  <2> QED BY <1>1, <2>1, <2>2 DEF Decide, Renew
<1>2. ASSUME NEW t \in Target, ForeignChange(t) PROVE TypeOK'
  <2>1. actual' \in [Target -> Route]
    BY <1>2 DEF ForeignChange
  <2> QED BY <1>2, <2>1, CallTypes DEF ForeignChange, intentVars
<1>3. CASE StartPass
  <2>1. worker' \in WorkerState
    BY <1>3, ZenonT(60) DEF StartPass, WorkerState, Busy
  <2> QED BY <1>3, <2>1, CallTypes DEF StartPass, intentVars
<1>4. ASSUME NEW t \in Target, PickTarget(t) PROVE TypeOK'
  <2>1. worker' \in WorkerState
    BY <1>4 DEF PickTarget, WorkerState, Busy
  <2> QED BY <1>4, <2>1 DEF PickTarget, intentVars
<1>5. CASE Observe \/ Confirm
  <2>1. worker.cur \in Target /\ actual[worker.cur] \in Route
    BY DEF WorkerState
  <2>2. worker' \in WorkerState /\ disturbances' \in 0 .. MaxDisturbances
    BY <1>5, <2>1, CallTypes, ZenonT(60) DEF Observe, Confirm, ReadRoute, WorkerState, Busy
  <2> QED BY <1>5, <2>2 DEF Observe, Confirm, intentVars
<1>6. CASE SetRoute
  <2>1. worker.cur \in Target /\ worker.want \in Route
    BY DEF WorkerState
  <2>2. worker' \in WorkerState
    BY <1>6, CallTypes DEF SetRoute, WorkerState, Busy
  <2>3. actual' \in [Target -> Route]
    BY <1>6, <2>1 DEF SetRoute
  <2>4. late' \in SUBSET (Target \X Route)
    BY <1>6, <2>1 DEF SetRoute
  <2>5. disturbances' \in 0 .. MaxDisturbances
    BY <1>6, CallTypes DEF SetRoute
  <2> QED BY <1>6, <2>2, <2>3, <2>4, <2>5 DEF SetRoute, intentVars
<1>7. CASE Store
  <2>1. worker.cur \in Target /\ worker.seen \in Route
    BY DEF WorkerState
  <2>2. worker' \in WorkerState
    BY <1>7 DEF Store, MatchesIntent, Current, WorkerState, Busy
  <2>3. version' \in [Target -> Nat]
    BY <1>7, <2>1 DEF Store
  <2>4. observed' \in [Target -> Route \cup {NoRoute}]
    BY <1>7, <2>1 DEF Store
  <2>5. overtaken' \subseteq Target
    BY <1>7 DEF Store
  <2> QED BY <1>7, <2>2, <2>3, <2>4, <2>5 DEF Store
<1>8. CASE EndPass
  <2>1. worker' \in WorkerState /\ ready' \in BOOLEAN
    BY <1>8 DEF EndPass, WorkerState, Busy
  <2> QED BY <1>8, <2>1 DEF EndPass, intentVars
<1>9. CASE LateArrival
  <2>1. actual' \in [Target -> Route] /\ late' \in SUBSET (Target \X Route)
    BY <1>9 DEF LateArrival
  <2> QED BY <1>9, <2>1 DEF LateArrival, intentVars
<1>10. CASE Restart
  <2>1. worker' \in WorkerState
    <3>1. AnyTarget \in Target
      BY DEF AnyTarget
    <3> QED BY <1>10, <3>1 DEF Restart, IdleWorker, WorkerState, Busy
  <2>2. version' \in [Target -> Nat] /\ desired' \in [Target -> Route] /\ ready' \in BOOLEAN
    BY <1>10 DEF Restart
  <2>3. observed' \in [Target -> Route \cup {NoRoute}] /\ overtaken' \subseteq Target
    BY <1>10 DEF Restart
  <2>4. late' \in SUBSET (Target \X Route)
    <3>1. InFlight \in SUBSET (Target \X Route)
      BY DEF InFlight, WorkerState
    <3> QED BY <1>10, <3>1 DEF Restart
  <2> QED BY <1>10, <2>1, <2>2, <2>3, <2>4, CallTypes DEF Restart
<1>11. CASE UNCHANGED vars
  BY <1>11 DEF vars
<1> QED
  BY <1>1, <1>2, <1>3, <1>4, <1>5, <1>6, <1>7, <1>8, <1>9, <1>10, <1>11
  DEF Next, Worker

\* A decision or a renewal leaves the copied version behind, so the copied route
\* need not follow it.
LEMMA NextVersionPinsIntent ==
  TypeOK /\ VersionPinsIntent /\ [Next]_vars => VersionPinsIntent'
<1> SUFFICES ASSUME TypeOK, VersionPinsIntent, [Next]_vars PROVE VersionPinsIntent'
  OBVIOUS
<1> USE DEF TypeOK, WorkerState, Busy, VersionPinsIntent
<1>1. ASSUME NEW t \in Target, Decide(t) \/ Renew(t) PROVE VersionPinsIntent'
  BY <1>1 DEF Decide, Renew
<1>2. ASSUME NEW t \in Target, ForeignChange(t) PROVE VersionPinsIntent'
  BY <1>2 DEF ForeignChange, intentVars
<1>3. CASE StartPass
  BY <1>3 DEF StartPass, intentVars
<1>4. ASSUME NEW t \in Target, PickTarget(t) PROVE VersionPinsIntent'
  BY <1>4 DEF PickTarget, intentVars
<1>5. CASE Observe \/ Confirm
  BY <1>5 DEF Observe, Confirm, ReadRoute, GiveUp, intentVars
<1>6. CASE SetRoute
  BY <1>6 DEF SetRoute, GiveUp, intentVars
<1>7. CASE Store
  BY <1>7 DEF Store
<1>8. CASE EndPass
  BY <1>8 DEF EndPass, intentVars
<1>9. CASE LateArrival
  BY <1>9 DEF LateArrival, intentVars
<1>10. CASE Restart
  BY <1>10 DEF Restart, IdleWorker
<1>11. CASE UNCHANGED vars
  BY <1>11 DEF vars
<1> QED
  BY <1>1, <1>2, <1>3, <1>4, <1>5, <1>6, <1>7, <1>8, <1>9, <1>10, <1>11
  DEF Next, Worker

\* A failed or overtaken target makes the pass not ok for the rest of it; on the
\* others only a decision can part the observation from the intent.
LEMMA NextPassInv == TypeOK /\ PassInv /\ [Next]_vars => PassInv'
<1> SUFFICES ASSUME TypeOK, PassInv, [Next]_vars PROVE PassInv'
  OBVIOUS
<1> USE DEF TypeOK, WorkerState, Busy, PassInv
<1>1. ASSUME NEW t \in Target, Decide(t) \/ Renew(t) PROVE PassInv'
  BY <1>1 DEF Decide, Renew
<1>2. ASSUME NEW t \in Target, ForeignChange(t) PROVE PassInv'
  BY <1>2 DEF ForeignChange, intentVars
<1>3. CASE StartPass
  BY <1>3 DEF StartPass, intentVars
<1>4. ASSUME NEW t \in Target, PickTarget(t) PROVE PassInv'
  BY <1>4 DEF PickTarget, intentVars
<1>5. CASE Observe \/ Confirm
  BY <1>5 DEF Observe, Confirm, ReadRoute, GiveUp, intentVars
<1>6. CASE SetRoute
  BY <1>6 DEF SetRoute, GiveUp, intentVars
<1>7. CASE Store
  <2>1. worker' = [worker EXCEPT !.pc = "pick", !.ok = @ /\ MatchesIntent]
    BY <1>7 DEF Store
  <2>2. worker'.ok => worker.ok /\ MatchesIntent
    BY <2>1
  <2>3. worker.cur \in Target /\ worker'.pc = "pick" /\ worker'.todo = worker.todo
    BY <2>1
  <2>4. \A t \in Target \ {worker.cur} :
          observed'[t] = observed[t] /\ desired'[t] = desired[t] /\ (t \in overtaken => t \in overtaken')
    BY <1>7 DEF Store
  <2>5. MatchesIntent => observed'[worker.cur] = desired'[worker.cur]
    BY <1>7, <2>3 DEF Store, MatchesIntent
  <2>6. worker.pc = "store"
    BY <1>7 DEF Store
  <2> QED BY <2>2, <2>3, <2>4, <2>5, <2>6
<1>8. CASE EndPass
  BY <1>8 DEF EndPass, intentVars
<1>9. CASE LateArrival
  BY <1>9 DEF LateArrival, intentVars
<1>10. CASE Restart
  BY <1>10 DEF Restart, IdleWorker
<1>11. CASE UNCHANGED vars
  BY <1>11 DEF vars
<1> QED
  BY <1>1, <1>2, <1>3, <1>4, <1>5, <1>6, <1>7, <1>8, <1>9, <1>10, <1>11
  DEF Next, Worker

\* Readiness is raised only by a pass that is still ok when it ends, and an
\* observation that contradicts the intent takes the pass's ok away.
LEMMA NextReadyUnlessOvertaken ==
  TypeOK /\ PassInv /\ ReadyUnlessOvertaken /\ [Next]_vars => ReadyUnlessOvertaken'
<1> SUFFICES ASSUME TypeOK, PassInv, ReadyUnlessOvertaken, [Next]_vars
             PROVE  ReadyUnlessOvertaken'
  OBVIOUS
<1> USE DEF TypeOK, WorkerState, Busy, CaughtByPass, ReadyUnlessOvertaken
<1>1. ASSUME NEW t \in Target, Decide(t) \/ Renew(t) PROVE ReadyUnlessOvertaken'
  BY <1>1 DEF Decide, Renew
<1>2. ASSUME NEW t \in Target, ForeignChange(t) PROVE ReadyUnlessOvertaken'
  BY <1>2 DEF ForeignChange, intentVars
<1>3. CASE StartPass
  BY <1>3 DEF StartPass, intentVars
<1>4. ASSUME NEW t \in Target, PickTarget(t) PROVE ReadyUnlessOvertaken'
  BY <1>4 DEF PickTarget, intentVars
<1>5. CASE Observe \/ Confirm
  BY <1>5 DEF Observe, Confirm, ReadRoute, GiveUp, intentVars
<1>6. CASE SetRoute
  BY <1>6 DEF SetRoute, GiveUp, intentVars
<1>7. CASE Store
  <2>1. worker' = [worker EXCEPT !.pc = "pick", !.ok = @ /\ MatchesIntent]
    BY <1>7 DEF Store
  <2>2. worker'.ok <=> worker.ok /\ MatchesIntent
    BY <2>1
  <2>3. /\ worker.cur \in Target /\ worker'.pc = "pick" /\ worker'.todo = worker.todo
        /\ worker.pc = "store" /\ ready' = ready
    BY <1>7, <2>1 DEF Store
  <2>4. \A t \in Target \ {worker.cur} :
          observed'[t] = observed[t] /\ desired'[t] = desired[t] /\ (t \in overtaken => t \in overtaken')
    BY <1>7 DEF Store
  <2>5. MatchesIntent => observed'[worker.cur] = desired'[worker.cur]
    BY <1>7, <2>3 DEF Store, MatchesIntent
  <2>6. worker.cur \notin worker.todo
    BY <2>3 DEF PassInv
  <2> QED BY <2>2, <2>3, <2>4, <2>5, <2>6
<1>8. CASE EndPass
  <2>1. worker.pc = "pick" /\ worker.todo = {} /\ (ready' => worker.ok)
    BY <1>8, Zenon DEF EndPass
  <2>2. observed' = observed /\ desired' = desired /\ overtaken' = overtaken
    BY <1>8 DEF EndPass, intentVars
  <2>3. worker.ok => \A t \in Target : observed[t] = desired[t] \/ t \in overtaken
    BY <2>1 DEF PassInv
  <2> QED BY <2>1, <2>2, <2>3
<1>9. CASE LateArrival
  BY <1>9 DEF LateArrival, intentVars
<1>10. CASE Restart
  BY <1>10 DEF Restart
<1>11. CASE UNCHANGED vars
  BY <1>11 DEF vars
<1> QED
  BY <1>1, <1>2, <1>3, <1>4, <1>5, <1>6, <1>7, <1>8, <1>9, <1>10, <1>11
  DEF Next, Worker

\* The four parts hold of every reachable state.
LEMMA Invariance == Spec => []IInv
<1>1. IInv /\ [Next]_vars => IInv'
  BY NextTypeOK, NextVersionPinsIntent, NextPassInv, NextReadyUnlessOvertaken DEF IInv
<1> QED BY InitIInv, <1>1, PTL DEF Spec

\* Type correctness of the worker and of everything it shares.
THEOREM TypeCorrect == Spec => []TypeOK
<1>1. IInv => TypeOK
  BY DEF IInv
<1> QED BY <1>1, Invariance, PTL

\* A version that is still the copied one vouches for the copied route: what Store
\* records under that check answers the intent of the moment.
THEOREM VersionPins == Spec => []VersionPinsIntent
<1>1. IInv => VersionPinsIntent
  BY DEF IInv
<1> QED BY <1>1, Invariance, PTL

\* A ready authority is wrong only about a target that a decision has reached since
\* a pass found it reconciled, or that the pass under way has just caught and
\* will report.
THEOREM ReadinessOvertakenOnly == Spec => []ReadyUnlessOvertaken
<1>1. IInv => ReadyUnlessOvertaken
  BY DEF IInv
<1> QED BY <1>1, Invariance, PTL

-----------------------------------------------------------------------------

\* One step of the system is one step of every target's intent, or none.
LEMMA StepsAreIntentSteps ==
  TypeOK /\ [Next]_vars => \A t \in Target : [Intent(t)!Next]_(Intent(t)!vars)
<1> SUFFICES ASSUME TypeOK, [Next]_vars, NEW u \in Target
             PROVE  [Intent(u)!Next]_(Intent(u)!vars)
  OBVIOUS
<1> USE DEF Intent!Next, Intent!vars, Intent!Decide, Intent!Touch, Intent!Verdict, Intent!Restart
<1>1. ASSUME NEW t \in Target, Decide(t) PROVE [Intent(u)!Next]_(Intent(u)!vars)
  <2>1. CASE t = u
    BY <1>1, <2>1 DEF Decide, TypeOK
  <2>2. CASE t # u
    BY <1>1, <2>2 DEF Decide, TypeOK
  <2> QED BY <2>1, <2>2
<1>2. ASSUME NEW t \in Target, Renew(t) PROVE [Intent(u)!Next]_(Intent(u)!vars)
  BY <1>2 DEF Renew, TypeOK
<1>3. CASE Store
  <2>1. worker.cur \in Target
    BY DEF TypeOK, WorkerState
  <2> QED BY <1>3, <2>1 DEF Store, TypeOK
<1>4. CASE EndPass
  <2>1. ready' \in BOOLEAN
    BY <1>4 DEF EndPass, TypeOK, WorkerState
  <2> QED BY <1>4, <2>1 DEF EndPass, intentVars
<1>5. CASE Restart
  BY <1>5 DEF Restart
<1>6. ASSUME NEW t \in Target,
             ForeignChange(t) \/ StartPass \/ PickTarget(t) \/ Observe \/ SetRoute
               \/ Confirm \/ LateArrival \/ UNCHANGED vars
      PROVE  UNCHANGED <<version, desired, ready>>
  BY <1>6 DEF ForeignChange, StartPass, PickTarget, Observe, SetRoute, Confirm,
              LateArrival, intentVars, vars
<1>7. ASSUME UNCHANGED <<version, desired, ready>>
      PROVE  [Intent(u)!Next]_(Intent(u)!vars)
  BY <1>7
<1> QED BY <1>1, <1>2, <1>3, <1>4, <1>5, <1>6, <1>7, ConstantsAssumption DEF Next, Worker

\* Every target the worker drives is a versioned intent.
THEOREM IntentImplemented == Spec => ImplementsIntent
<1>1. Init => \A t \in Target : Intent(t)!Init
  BY DEF Init, Intent!Init
<1>2. TypeOK /\ [Next]_vars => [\A t \in Target : [Intent(t)!Next]_(Intent(t)!vars)]_vars
  BY StepsAreIntentSteps
<1> QED BY <1>1, <1>2, TypeCorrect, PTL DEF Spec, ImplementsIntent
=============================================================================
