----------------------- MODULE AuthorityServiceProofs ----------------------
(***************************************************************************)
(* Theorems about the route authority's handlers and process, for any      *)
(* configurations, tokens, names and connections: types, the separation of *)
(* credentials, the one voice of a target and of a source, and the sums of *)
(* the metrics.  What a configuration must satisfy for them is Valid, and  *)
(* that a process which serves has such a configuration is part of the     *)
(* invariant.                                                              *)
(***************************************************************************)
EXTENDS AuthorityService, FiniteSetTheorems, TLAPS

\* Whatever was done was done by a process with a valid configuration, with a
\* token whose entry in it allows just that.
Allowed(e) ==
  /\ e.right = "lease" => e.token \in AdapterTokens(config)
  /\ e.right = "presence" =>
       \E p \in Entries(config.reporters) : p.token = e.token /\ e.target \in p.targets
  /\ e.right = "read" => e.token \in ReaderTokens(config) \cup AdminTokens(config)
  /\ e.right = "admin" => e.token \in AdminTokens(config)

EffectsInv == effects # {} => Valid(config) /\ \A e \in effects : Allowed(e)

IInv == TypeOK /\ EffectsInv

\* Initially nothing runs and nothing was done.
LEMMA InitIInv == Init => IInv
BY ConstantsAssumption DEF Init, IInv, TypeOK, EffectsInv, Proc, Stage, Deed

\* The tokens of a configuration are among Token and the blank one.
LEMMA ConfigTokens ==
  ASSUME TypeOK
  PROVE  /\ AdapterTokens(config) \subseteq Secret /\ ReporterTokens(config) \subseteq Secret
         /\ ReaderTokens(config) \subseteq Secret /\ AdminTokens(config) \subseteq Secret
<1>1. config \in Config
  BY ConstantsAssumption DEF TypeOK
<1>2. /\ config.adapters \in Seq(AdapterSecret) /\ config.reporters \in Seq(ReporterSecret)
      /\ config.readers \in Seq(Secret) /\ config.admins \in Seq(Secret)
  BY <1>1 DEF Config
<1>3. \A S, s : s \in Seq(S) => Entries(s) \subseteq S
  BY DEF Entries
<1>4. Entries(config.adapters) \subseteq AdapterSecret /\ Entries(config.reporters) \subseteq ReporterSecret
  BY <1>2, <1>3
<1>5. AdapterTokens(config) \subseteq Secret /\ ReporterTokens(config) \subseteq Secret
  BY <1>4 DEF AdapterTokens, ReporterTokens, AdapterSecret, ReporterSecret
<1>6. ReaderTokens(config) \subseteq Secret /\ AdminTokens(config) \subseteq Secret
  BY <1>2, <1>3 DEF ReaderTokens, AdminTokens
<1> QED BY <1>5, <1>6

\* What a request that succeeded did was permitted.
LEMMA EffectIsAllowed ==
  ASSUME TypeOK, NEW q \in Request, NEW status \in Answers(q), NEW e \in Effect(q, status)
  PROVE  e \in Deed /\ Allowed(e)
<1>1. Success(status) /\ q.op \in Operation \ PublicOps
  BY DEF Effect
<1>2. q.op \in LeaseOps \cup ReadOps \cup {"presence", "metrics"}
  BY <1>1 DEF Operation
<1>3. Answers(q) = Handled(q)
  <2>1. q.op # "unknown path" /\ q.op # "wrong method" /\ q.op # "readyz"
    BY <1>2 DEF LeaseOps, ReadOps
  <2> QED BY <2>1 DEF Answers
<1>4. Permitted(q) /\ InPolicy(q)
  <2>1. ~Success(401) /\ ~Success(403) /\ ~Success(400)
    BY DEF Success
  <2> QED BY <1>1, <1>3, <2>1 DEF Handled, Denial
<1>5. e = [token |-> q.token, right |-> Right(q), target |-> IF HasBody(q) THEN q.target ELSE Blank]
  BY DEF Effect
<1>6. q.token \in Token \cup {NoToken} /\ q.target \in Text
  BY ConstantsAssumption DEF Request
<1>7. CASE q.op \in LeaseOps
  <2>1. Right(q) = "lease"
    BY <1>7 DEF Right, LeaseOps
  <2>2. q.token \in AdapterTokens(config)
    BY <1>4, <1>7 DEF Permitted, Adapters, AdapterTokens, LeaseOps, PublicOps, ReadOps
  <2> QED BY <1>5, <1>6, <2>1, <2>2, ConfigTokens, ConstantsAssumption
          DEF Deed, Allowed, Secret, String
<1>8. CASE q.op = "presence"
  <2>1. Right(q) = "presence" /\ HasBody(q)
    BY <1>8 DEF Right, HasBody, LeaseOps
  <2>2. \E p \in Entries(config.reporters) : p.token = q.token /\ q.target \in p.targets
    BY <1>4, <1>8 DEF InPolicy, Reporters
  <2>3. q.token \in ReporterTokens(config)
    BY <2>2 DEF ReporterTokens
  <2> QED BY <1>5, <1>6, <2>1, <2>2, <2>3, ConfigTokens, ConstantsAssumption
          DEF Deed, Allowed, Secret, String
<1>9. CASE q.op = "metrics"
  <2>1. Right(q) = "admin"
    BY <1>9 DEF Right, LeaseOps
  <2>2. q.token \in AdminTokens(config)
    BY <1>4, <1>9 DEF Permitted, LeaseOps, PublicOps, ReadOps
  <2> QED BY <1>5, <1>6, <2>1, <2>2, ConfigTokens, ConstantsAssumption
          DEF Deed, Allowed, Secret, String
<1>10. CASE q.op \in ReadOps
  <2>1. Right(q) = "read"
    BY <1>10 DEF Right, LeaseOps, ReadOps
  <2>2. q.token \in ReaderTokens(config) \cup AdminTokens(config)
    BY <1>4, <1>10 DEF Permitted, LeaseOps, PublicOps, ReadOps
  <2> QED BY <1>5, <1>6, <2>1, <2>2, ConfigTokens, ConstantsAssumption
          DEF Deed, Allowed, Secret, String
<1> QED BY <1>2, <1>7, <1>8, <1>9, <1>10

\* Counting an answer adds one to the counter of its class.
LEMMA TallyAddsOne ==
  ASSUME TypeOK, NEW c \in Conn, conn[c] \in Answered
  PROVE  /\ Tally(c) \in [requests : Nat, errors : Nat, ok : Nat, client : Nat, server : Nat]
         /\ Tally(c).requests = metrics.requests /\ Tally(c).errors = metrics.errors
         /\ Tally(c).ok + Tally(c).client + Tally(c).server
              = metrics.ok + metrics.client + metrics.server + 1
         /\ Tally(c).client + Tally(c).server = metrics.client + metrics.server
              + (IF conn[c] \in {"client", "server"} THEN 1 ELSE 0)
<1>1. metrics \in [requests : Nat, errors : Nat, ok : Nat, client : Nat, server : Nat]
  BY DEF TypeOK
<1>2. conn[c] \in {"ok", "ok stream", "ok deaf"} \/ conn[c] = "client" \/ conn[c] = "server"
  BY DEF Answered
<1>3. CASE conn[c] \in {"ok", "ok stream", "ok deaf"}
  <2>1. conn[c] # "client" /\ conn[c] # "server"
    BY <1>3
  <2>2. Tally(c) = [metrics EXCEPT !.ok = @ + 1]
    BY <2>1, Zenon DEF Tally
  <2>3. /\ Tally(c) \in [requests : Nat, errors : Nat, ok : Nat, client : Nat, server : Nat]
        /\ Tally(c).requests = metrics.requests /\ Tally(c).errors = metrics.errors
        /\ Tally(c).ok = metrics.ok + 1
        /\ Tally(c).client = metrics.client /\ Tally(c).server = metrics.server
    BY <1>1, <2>2
  <2>4. /\ metrics.ok \in Nat /\ metrics.client \in Nat /\ metrics.server \in Nat
        /\ conn[c] \notin {"client", "server"}
    BY <1>1, <2>1
  <2> QED BY <2>3, <2>4
<1>4. CASE conn[c] = "client"
  <2>1. Tally(c) = [metrics EXCEPT !.client = @ + 1]
    BY <1>4, Zenon DEF Tally
  <2> QED BY <1>1, <1>4, <2>1
<1>5. CASE conn[c] = "server"
  <2>1. Tally(c) = [metrics EXCEPT !.server = @ + 1]
    <3>1. conn[c] # "client"
      BY <1>5
    <3> QED BY <1>5, <3>1, Zenon DEF Tally
  <2> QED BY <1>1, <1>5, <2>1
<1> QED BY <1>2, <1>3, <1>4, <1>5

\* A handled request waits to be counted.
LEMMA HandledIsAnswered ==
  ASSUME NEW q, NEW status
  PROVE  Outcome(q, status) \in Answered
<1>1. Stream \in Answered /\ {"client", "server", "ok"} \subseteq Answered
  BY DEF Stream, Answered
<1>2. Outcome(q, status) \in {"client", "server", "ok", Stream}
  BY Zenon DEF Outcome
<1> QED BY <1>1, <1>2

\* Of the counted answers just the failures have a second counter to raise.
LEMMA CountedOnce ==
  ASSUME NEW c, conn[c] \in Answered
  PROVE  /\ AfterCount(c) \in {"failing", "stream", "deaf", "idle", "closed"}
         /\ AfterCount(c) = "failing" <=> conn[c] \in {"client", "server"}
<1>1. CASE conn[c] \in {"client", "server"}
  <2>1. AfterCount(c) = "failing"
    BY <1>1, Zenon DEF AfterCount
  <2> QED BY <1>1, <2>1
<1>2. CASE conn[c] \notin {"client", "server"}
  <2>1. AfterCount(c) \in {"stream", "deaf", AfterAnswer}
    BY <1>2, Zenon DEF AfterCount
  <2>2. AfterAnswer \in {"idle", "closed"}
    BY DEF AfterAnswer
  <2> QED BY <1>2, <2>1, <2>2
<1> QED BY <1>1, <1>2

\* Every step keeps the variables in their types.
LEMMA NextTypeOK == TypeOK /\ [Next]_vars => TypeOK'
<1> SUFFICES ASSUME TypeOK, [Next]_vars PROVE TypeOK'
  OBVIOUS
<1> USE DEF TypeOK
<1>1. CASE Start
  BY <1>1 DEF Start, Proc
<1>2. CASE Signal \/ StopAccepting \/ AbortWorker
  BY <1>2 DEF Signal, StopAccepting, AbortWorker, Proc
<1>3. CASE Drained \/ Deadline
  BY <1>3 DEF Drained, Deadline, Proc, Stage
<1>4. CASE WorkerStep
  BY <1>4 DEF WorkerStep
<1>5. ASSUME NEW c \in Conn, Connect(c) PROVE TypeOK'
  BY <1>5 DEF Connect, Accepting, Move, Stage
<1>6. ASSUME NEW c \in Conn, Begin(c) \/ CloseIdle(c) \/ Disconnect(c) PROVE TypeOK'
  BY <1>6 DEF Begin, CloseIdle, Disconnect, Move, Stage
<1>7. ASSUME NEW c \in Conn, Arrive(c) PROVE TypeOK'
  BY <1>7 DEF Arrive, Move, Stage
<1>8. ASSUME NEW c \in Conn, EndStream(c) PROVE TypeOK'
  BY <1>8 DEF EndStream, Move, AfterAnswer, Stage
<1>9. ASSUME NEW c \in Conn, Handle(c) PROVE TypeOK'
  <2> PICK q \in Request : \E status \in Answers(q) :
        /\ effects' = effects \cup Effect(q, status)
        /\ Move(c, Outcome(q, status))
    BY <1>9 DEF Handle
  <2> PICK status \in Answers(q) :
        /\ effects' = effects \cup Effect(q, status)
        /\ Move(c, Outcome(q, status))
    OBVIOUS
  <2>1. effects' \subseteq Deed
    BY EffectIsAllowed
  <2>2. Outcome(q, status) \in Stage
    BY HandledIsAnswered DEF Stage
  <2>3. conn' \in [Conn -> Stage]
    BY <2>2 DEF Move
  <2>4. conn[c] = "routed"
    BY <1>9 DEF Handle
  <2> QED BY <1>9, <2>1, <2>3, <2>4 DEF Handle
<1>10. ASSUME NEW c \in Conn, CountClass(c) PROVE TypeOK'
  <2>1. conn[c] \in Answered /\ metrics' = Tally(c)
    BY <1>10 DEF CountClass
  <2>2. metrics' \in [requests : Nat, errors : Nat, ok : Nat, client : Nat, server : Nat]
    BY <2>1, TallyAddsOne
  <2>3. conn' \in [Conn -> Stage]
    BY <1>10, <2>1, CountedOnce DEF CountClass, Move, Stage
  <2>4. conn[c] # "closed"
    BY <2>1 DEF Answered
  <2> QED BY <1>10, <2>2, <2>3, <2>4 DEF CountClass
<1>11. ASSUME NEW c \in Conn, CountError(c) PROVE TypeOK'
  BY <1>11 DEF CountError, Move, AfterAnswer, Stage
<1>12. CASE UNCHANGED vars
  BY <1>12 DEF vars
<1> QED BY <1>1, <1>2, <1>3, <1>4, <1>5, <1>6, <1>7, <1>8, <1>9, <1>10, <1>11, <1>12 DEF Next, Main

\* Only a handler does anything, and it runs under a valid configuration.
LEMMA NextEffects == IInv /\ [Next]_vars => EffectsInv'
<1> SUFFICES ASSUME IInv, [Next]_vars PROVE EffectsInv'
  OBVIOUS
<1>1. ASSUME NEW c \in Conn, Handle(c) PROVE EffectsInv'
  <2> PICK q \in Request : \E status \in Answers(q) : effects' = effects \cup Effect(q, status)
    BY <1>1 DEF Handle
  <2> PICK status \in Answers(q) : effects' = effects \cup Effect(q, status)
    OBVIOUS
  <2>1. Valid(config) /\ config' = config
    BY <1>1 DEF Handle, IInv, TypeOK
  <2>2. \A e \in effects' : Allowed(e)
    BY EffectIsAllowed DEF IInv, EffectsInv
  <2> QED BY <2>1, <2>2 DEF EffectsInv, Allowed
<1>2. CASE UNCHANGED <<config, effects>>
  BY <1>2 DEF IInv, EffectsInv, Allowed
<1> QED BY <1>1, <1>2 DEF Next, Start, Signal, Main, StopAccepting, AbortWorker, Drained,
           Deadline, WorkerStep, Connect, Begin, Arrive, CountClass, CountError, EndStream, CloseIdle,
           Disconnect, vars

\* The invariant is inductive.
LEMMA Inductive == Spec => []IInv
<1>1. IInv /\ [Next]_vars => IInv'
  BY NextTypeOK, NextEffects DEF IInv
<1> QED BY InitIInv, <1>1, PTL DEF Spec

\* Type correctness: in particular nothing but a valid configuration is served.
THEOREM TypeCorrect == Spec => []TypeOK
BY Inductive, PTL DEF IInv

\* No credential ever serves two roles: disjoint tokens in the configuration, and
\* every deed with a token of its role, make it so for all time.
THEOREM CredentialsSeparate == Spec => []RolesSeparate
<1>1. IInv => RolesSeparate
  <2> SUFFICES ASSUME IInv, NEW e \in effects, NEW f \in effects
               PROVE  /\ e.token = f.token => e.right = f.right \/ {e.right, f.right} = {"read", "admin"}
                      /\ e.right = "admin" => e.token \notin ReaderTokens(config)
    BY DEF RolesSeparate
  <2>1. Allowed(e) /\ Allowed(f) /\ TokensUnique(config)
    BY DEF IInv, EffectsInv, Valid, ValidTokens
  <2>2. {e.right, f.right} \subseteq {"lease", "presence", "read", "admin"}
    BY DEF IInv, TypeOK, Deed
  <2>3. \A d \in {e, f} : d.right = "presence" => d.token \in ReporterTokens(config)
    BY <2>1 DEF Allowed, ReporterTokens
  <2> QED BY <2>1, <2>2, <2>3 DEF Allowed, TokensUnique
<1> QED BY Inductive, <1>1, PTL

\* Whoever reports a target is its one reporter, and whoever acts for a source is
\* its one adapter.
THEOREM OneVoiceEach == Spec => []OneVoice
<1>1. IInv => OneVoice
  <2> SUFFICES ASSUME IInv, NEW e \in effects, NEW f \in effects
               PROVE  /\ e.right = "presence" /\ f.right = "presence" /\ e.target = f.target
                           => e.token = f.token
                      /\ e.right = "lease" /\ f.right = "lease"
                            /\ SourcesOf(e.token) \cap SourcesOf(f.token) # {}
                           => e.token = f.token
    BY DEF OneVoice
  <2>1. Allowed(e) /\ Allowed(f) /\ Valid(config)
    BY DEF IInv, EffectsInv
  <2>2. ASSUME e.right = "presence", f.right = "presence", e.target = f.target
        PROVE  e.token = f.token
    <3>1. PICK i \in DOMAIN config.reporters :
            config.reporters[i].token = e.token /\ e.target \in config.reporters[i].targets
      BY <2>1, <2>2 DEF Allowed, Entries
    <3>2. PICK j \in DOMAIN config.reporters :
            config.reporters[j].token = f.token /\ e.target \in config.reporters[j].targets
      BY <2>1, <2>2 DEF Allowed, Entries
    <3>3. e.target \in Names(config)
      BY <2>1, <3>1 DEF Valid, ValidReporters, Entries
    <3>4. Cardinality(Reporting(config, e.target)) = 1
      BY <2>1, <3>3 DEF Valid, OneReporter
    <3>5. {i, j} \subseteq Reporting(config, e.target)
      BY <3>1, <3>2 DEF Reporting
    <3>6. IsFiniteSet(Reporting(config, e.target))
      <4>1. config.reporters \in Seq(ReporterSecret)
        BY ConstantsAssumption DEF IInv, TypeOK, Config
      <4>2. DOMAIN config.reporters = 1 .. Len(config.reporters) /\ Len(config.reporters) \in Nat
        BY <4>1
      <4>3. IsFiniteSet(DOMAIN config.reporters)
        BY <4>2, FS_Interval
      <4> QED BY <4>3, FS_Subset DEF Reporting
    <3>7. \E x : Reporting(config, e.target) = {x}
      BY <3>4, <3>6, FS_Singleton
    <3> QED BY <3>1, <3>2, <3>5, <3>7
  <2>3. ASSUME e.right = "lease", f.right = "lease",
               SourcesOf(e.token) \cap SourcesOf(f.token) # {}
        PROVE  e.token = f.token
    <3>1. PICK i \in DOMAIN config.adapters, j \in DOMAIN config.adapters :
            /\ config.adapters[i].token = e.token /\ config.adapters[j].token = f.token
            /\ config.adapters[i].source = config.adapters[j].source
      BY <2>3 DEF SourcesOf, Entries
    <3>2. i = j
      BY <2>1, <3>1 DEF Valid, ValidAdapters, Differ, SourceOf
    <3> QED BY <3>1, <3>2
  <2> QED BY <2>2, <2>3
<1> QED BY Inductive, <1>1, PTL

\* A connection that leaves a set of stages, or enters it, changes the number of
\* connections in it by one.
LEMMA StageCount ==
  ASSUME TypeOK, NEW c \in Conn, NEW stage, Move(c, stage), NEW stages
  PROVE  LET before == {x \in Conn : conn[x] \in stages}
             after == {x \in Conn : conn'[x] \in stages}
         IN  /\ Cardinality(before) \in Nat /\ Cardinality(after) \in Nat
             /\ conn[c] \in stages /\ stage \notin stages => Cardinality(after) = Cardinality(before) - 1
             /\ conn[c] \notin stages /\ stage \in stages => Cardinality(after) = Cardinality(before) + 1
             /\ (conn[c] \in stages <=> stage \in stages) => after = before
<1> DEFINE before == {x \in Conn : conn[x] \in stages}
           after == {x \in Conn : conn'[x] \in stages}
<1>1. IsFiniteSet(before) /\ IsFiniteSet(after)
  BY ConstantsAssumption, FS_Subset
<1>2. Cardinality(before) \in Nat /\ Cardinality(after) \in Nat
  BY <1>1, FS_CardinalityType
<1>3. conn'[c] = stage /\ \A x \in Conn \ {c} : conn'[x] = conn[x]
  BY DEF Move, TypeOK
<1>4. ASSUME conn[c] \in stages, stage \notin stages
      PROVE  Cardinality(after) = Cardinality(before) - 1
  <2>1. after = before \ {c} /\ c \in before
    BY <1>3, <1>4
  <2> QED BY <1>1, <2>1, FS_RemoveElement
<1>5. ASSUME conn[c] \notin stages, stage \in stages
      PROVE  Cardinality(after) = Cardinality(before) + 1
  <2>1. after = before \cup {c} /\ c \notin before
    BY <1>3, <1>5
  <2> QED BY <1>1, <2>1, FS_AddElement
<1>6. (conn[c] \in stages <=> stage \in stages) => after = before
  BY <1>3
<1> QED BY <1>2, <1>4, <1>5, <1>6

\* While the process runs, the errors lag behind the failure classes by the handlers
\* between the two counters and by nothing else, and no answer is counted that was
\* not a request before.
THEOREM MetricsAgree == Spec => []MetricsAddUp
<1> DEFINE Waiting == {"routed"} \cup Answered
<1>1. Init => MetricsAddUp
  <2> SUFFICES ASSUME Init PROVE MetricsAddUp
    OBVIOUS
  <2>1. HalfCounted = {} /\ Uncounted = {}
    BY DEF Init, HalfCounted, Uncounted, Answered
  <2> QED BY <2>1, FS_EmptySet DEF Init, MetricsAddUp
<1>2. TypeOK /\ MetricsAddUp /\ [Next]_vars => MetricsAddUp'
  <2> SUFFICES ASSUME TypeOK, MetricsAddUp, [Next]_vars, proc' # "exited"
               PROVE  MetricsAddUp'
    BY DEF MetricsAddUp
  <2> USE DEF HalfCounted, Uncounted
  <2>1. metrics \in [requests : Nat, errors : Nat, ok : Nat, client : Nat, server : Nat]
    BY DEF TypeOK
  <2>2. HalfCounted = {x \in Conn : conn[x] \in {"failing"}}
        /\ HalfCounted' = {x \in Conn : conn'[x] \in {"failing"}}
        /\ Uncounted = {x \in Conn : conn[x] \in Waiting}
        /\ Uncounted' = {x \in Conn : conn'[x] \in Waiting}
    OBVIOUS
  <2> HIDE DEF HalfCounted, Uncounted
  <2>3. Cardinality(HalfCounted) \in Nat /\ Cardinality(Uncounted) \in Nat
    BY <2>2, ConstantsAssumption, FS_Subset, FS_CardinalityType
  <2>4. ASSUME NEW c \in Conn, NEW stage, Move(c, stage)
        PROVE  /\ Cardinality(HalfCounted') \in Nat /\ Cardinality(Uncounted') \in Nat
               /\ conn[c] = "failing" /\ stage # "failing"
                    => Cardinality(HalfCounted') = Cardinality(HalfCounted) - 1
               /\ conn[c] # "failing" /\ stage = "failing"
                    => Cardinality(HalfCounted') = Cardinality(HalfCounted) + 1
               /\ (conn[c] = "failing" <=> stage = "failing") => HalfCounted' = HalfCounted
               /\ conn[c] \in Waiting /\ stage \notin Waiting
                    => Cardinality(Uncounted') = Cardinality(Uncounted) - 1
               /\ conn[c] \notin Waiting /\ stage \in Waiting
                    => Cardinality(Uncounted') = Cardinality(Uncounted) + 1
               /\ (conn[c] \in Waiting <=> stage \in Waiting) => Uncounted' = Uncounted
    <3> HIDE DEF Waiting
    <3>1. /\ Cardinality(HalfCounted') \in Nat
          /\ conn[c] \in {"failing"} /\ stage \notin {"failing"}
               => Cardinality(HalfCounted') = Cardinality(HalfCounted) - 1
          /\ conn[c] \notin {"failing"} /\ stage \in {"failing"}
               => Cardinality(HalfCounted') = Cardinality(HalfCounted) + 1
          /\ (conn[c] \in {"failing"} <=> stage \in {"failing"}) => HalfCounted' = HalfCounted
      BY <2>2, <2>4, StageCount, Zenon
    <3>2. /\ Cardinality(Uncounted') \in Nat
          /\ conn[c] \in Waiting /\ stage \notin Waiting
               => Cardinality(Uncounted') = Cardinality(Uncounted) - 1
          /\ conn[c] \notin Waiting /\ stage \in Waiting
               => Cardinality(Uncounted') = Cardinality(Uncounted) + 1
          /\ (conn[c] \in Waiting <=> stage \in Waiting) => Uncounted' = Uncounted
      BY <2>2, <2>4, StageCount, Zenon
    <3> QED BY <3>1, <3>2
  <2>5. ASSUME NEW c \in Conn, Arrive(c) PROVE MetricsAddUp'
    <3>1. Move(c, "routed") /\ conn[c] = "head" /\ proc # "exited"
      BY <2>5 DEF Arrive, TypeOK
    <3>2. Cardinality(Uncounted') = Cardinality(Uncounted) + 1 /\ HalfCounted' = HalfCounted
      <4>1. "routed" \in Waiting /\ conn[c] \notin Waiting /\ conn[c] # "failing" /\ "routed" # "failing"
        BY <3>1 DEF Answered
      <4> QED BY <2>4, <3>1, <4>1, Zenon
    <3>3. metrics' = [metrics EXCEPT !.requests = @ + 1]
      BY <2>5 DEF Arrive
    <3> QED BY <2>1, <2>3, <3>1, <3>2, <3>3 DEF MetricsAddUp
  <2>6. ASSUME NEW c \in Conn, Handle(c) PROVE MetricsAddUp'
    <3>1. PICK stage \in Answered : Move(c, stage)
      BY <2>6, HandledIsAnswered, Zenon DEF Handle
    <3>2. conn[c] = "routed" /\ metrics' = metrics /\ proc # "exited"
      BY <2>6 DEF Handle, TypeOK
    <3>3. Uncounted' = Uncounted /\ HalfCounted' = HalfCounted
      BY <2>4, <3>1, <3>2 DEF Answered
    <3> QED BY <3>2, <3>3 DEF MetricsAddUp
  <2>7. ASSUME NEW c \in Conn, CountClass(c) PROVE MetricsAddUp'
    <3>1. conn[c] \in Answered /\ metrics' = Tally(c)
      BY <2>7 DEF CountClass
    <3>2. proc # "exited"
      BY <3>1 DEF Answered, TypeOK
    <3>3. PICK stage : /\ Move(c, stage) /\ stage \notin Waiting
                       /\ stage = "failing" <=> conn[c] \in {"client", "server"}
      <4>1. Move(c, AfterCount(c))
        BY <2>7, Zenon DEF CountClass
      <4>2. /\ AfterCount(c) \in {"failing", "stream", "deaf", "idle", "closed"}
            /\ AfterCount(c) = "failing" <=> conn[c] \in {"client", "server"}
        BY <3>1, CountedOnce, Zenon
      <4>3. AfterCount(c) \notin Waiting
        BY <4>2 DEF Answered
      <4> QED BY <4>1, <4>2, <4>3, Zenon
    <3>4. Cardinality(Uncounted') = Cardinality(Uncounted) - 1
      BY <2>4, <3>1, <3>3
    <3>5. Cardinality(HalfCounted')
            = Cardinality(HalfCounted) + (IF conn[c] \in {"client", "server"} THEN 1 ELSE 0)
      <4>1. conn[c] # "failing"
        BY <3>1 DEF Answered
      <4> QED BY <2>3, <2>4, <3>3, <4>1
    <3>6. /\ metrics' \in [requests : Nat, errors : Nat, ok : Nat, client : Nat, server : Nat]
          /\ metrics'.requests = metrics.requests /\ metrics'.errors = metrics.errors
          /\ metrics'.ok + metrics'.client + metrics'.server
               = metrics.ok + metrics.client + metrics.server + 1
          /\ metrics'.client + metrics'.server = metrics.client + metrics.server
               + (IF conn[c] \in {"client", "server"} THEN 1 ELSE 0)
      BY <3>1, TallyAddsOne
    <3>7. /\ metrics.errors + Cardinality(HalfCounted) = metrics.client + metrics.server
          /\ metrics.ok + metrics.client + metrics.server + Cardinality(Uncounted) <= metrics.requests
      BY <3>2 DEF MetricsAddUp
    <3>8. metrics'.errors + Cardinality(HalfCounted') = metrics'.client + metrics'.server
      BY <2>1, <2>3, <3>5, <3>6, <3>7
    <3>9. metrics'.ok + metrics'.client + metrics'.server + Cardinality(Uncounted') <= metrics'.requests
      BY <2>1, <2>3, <3>4, <3>6, <3>7
    <3> QED BY <3>8, <3>9 DEF MetricsAddUp
  <2>8. ASSUME NEW c \in Conn, CountError(c) PROVE MetricsAddUp'
    <3>1. conn[c] = "failing" /\ metrics' = [metrics EXCEPT !.errors = @ + 1] /\ proc # "exited"
      BY <2>8 DEF CountError, TypeOK
    <3>2. PICK stage \in {"idle", "closed"} : Move(c, stage)
      BY <2>8 DEF CountError, AfterAnswer
    <3>3. Cardinality(HalfCounted') = Cardinality(HalfCounted) - 1 /\ Uncounted' = Uncounted
      BY <2>4, <3>1, <3>2 DEF Answered
    <3> QED BY <2>1, <2>3, <3>1, <3>3 DEF MetricsAddUp
  <2>9. ASSUME NEW c \in Conn,
               Connect(c) \/ Begin(c) \/ EndStream(c) \/ CloseIdle(c) \/ Disconnect(c)
        PROVE  MetricsAddUp'
    <3>1. /\ metrics' = metrics /\ proc # "exited"
          /\ conn[c] \notin {"failing"} \cup Answered
          /\ \E stage \in {"idle", "head", "closed"} : Move(c, stage)
      BY <2>9 DEF Connect, Begin, EndStream, CloseIdle, Disconnect, AfterAnswer, Accepting,
                  Answered, TypeOK
    <3>2. PICK stage \in {"idle", "head", "closed"} : Move(c, stage)
      BY <3>1
    <3>3. stage \notin Waiting /\ stage # "failing"
      BY DEF Answered
    <3>4. HalfCounted' = HalfCounted
      BY <2>4, <3>1, <3>2, <3>3
    <3>5. Cardinality(Uncounted') <= Cardinality(Uncounted) /\ Cardinality(Uncounted') \in Nat
      BY <2>3, <2>4, <3>2, <3>3
    <3> QED BY <2>1, <2>3, <3>1, <3>4, <3>5 DEF MetricsAddUp
  <2>10. ASSUME UNCHANGED <<conn, metrics>>, proc # "exited" PROVE MetricsAddUp'
    <3>1. HalfCounted' = HalfCounted /\ Uncounted' = Uncounted
      BY <2>2, <2>10
    <3> QED BY <2>10, <3>1 DEF MetricsAddUp
  <2>11. CASE Start \/ Signal \/ StopAccepting \/ AbortWorker \/ WorkerStep
    BY <2>10, <2>11 DEF Start, Signal, StopAccepting, AbortWorker, WorkerStep
  <2>12. CASE Drained \/ Deadline
    BY <2>12 DEF Drained, Deadline
  <2>13. CASE UNCHANGED vars
    BY <2>10, <2>13 DEF vars
  <2> QED BY <2>5, <2>6, <2>7, <2>8, <2>9, <2>11, <2>12, <2>13 DEF Next, Main
<1>3. Spec => []TypeOK
  BY Inductive, PTL DEF IInv
<1> QED BY <1>1, <1>2, <1>3, PTL DEF Spec

-----------------------------------------------------------------------------
(* The answers *)

\* The fixed answers aside, a handler answers.
LEMMA HandlerAnswers ==
  ASSUME NEW q, q.op \in Operation
  PROVE  Answers(q) = IF q.op = "readyz" THEN {200, 503} ELSE Handled(q)
<1>1. q.op # "unknown path" /\ q.op # "wrong method"
  BY DEF Operation, LeaseOps, ReadOps, PublicOps
<1> QED BY <1>1 DEF Answers

\* What the handlers, the rejected bodies and the errors of Authority become as HTTP
\* status is among what openapi_document lists for the path.
THEOREM DocumentIsComplete == Spec => []AnswersAreDocumented
<1>1. AnswersAreDocumented
  <2> SUFFICES ASSUME NEW q \in Request, q.op \in Operation
               PROVE  Answers(q) \subseteq Documented(q.op)
    BY DEF AnswersAreDocumented
  <2>1. \/ Answers(q) = {200, 503} /\ q.op = "readyz"
        \/ Answers(q) = Handled(q) /\ q.op # "readyz"
    BY HandlerAnswers
  <2>2. CASE q.op \in LeaseOps
    <3>1. Answers(q) \subseteq {401, 400, 403} \cup AuthorityAnswers(q)
      BY <2>1, <2>2 DEF Handled, Denial, LeaseOps
    <3>2. CASE q.op = "acquire"
      BY <3>1, <3>2 DEF AuthorityAnswers, Documented
    <3>3. CASE q.op \in {"renew", "release"}
      BY <3>1, <3>3 DEF AuthorityAnswers, Documented
    <3> QED BY <2>2, <3>2, <3>3 DEF LeaseOps
  <2>3. CASE q.op = "presence"
    <3>1. AuthorityAnswers(q) = {200}
      BY <2>3 DEF AuthorityAnswers
    <3>2. Answers(q) \subseteq {401, 400, 403, 200}
      BY <2>1, <2>3, <3>1 DEF Handled, Denial
    <3> QED BY <2>3, <3>2 DEF Documented
  <2>4. CASE q.op \in ReadOps \cup {"metrics"}
    <3>1. ~HasBody(q) /\ InPolicy(q)
      BY <2>4 DEF HasBody, InPolicy, LeaseOps, ReadOps
    <3>2. Answers(q) \subseteq {401, 403} \cup AuthorityAnswers(q)
      BY <2>1, <2>4, <3>1 DEF Handled, Denial, ReadOps
    <3>3. CASE q.op = "target"
      BY <3>2, <3>3 DEF AuthorityAnswers, Documented
    <3>4. CASE q.op \in {"state", "events", "openapi", "metrics"}
      <4>1. AuthorityAnswers(q) = {200}
        BY <3>4 DEF AuthorityAnswers
      <4> QED BY <3>2, <3>4, <4>1 DEF Documented
    <3> QED BY <2>4, <3>3, <3>4 DEF ReadOps
  <2>5. CASE q.op \in PublicOps
    <3>1. CASE q.op = "healthz"
      <4>1. Permitted(q) /\ ~HasBody(q) /\ InPolicy(q) /\ AuthorityAnswers(q) = {200}
        BY <3>1 DEF Permitted, PublicOps, HasBody, InPolicy, LeaseOps, AuthorityAnswers
      <4> QED BY <2>1, <3>1, <4>1 DEF Handled, Documented
    <3>2. CASE q.op = "readyz"
      BY <2>1, <3>2 DEF Documented
    <3> QED BY <2>5, <3>1, <3>2 DEF PublicOps
  <2> QED BY <2>2, <2>3, <2>4, <2>5 DEF Operation
<1> QED BY <1>1, PTL
=============================================================================
