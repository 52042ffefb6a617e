-------------------------- MODULE AuthorityService -------------------------
(***************************************************************************)
(* The route authority as a process: main (route-authority/src/main.rs)    *)
(* validates its configuration, starts the worker and the server, and ends *)
(* them at a signal; the handlers (route-authority/src/api.rs) decide by   *)
(* the bearer token who may do what, pass the request on and count the     *)
(* answers.  What Authority answers to a request that gets through is      *)
(* LeaseAuthority's matter: here it is any answer the method can give.     *)
(*                                                                         *)
(* A handler takes effect in one step; what may keep it waiting is its     *)
(* peer, which sends the head and the body of a request in its own time.   *)
(* Its answer is counted afterwards, one atomic counter at a time, while   *)
(* other connections' handlers count theirs.                               *)
(***************************************************************************)
EXTENDS Configuration

CONSTANTS
  Configs,       \* the configurations the process may find
  Conn,
  NoToken,       \* a request without a usable bearer token
  Asked,         \* the names requests give as their target
  MaxRequests    \* bound: further requests do not arrive

ASSUME ConstantsAssumption ==
  /\ Configs \subseteq Config
  /\ NoToken \notin Token \cup {Blank}
  /\ Asked \subseteq Text
  /\ IsFiniteSet(Conn)
  /\ MaxRequests \in Nat

VARIABLES
  config,    \* the configuration the process found
  proc,      \* where main is
  worker,    \* the reconciliation task
  conn,      \* the stage each connection is in
  metrics,   \* Metrics, without events_lagged
  effects    \* history: what was done with which token

vars == <<config, proc, worker, conn, metrics, effects>>

LeaseOps == {"acquire", "renew", "release"}
ReadOps == {"state", "target", "events", "openapi"}
PublicOps == {"healthz", "readyz"}
Operation == LeaseOps \cup ReadOps \cup PublicOps \cup {"presence", "metrics"}
NoOperation == {"unknown path", "wrong method"}

\* body: the request body parses as what the operation expects.
Request ==
  [op : Operation \cup NoOperation, token : Token \cup {NoToken}, target : Asked, body : BOOLEAN]

\* What a token was used for, and on which target if it was for one.
Deed ==
  [token : Token, right : {"lease", "presence", "read", "admin"}, target : String]

\* What observe_http still has to count: the answer's class; for an events stream
\* also whether it subscribed in time for the shutdown.
Answered == {"ok", "ok stream", "ok deaf", "client", "server"}

\* idle: between requests.  head: part of a head has arrived.  routed: the
\* request is counted, its body or its handler awaited.  failing: the class of a
\* failure is counted, the error is not yet.  stream: it carries events and
\* listens to the shutdown.  deaf: a stream that subscribed too late.
Stage == {"closed", "idle", "head", "routed", "failing", "stream", "deaf"} \cup Answered

\* boot, then serving; told: the shutdown is broadcast; stopping: nothing is
\* accepted any more; draining: the worker is aborted, the deadline runs.
Proc == {"boot", "refused", "serving", "told", "stopping", "draining", "exited"}

TypeOK ==
  /\ config \in Configs
  /\ proc \in Proc
  /\ worker \in {"none", "waiting", "passing", "stopped"}
  /\ conn \in [Conn -> Stage]
  /\ metrics \in [requests : Nat, errors : Nat, ok : Nat, client : Nat, server : Nat]
  /\ effects \subseteq Deed
  /\ proc \notin {"boot", "refused"} => Valid(config)
  /\ (\E c \in Conn : conn[c] # "closed") =>
       proc \in {"serving", "told", "stopping", "draining"}

Init ==
  /\ config \in Configs
  /\ proc = "boot"
  /\ worker = "none"
  /\ conn = [c \in Conn |-> "closed"]
  /\ metrics = [requests |-> 0, errors |-> 0, ok |-> 0, client |-> 0, server |-> 0]
  /\ effects = {}

-----------------------------------------------------------------------------
(* Authorization *)

Adapters(q) == {p \in Entries(config.adapters) : p.token = q.token}
Reporters(q) == {p \in Entries(config.reporters) : p.token = q.token}

\* The token's role allows the operation.
Permitted(q) ==
  \/ q.op \in PublicOps
  \/ q.op \in LeaseOps /\ Adapters(q) # {}
  \/ q.op = "presence" /\ Reporters(q) # {}
  \/ q.op \in ReadOps /\ q.token \in ReaderTokens(config) \cup AdminTokens(config)
  \/ q.op = "metrics" /\ q.token \in AdminTokens(config)

\* Mutation: the access list of the reporter is not asked.
InPolicyOfAdapters(q) ==
  q.op \in LeaseOps => \E p \in Adapters(q) : q.target \in p.targets

\* The policy behind the token names the target.
InPolicy(q) ==
  /\ q.op \in LeaseOps => \E p \in Adapters(q) : q.target \in p.targets
  /\ q.op = "presence" => \E p \in Reporters(q) : q.target \in p.targets

HasBody(q) == q.op \in LeaseOps \cup {"presence"}

\* bearer and the role checks: an adapter or reporter the service does not know
\* is unauthorized, a known or unknown token that may not read is forbidden.
Denial(q) ==
  IF q.token = NoToken \/ q.op \in LeaseOps \cup {"presence"} THEN 401 ELSE 403

\* What Authority's methods return once the policy names the target, by the
\* status their result or error becomes.
AuthorityAnswers(q) ==
  CASE q.op = "acquire" -> {201, 400, 403, 409, 503}
    [] q.op \in {"renew", "release"} -> {200, 400, 403, 404, 409}
    [] q.op = "target" -> IF q.target \in Names(config) THEN {200} ELSE {404}
    [] OTHER -> {200}

\* Mutation: a rejected body is answered as the framework answers it.
HandledRawly(q) ==
  IF ~Permitted(q) THEN {Denial(q)}
  ELSE IF HasBody(q) /\ ~q.body THEN {400, 413, 415, 422}
  ELSE IF ~InPolicy(q) THEN {403}
  ELSE AuthorityAnswers(q)

\* The order of a handler: the token, the body, the policy, the request itself.
Handled(q) ==
  IF ~Permitted(q) THEN {Denial(q)}
  ELSE IF HasBody(q) /\ ~q.body THEN {400}
  ELSE IF ~InPolicy(q) THEN {403}
  ELSE AuthorityAnswers(q)

Answers(q) ==
  CASE q.op = "unknown path" -> {404}
    [] q.op = "wrong method" -> {405}
    [] q.op = "readyz" -> {200, 503}
    [] OTHER -> Handled(q)

Right(q) ==
  CASE q.op \in LeaseOps -> "lease"
    [] q.op = "presence" -> "presence"
    [] q.op = "metrics" -> "admin"
    [] OTHER -> "read"

Success(status) == status \div 100 = 2

\* What a request that succeeded did, and with which token.
Effect(q, status) ==
  IF Success(status) /\ q.op \in Operation \ PublicOps
  THEN {[token |-> q.token, right |-> Right(q), target |-> IF HasBody(q) THEN q.target ELSE Blank]}
  ELSE {}

-----------------------------------------------------------------------------
(* The process *)

\* Mutation: the policy is not validated.
StartUnvalidated ==
  /\ proc = "boot"
  /\ proc' = "serving"
  /\ worker' = "waiting"
  /\ UNCHANGED <<config, conn, metrics, effects>>

\* main up to the bound listener.  A configuration that does not pass, or an
\* address in use, ends the process before it serves.
Start ==
  /\ proc = "boot"
  /\ \/ /\ Valid(config) /\ Constructible(config)
        /\ proc' = "serving"
        /\ worker' = "waiting"
     \/ proc' = "refused" /\ UNCHANGED worker
  /\ UNCHANGED <<config, conn, metrics, effects>>

\* The signal: streams and worker are told first.
Signal ==
  /\ proc = "serving"
  /\ proc' = "told"
  /\ UNCHANGED <<config, worker, conn, metrics, effects>>

StopAccepting ==
  /\ proc = "told"
  /\ proc' = "stopping"
  /\ UNCHANGED <<config, worker, conn, metrics, effects>>

AbortWorker ==
  /\ proc = "stopping"
  /\ proc' = "draining"
  /\ worker' = "stopped"
  /\ UNCHANGED <<config, conn, metrics, effects>>

\* The server ends when its last connection does.
Drained ==
  /\ proc = "draining"
  /\ \A c \in Conn : conn[c] = "closed"
  /\ proc' = "exited"
  /\ UNCHANGED <<config, worker, conn, metrics, effects>>

\* Mutation: main waits for the server without a deadline.
DeadlineWaiting ==
  /\ proc = "draining"
  /\ \A c \in Conn : conn[c] \in {"closed", "idle"}
  /\ proc' = "exited"
  /\ conn' = [c \in Conn |-> "closed"]
  /\ UNCHANGED <<config, worker, metrics, effects>>

\* Three seconds have passed: the server and every connection are cut.
Deadline ==
  /\ proc = "draining"
  /\ proc' = "exited"
  /\ conn' = [c \in Conn |-> "closed"]
  /\ UNCHANGED <<config, worker, metrics, effects>>

\* The worker's loop: a tick is due; its pass ends; between passes it hears the
\* shutdown.
WorkerStep ==
  /\ \/ worker = "waiting" /\ worker' = "passing"
     \/ worker = "passing" /\ worker' = "waiting"
     \/ worker = "waiting" /\ proc \in {"told", "stopping"} /\ worker' = "stopped"
  /\ UNCHANGED <<config, proc, conn, metrics, effects>>

-----------------------------------------------------------------------------
(* The connections *)

Accepting == proc \in {"serving", "told"}
Running == proc \in {"serving", "told", "stopping", "draining"}

Move(c, stage) == conn' = [conn EXCEPT ![c] = stage]

Connect(c) ==
  /\ Accepting
  /\ conn[c] = "closed"
  /\ Move(c, "idle")
  /\ UNCHANGED <<config, proc, worker, metrics, effects>>

\* The peer begins to send a request.
Begin(c) ==
  /\ conn[c] = "idle"
  /\ Move(c, "head")
  /\ UNCHANGED <<config, proc, worker, metrics, effects>>

\* observe_http counts a request before it is handled.
Arrive(c) ==
  /\ conn[c] = "head"
  /\ metrics.requests < MaxRequests
  /\ Move(c, "routed")
  /\ metrics' = [metrics EXCEPT !.requests = @ + 1]
  /\ UNCHANGED <<config, proc, worker, effects>>

\* A draining connection takes no further request.
AfterAnswer == IF Accepting THEN "idle" ELSE "closed"

\* An events handler that runs after the broadcast subscribes too late for it.
Stream == IF proc = "serving" THEN "ok stream" ELSE "ok deaf"

\* What the answer is counted as.
Outcome(q, status) ==
  CASE status \div 100 = 4 -> "client"
    [] status \div 100 = 5 -> "server"
    [] q.op = "events" /\ Success(status) -> Stream
    [] OTHER -> "ok"

Handle(c) ==
  /\ conn[c] = "routed"
  /\ \E q \in Request : \E status \in Answers(q) :
       /\ effects' = effects \cup Effect(q, status)
       /\ Move(c, Outcome(q, status))
  /\ UNCHANGED <<config, proc, worker, metrics>>

\* One more answer of the class that the connection's answer has.
Tally(c) ==
  CASE conn[c] = "client" -> [metrics EXCEPT !.client = @ + 1]
    [] conn[c] = "server" -> [metrics EXCEPT !.server = @ + 1]
    [] OTHER -> [metrics EXCEPT !.ok = @ + 1]

\* Mutation: a server error is not counted among the errors.
AfterCountOfServer(c) ==
  CASE conn[c] = "client" -> "failing"
    [] conn[c] = "ok stream" -> "stream"
    [] conn[c] = "ok deaf" -> "deaf"
    [] OTHER -> AfterAnswer

\* Of a failure it is the first of two counters.
AfterCount(c) ==
  CASE conn[c] \in {"client", "server"} -> "failing"
    [] conn[c] = "ok stream" -> "stream"
    [] conn[c] = "ok deaf" -> "deaf"
    [] OTHER -> AfterAnswer

\* The counter of the class.
CountClass(c) ==
  /\ conn[c] \in Answered
  /\ metrics' = Tally(c)
  /\ Move(c, AfterCount(c))
  /\ UNCHANGED <<config, proc, worker, effects>>

\* The counter of the errors, an atomic of its own.
CountError(c) ==
  /\ conn[c] = "failing"
  /\ metrics' = [metrics EXCEPT !.errors = @ + 1]
  /\ Move(c, AfterAnswer)
  /\ UNCHANGED <<config, proc, worker, effects>>

\* A stream that listens ends with the broadcast.
EndStream(c) ==
  /\ conn[c] = "stream"
  /\ proc # "serving"
  /\ Move(c, AfterAnswer)
  /\ UNCHANGED <<config, proc, worker, metrics, effects>>

CloseIdle(c) ==
  /\ conn[c] = "idle"
  /\ proc \in {"stopping", "draining"}
  /\ Move(c, "closed")
  /\ UNCHANGED <<config, proc, worker, metrics, effects>>

\* The peer goes away; a request it had under way is dropped unanswered.  Between
\* the answer and the last counter nothing is awaited, so nothing is dropped there.
Disconnect(c) ==
  /\ conn[c] \notin {"closed", "failing"} \cup Answered
  /\ Move(c, "closed")
  /\ UNCHANGED <<config, proc, worker, metrics, effects>>

-----------------------------------------------------------------------------
Main == StopAccepting \/ AbortWorker \/ Drained \/ Deadline

Next ==
  \/ Start \/ Signal \/ Main \/ WorkerStep
  \/ \E c \in Conn :
       \/ Connect(c) \/ Begin(c) \/ Arrive(c) \/ Handle(c)
       \/ CountClass(c) \/ CountError(c)
       \/ EndStream(c) \/ CloseIdle(c) \/ Disconnect(c)

Spec == Init /\ [][Next]_vars

\* main awaits nothing but the server and a timer.  Nothing is assumed of peers.
FairSpec == Spec /\ WF_vars(Main)

-----------------------------------------------------------------------------
(* Properties *)

\* Credentials stay apart (README.md:5-9): a token that ever moved a lease never
\* reported presence, and neither ever read a state or the metrics; who read the
\* metrics is no reader, although an administrator may read the states too.  So it
\* is whatever configuration the process found and however the requests came.
RolesSeparate ==
  \A e, f \in effects :
    /\ e.token = f.token => e.right = f.right \/ {e.right, f.right} = {"read", "admin"}
    /\ e.right = "admin" => e.token \notin ReaderTokens(config)

\* The presence of a target has one voice, and so has a source, by which
\* Authority recognises the owner of a lease: no two tokens ever reported one
\* target or acted for one source.
SourcesOf(token) == {p.source : p \in {a \in Entries(config.adapters) : a.token = token}}

OneVoice ==
  \A e, f \in effects :
    /\ e.right = "presence" /\ f.right = "presence" /\ e.target = f.target => e.token = f.token
    /\ e.right = "lease" /\ f.right = "lease" /\ SourcesOf(e.token) \cap SourcesOf(f.token) # {}
         => e.token = f.token

\* Every answer to an operation is one openapi_document promises for it.
Documented(op) ==
  CASE op = "healthz" -> {200}
    [] op \in {"metrics", "events"} -> {200, 401, 403}
    [] OTHER -> {IF op = "acquire" THEN 201 ELSE 200, 400, 401, 403, 404, 409, 502, 503}

AnswersAreDocumented ==
  Running => \A q \in Request :
    q.op \in Operation => Answers(q) \subseteq Documented(q.op)

\* The handlers between the two counters of a failure, and those whose answer is
\* not counted at all.
HalfCounted == {c \in Conn : conn[c] = "failing"}
Uncounted == {c \in Conn : conn[c] \in {"routed"} \cup Answered}

\* The counters behind /metrics: the errors lag behind the two failure classes by
\* exactly the handlers between the two counters, so they agree whenever there is
\* none; every answer, and every request still under way, was counted as a request,
\* also when peers go away in the middle.  (A scrape loads the counters one by one
\* and may mix several of these moments.)
MetricsAddUp ==
  proc # "exited" =>
    /\ metrics.errors + Cardinality(HalfCounted) = metrics.client + metrics.server
    /\ metrics.ok + metrics.client + metrics.server + Cardinality(Uncounted) <= metrics.requests

\* Shutdown ends, with peers that never finish a request and with streams that
\* never heard of it.
ShutdownEnds == proc = "told" ~> proc = "exited"
=============================================================================
