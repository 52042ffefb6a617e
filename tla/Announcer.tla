------------------------------ MODULE Announcer ------------------------------
(***************************************************************************)
(* The announcement service (announcer/announcer/service.py): a ledger of  *)
(* jobs and of their deliveries in SQLite, request handlers and one worker *)
(* thread that share a lock and commit transactions, a directory of speech *)
(* clips, and a process that stops, crashes and starts again.              *)
(*                                                                         *)
(* Outputs in Native are polled by an app ("home_today"); the others are   *)
(* notified over MQTT and fetch the clip from the media listener.  Time is *)
(* the wall clock; one topic stands for all.                               *)
(***************************************************************************)
EXTENDS Integers, Sequences, FiniteSets, FiniteSetsExt, Functions

CONSTANTS
  Caller, Key, Ttl, Output, Native,
  Configs,              \* subscriptions an operator may configure, one per process
  AppResult,            \* results the apps report
  QueueLimit, RateLimit, RateWindow, TotalLimit,   \* 8, 8, 60 s, 10000
  LaneGuard,            \* 15 s
  Retention,            \* 24 h
  MediaLimit,           \* 16
  HandlerSpan,          \* bound: how far the clock moves inside a transaction
  MaxJobs, MaxTime, MaxRestarts    \* bounds

ASSUME ConstantsAssumption ==
  /\ Native \subseteq Output
  /\ Ttl \subseteq Nat \ {0}
  /\ Configs # {} /\ Configs \subseteq [callers : SUBSET Caller, outputs : SUBSET Output]
  /\ AppResult \subseteq {"completed_unconfirmed", "dismissed", "interrupted",
                          "failed", "expired"}
  /\ {QueueLimit, RateLimit, RateWindow, TotalLimit, LaneGuard, Retention, MediaLimit,
      HandlerSpan, MaxJobs, MaxTime, MaxRestarts} \subseteq Nat

\* A job lives far shorter (accept allows 30 s) than its row is kept (24 h).
ASSUME RetentionAssumption == \A ttl \in Ttl : ttl + HandlerSpan <= Retention

VARIABLES
  now,         \* the wall clock
  phase,       \* of the process: up, stopping, draining, down
  config,      \* who may speak on the topic, and which outputs subscribe to it
  ledger,      \* jobs and deliveries: job -> row
  issued,      \* job identifiers handed out
  clips,       \* jobs whose WAV file is in the directory
  worker,      \* the program counter and the locals of work and deliver
  inflight,    \* responses with a clip on their way: <<job, output>>
  sent,        \* how often a clip or its notification left, per delivery
  delivered,   \* deliveries whose device has the clip or its URL
  restarts

process == <<phase, config, restarts>>
outside == <<inflight, sent, delivered>>
vars == <<now, process, ledger, issued, clips, worker, outside>>

JobId == 1 .. MaxJobs
Delivery == JobId \X Output

\* The order in which refresh looks for the status that stands for the job.
StatusPriority ==
  <<"uncertain", "dispatching", "accepted", "ready", "claimed", "failed", "expired",
    "interrupted", "dismissed", "published_unconfirmed", "media_fetched_unconfirmed",
    "completed_unconfirmed">>
Status == Range(StatusPriority)

Row == [caller : Caller, key : Key, ttl : Ttl, created : Nat, expires : Nat,
        status : Status \cup {"synthesizing"}, text : BOOLEAN,
        out : UNION {[S -> Status] : S \in SUBSET Output},
        gets : UNION {[S -> 0 .. MediaLimit] : S \in SUBSET Output}]

Steps == {"waiting", "picked", "synthesizing", "validating", "sending", "dispatching",
          "publishing", "transmitting", "awaiting", "recording", "failing", "closing",
          "dead"}
NoOutput == "none"
Idle == [step |-> "waiting", job |-> 0, todo |-> {}, output |-> NoOutput, state |-> "none"]

-----------------------------------------------------------------------------
(* refresh and cleanup *)

States(row) == Range(row.out)

Aggregate(states) ==
  LET worst == StatusPriority[Min({i \in DOMAIN StatusPriority : StatusPriority[i] \in states})]
  IN  IF worst \in {"dispatching", "accepted"} THEN "synthesizing" ELSE worst

\* Mutation: the text goes once the job is no longer waiting.
RefreshForgetting(row) ==
  [row EXCEPT !.status = Aggregate(States(row)), !.text = @ /\ "accepted" \in States(row)]

\* The job's status from its deliveries; the text goes with the last one to need it.
Refresh(row) ==
  [row EXCEPT !.status = Aggregate(States(row)),
              !.text = @ /\ States(row) \cap {"ready", "accepted"} # {}]

\* Deliveries in one status move to another.
Turn(row, from, to) ==
  [row EXCEPT !.out = [o \in DOMAIN @ |-> IF @[o] = from THEN to ELSE @[o]]]

Set(row, o, status) == [row EXCEPT !.out[o] = status]

\* Mutation: a job expires with its deliveries only while it waits.
SweepAcceptedOnly(row, t) ==
  IF row.expires <= t /\ row.status = "accepted"
  THEN [Turn(row, "accepted", "expired") EXCEPT !.status = "expired", !.text = FALSE] ELSE row

\* Mutation: whatever is not over by the deadline expires.
SweepEverything(row, t) ==
  IF row.expires <= t
  THEN Refresh(Turn(Turn(Turn(row, "ready", "expired"), "accepted", "expired"),
                    "claimed", "expired"))
  ELSE row

\* cleanup, for one job: the refresh comes before accepted deliveries expire.
Sweep(row, t) ==
  LET due == row.expires <= t
      lost == row.expires + LaneGuard <= t
      polled == IF due THEN Turn(row, "ready", "expired") ELSE row
      seen == IF lost THEN Turn(polled, "claimed", "uncertain") ELSE polled
      fresh == IF seen = row THEN row ELSE Refresh(seen)
      swept == IF due THEN Turn(fresh, "accepted", "expired") ELSE fresh
  IN  IF due /\ swept.status = "accepted"
      THEN [swept EXCEPT !.status = "expired", !.text = FALSE] ELSE swept

\* Every transaction that calls cleanup sees the ledger this leaves.
CleanupOf(rows) ==
  [j \in {k \in DOMAIN rows : rows[k].created >= now - Retention} |-> Sweep(rows[j], now)]
Cleaned == CleanupOf(ledger)

\* Files go with their job or at its deadline.
ClipsKept == {j \in clips : j \in DOMAIN Cleaned /\ ledger[j].expires > now}

\* The transaction ends; an error rolls the ledger back, but not the removals.
Commit(rows) == ledger' = rows /\ clips' = ClipsKept
RollBack == UNCHANGED ledger /\ clips' = ClipsKept

-----------------------------------------------------------------------------
(* Queries *)

\* Bound: neither a delivery nor a response lasts as long as the retention, so
\* no row is deleted in the hands of either.
Reachable(t) ==
  \A j \in {worker.job} \cup {d[1] : d \in inflight} :
    j \in DOMAIN ledger => ledger[j].created >= t - Retention

\* A transaction that starts now may read the clock again, a little later.
Readable == {t \in now .. MaxTime : t <= now + HandlerSpan /\ (t = now \/ Reachable(t))}

Earliest(rows, S) == {j \in S : \A k \in S : rows[j].created <= rows[k].created}

\* Mutation: whoever was authorized at acceptance still is.
AuthorizedOnce(row) == TRUE
\* The caller may still speak, and every output of the snapshot still subscribes.
Authorized(row) == row.caller \in config.callers /\ DOMAIN row.out \subseteq config.outputs

LaneStatus == {"ready", "claimed", "dispatching", "uncertain", "published_unconfirmed",
               "media_fetched_unconfirmed"}
HoldsLane(row, t) == row.expires + LaneGuard > t /\ States(row) \cap LaneStatus # {}

\* Mutation: an unanswered claim is forgotten at the deadline.
CoolingUntilExpiry(rows, t) ==
  \E j \in DOMAIN rows : rows[j].expires > t /\ States(rows[j]) \cap LaneStatus # {}
Cooling(rows, t) == \E j \in DOMAIN rows : HoldsLane(rows[j], t)

WaitingJobs(rows) == {j \in DOMAIN rows : rows[j].status = "accepted"}
RecentJobs(rows, c, t) ==
  {j \in DOMAIN rows : rows[j].caller = c /\ rows[j].created > t - RateWindow}

\* Mutation: only the retained jobs are counted.
FullOnlyInTotal(rows, c, t) == Cardinality(DOMAIN rows) >= TotalLimit
Full(rows, c, t) ==
  \/ Cardinality(WaitingJobs(rows)) >= QueueLimit
  \/ Cardinality(RecentJobs(rows, c, t)) >= RateLimit
  \/ Cardinality(DOMAIN rows) >= TotalLimit

Serving == phase \in {"up", "stopping"}

-----------------------------------------------------------------------------
(* Requests of the callers *)

NewRow(c, k, ttl, t) ==
  [caller |-> c, key |-> k, ttl |-> ttl, created |-> t, expires |-> t + ttl,
   status |-> "accepted", text |-> TRUE,
   out |-> [o \in config.outputs |-> "accepted"], gets |-> [o \in config.outputs |-> 0]]

\* accept: the time-to-live stands for the whole body and its fingerprint.
Accept(c, k, ttl) ==
  LET same == {j \in DOMAIN Cleaned : Cleaned[j].caller = c /\ Cleaned[j].key = k} IN
  /\ Serving /\ c \in config.callers
  /\ \E t \in Readable :
       \/ /\ \E j \in same : Cleaned[j].ttl = ttl
          /\ Commit(Cleaned)
          /\ UNCHANGED issued
       \/ /\ \/ \E j \in same : Cleaned[j].ttl # ttl
             \/ same = {} /\ (config.outputs = {} \/ Full(Cleaned, c, t))
          /\ RollBack
          /\ UNCHANGED issued
       \/ /\ same = {} /\ config.outputs # {} /\ ~Full(Cleaned, c, t)
          /\ issued < MaxJobs /\ t + ttl + LaneGuard < MaxTime
          /\ issued' = issued + 1
          /\ Commit([j \in DOMAIN Cleaned \cup {issued'} |->
                       IF j = issued' THEN NewRow(c, k, ttl, t) ELSE Cleaned[j]])
       /\ now' = t
  /\ UNCHANGED <<process, worker, outside>>

\* status: of a job of this caller, or of one it does not have.
Look ==
  /\ Serving
  /\ Commit(Cleaned) \/ RollBack
  /\ UNCHANGED <<now, process, issued, worker, outside>>

-----------------------------------------------------------------------------
(* Requests of the outputs *)

Pollable(rows, o) ==
  {j \in DOMAIN rows : /\ o \in DOMAIN rows[j].out /\ rows[j].out[o] = "ready"
                       /\ rows[j].status # "synthesizing"}

Mark(rows, j, o, status) == [rows EXCEPT ![j] = Refresh(Set(@, o, status))]

\* claim: the delivery is consumed before a byte of the response leaves.
Claim(o) ==
  /\ Serving /\ o \in Native
  /\ \E t \in Readable :
       \/ /\ Pollable(Cleaned, o) = {}
          /\ Commit(Cleaned)
          /\ UNCHANGED inflight
       \/ \E j \in Earliest(Cleaned, Pollable(Cleaned, o)) :
            LET row == Cleaned[j]
                allowed == o \in config.outputs /\ row.caller \in config.callers
            IN
            \/ /\ ~allowed \/ j \notin ClipsKept
               /\ Commit(Mark(Cleaned, j, o, "failed"))
               /\ UNCHANGED inflight
            \/ /\ allowed /\ j \in ClipsKept /\ row.expires <= t
               /\ Commit(Cleaned)
               /\ UNCHANGED inflight
            \/ /\ allowed /\ j \in ClipsKept /\ row.expires > t
               /\ Commit(Mark(Cleaned, j, o, "claimed"))
               /\ inflight' = inflight \cup {<<j, o>>}
       /\ now' = t
  /\ UNCHANGED <<process, issued, worker, sent, delivered>>

\* The response to a claim reaches the app.
Respond(j, o) ==
  /\ <<j, o>> \in inflight /\ o \in Native
  /\ inflight' = inflight \ {<<j, o>>}
  /\ sent' = [sent EXCEPT ![<<j, o>>] = @ + 1]
  /\ delivered' = delivered \cup {<<j, o>>}
  /\ UNCHANGED <<now, process, ledger, issued, clips, worker>>

\* A response is lost, or was a partial range: nothing is recorded.
Drop(j, o) ==
  /\ <<j, o>> \in inflight
  /\ inflight' = inflight \ {<<j, o>>}
  /\ UNCHANGED <<now, process, ledger, issued, clips, worker, sent, delivered>>

\* result: the app reports on a clip it received.
Report(o, j, status) ==
  /\ Serving /\ <<j, o>> \in delivered /\ o \in Native
  /\ \/ /\ j \in DOMAIN Cleaned /\ Cleaned[j].out[o] = status
        /\ Commit(Cleaned)
     \/ /\ j \in DOMAIN Cleaned /\ Cleaned[j].out[o] \in {"claimed", "uncertain"} \ {status}
        /\ Commit(Mark(Cleaned, j, o, status))
     \/ /\ j \in DOMAIN Cleaned => Cleaned[j].out[o] \notin {"claimed", "uncertain", status}
        /\ RollBack
  /\ UNCHANGED <<now, process, issued, worker, outside>>

\* Mutation: the limit is checked off by one.
MayFetchOnceMore(row, o) == row.gets[o] <= MediaLimit
MayFetch(row, o) == row.gets[o] < MediaLimit

\* media_data: a device that got the URL starts a GET; cleanup is not called.
Get(j, o) ==
  /\ Serving /\ <<j, o>> \in delivered /\ o \in config.outputs \ Native
  /\ j \in DOMAIN ledger /\ ledger[j].expires > now
  /\ ledger[j].out[o] \in {"dispatching", "uncertain", "published_unconfirmed",
                           "media_fetched_unconfirmed"}
  /\ MayFetch(ledger[j], o)
  /\ j \in clips
  /\ ledger' = [ledger EXCEPT ![j].gets[o] = @ + 1]
  /\ inflight' = inflight \cup {<<j, o>>}
  /\ UNCHANGED <<now, process, issued, clips, worker, sent, delivered>>

\* fetched: the last byte of the whole file was written.
Fetched(j, o) ==
  /\ <<j, o>> \in inflight /\ o \notin Native
  /\ inflight' = inflight \ {<<j, o>>}
  /\ ledger' = Mark(ledger, j, o, "media_fetched_unconfirmed")
  /\ UNCHANGED <<now, process, issued, clips, worker, sent, delivered>>

-----------------------------------------------------------------------------
(* The worker thread: work *)

At(step) == phase # "down" /\ worker.step = step
Job == ledger[worker.job]
Overdue == Job.expires <= now
Stopping == phase # "up"
HasLegacy == DOMAIN Job.out \ Native # {}

Goto(step) == worker' = [worker EXCEPT !.step = step]

\* The first transaction of the loop: sweep, and pick a job if the lane is free.
Pick ==
  /\ At("waiting") /\ ~Stopping
  /\ \E t \in Readable :
       \/ /\ Cooling(Cleaned, t) \/ WaitingJobs(Cleaned) = {}
          /\ Commit(Cleaned)
          /\ UNCHANGED worker
       \/ /\ ~Cooling(Cleaned, t)
          /\ \E j \in Earliest(Cleaned, WaitingJobs(Cleaned)) :
               \/ /\ ~Authorized(Cleaned[j])
                  /\ Commit([Cleaned EXCEPT ![j] = Refresh(Turn(@, "accepted", "failed"))])
                  /\ UNCHANGED worker
               \/ /\ Authorized(Cleaned[j])
                  /\ Commit(Cleaned)
                  /\ worker' = [Idle EXCEPT !.step = "picked", !.job = j]
       /\ now' = t
  /\ UNCHANGED <<process, issued, outside>>

\* Snapcast is busy or unreadable, or the job or the process ran out of time.
Postpone ==
  /\ At("picked")
  /\ HasLegacy \/ Overdue \/ Stopping
  /\ worker' = Idle
  /\ UNCHANGED <<now, process, ledger, issued, clips, outside>>

Start ==
  /\ At("picked") /\ ~Overdue /\ ~Stopping
  /\ ledger' = [ledger EXCEPT ![worker.job].status = "synthesizing"]
  /\ Goto("synthesizing")
  /\ UNCHANGED <<now, process, issued, clips, outside>>

-----------------------------------------------------------------------------
(* The worker thread: deliver *)

\* The child writes the clip, or fails with or without a file.
Synthesize ==
  /\ At("synthesizing")
  /\ \/ clips' = clips \cup {worker.job} /\ Goto("validating")
     \/ clips' \in {clips, clips \cup {worker.job}} /\ Goto("failing")
  /\ UNCHANGED <<now, process, ledger, issued, outside>>

\* A cleanup may have removed the file; the clip may be refused.
Validate ==
  /\ At("validating")
  /\ \/ worker.job \in clips
        /\ worker' = [worker EXCEPT !.step = "sending", !.todo = DOMAIN Job.out]
     \/ Goto("failing")
  /\ UNCHANGED <<now, process, ledger, issued, clips, outside>>

Conclude(o, status) ==
  worker' = [worker EXCEPT !.step = "recording", !.output = o, !.state = status]

\* The next output: too late, ready for its app, idle and to be notified, or not.
Choose(o) ==
  LET next == [worker EXCEPT !.todo = @ \ {o}, !.output = o] IN
  /\ At("sending") /\ o \in worker.todo
  /\ \/ Overdue /\ worker' = [next EXCEPT !.step = "recording", !.state = "expired"]
     \/ /\ ~Overdue /\ o \in Native
        /\ worker' = [next EXCEPT !.step = "recording",
                                  !.state = IF Stopping THEN "failed" ELSE "ready"]
     \/ /\ ~Overdue /\ o \notin Native
        /\ worker' = [next EXCEPT !.step = "recording", !.state = "failed"]
     \/ /\ ~Overdue /\ o \notin Native /\ ~Stopping
        /\ worker' = [next EXCEPT !.step = "dispatching"]
  /\ UNCHANGED <<now, process, ledger, issued, clips, outside>>

\* Dispatch intent is committed before any MQTT byte can leave, whatever the
\* ledger says of the delivery by then.
CommitIntent ==
  /\ At("dispatching")
  /\ ledger' = [ledger EXCEPT ![worker.job] = Set(@, worker.output, "dispatching")]
  /\ Goto("publishing")
  /\ UNCHANGED <<now, process, issued, clips, outside>>

\* portal.publish up to its last look at the clock: the broker refuses, the
\* deadline has passed, the password file is unreadable, or there is time left.
Publish ==
  /\ At("publishing")
  /\ \/ Conclude(worker.output, "failed")
     \/ Overdue /\ Conclude(worker.output, "expired")
     \/ Goto("failing")
     \/ ~Overdue /\ Goto("transmitting")
  /\ UNCHANGED <<now, process, ledger, issued, clips, outside>>

\* client.publish, or a later client.loop, sends the packet, at whatever time that
\* is; or it never leaves, and nobody can tell.
Transmit ==
  /\ At("transmitting")
  /\ \/ Conclude(worker.output, "uncertain") /\ UNCHANGED outside
     \/ /\ Goto("awaiting")
        /\ sent' = [sent EXCEPT ![<<worker.job, worker.output>>] = @ + 1]
        /\ delivered' \in {delivered, delivered \cup {<<worker.job, worker.output>>}}
        /\ UNCHANGED inflight
  /\ UNCHANGED <<now, process, ledger, issued, clips>>

\* A refusal is a negative PUBACK: such a message reached no device.
Await ==
  /\ At("awaiting")
  /\ \/ Conclude(worker.output, "uncertain")
     \/ Conclude(worker.output, "published_unconfirmed")
     \/ /\ <<worker.job, worker.output>> \notin delivered
        /\ Conclude(worker.output, "failed")
  /\ UNCHANGED <<now, process, ledger, issued, clips, outside>>

Proceed ==
  worker' = [worker EXCEPT !.step = IF worker.todo = {} THEN "closing" ELSE "sending",
                           !.output = NoOutput, !.state = "none"]

\* Mutation: the outcome overwrites a fetch that was quicker.
RecordAnyway ==
  /\ At("recording")
  /\ ledger' = [ledger EXCEPT ![worker.job] = Set(@, worker.output, worker.state)]
  /\ Proceed
  /\ UNCHANGED <<now, process, issued, clips, outside>>

\* The outcome is stored unless the device fetched the clip meanwhile.
Record ==
  /\ At("recording")
  /\ ledger' = IF Job.out[worker.output] = "media_fetched_unconfirmed" THEN ledger
               ELSE [ledger EXCEPT ![worker.job] = Set(@, worker.output, worker.state)]
  /\ Proceed
  /\ UNCHANGED <<now, process, issued, clips, outside>>

\* The exception handler of deliver.
Fail ==
  /\ At("failing")
  /\ ledger' = [ledger EXCEPT ![worker.job] =
                  Turn(Turn(@, "accepted", IF Overdue THEN "expired" ELSE "failed"),
                       "dispatching", "uncertain")]
  /\ worker' = [Idle EXCEPT !.step = "closing", !.job = worker.job]
  /\ UNCHANGED <<now, process, issued, clips, outside>>

\* Mutation: the worker forgets the final refresh.
CloseWithoutRefresh ==
  /\ At("closing")
  /\ worker' = Idle
  /\ UNCHANGED <<now, process, ledger, issued, clips, outside>>

\* The finally clause of deliver.
Close ==
  /\ At("closing")
  /\ ledger' = [ledger EXCEPT ![worker.job] = Refresh(@)]
  /\ worker' = Idle
  /\ UNCHANGED <<now, process, issued, clips, outside>>

Work == Pick \/ Postpone \/ Start \/ Synthesize \/ Validate \/ (\E o \in Output : Choose(o))
        \/ CommitIntent \/ Publish \/ Transmit \/ Await \/ Record \/ Fail \/ Close

\* An exception deliver does not list, as one of sqlite3, ends the thread: the
\* transaction is rolled back, and the finally clause may still get through.
Die ==
  /\ phase # "down" /\ worker.step # "dead"
  /\ restarts < MaxRestarts /\ restarts' = restarts + 1
  /\ worker' = [Idle EXCEPT !.step = "dead"]
  /\ \/ UNCHANGED <<ledger, clips>>
     \/ worker.step = "waiting" /\ RollBack
     \/ /\ worker.step \notin {"waiting", "picked"}
        /\ ledger' = [ledger EXCEPT ![worker.job] = Refresh(@)]
        /\ UNCHANGED clips
  /\ UNCHANGED <<now, phase, config, issued, outside>>

-----------------------------------------------------------------------------
(* The process *)

Stop ==
  /\ phase = "up" /\ restarts < MaxRestarts
  /\ phase' = "stopping" /\ restarts' = restarts + 1
  /\ UNCHANGED <<now, config, ledger, issued, clips, worker, outside>>

\* healthz reports the dead worker, and the process is stopped for it.
Supervise ==
  /\ phase = "up" /\ worker.step = "dead"
  /\ phase' = "stopping"
  /\ UNCHANGED <<now, config, restarts, ledger, issued, clips, worker, outside>>

\* close joins the request threads, then the worker.
CloseServers ==
  /\ phase = "stopping" /\ inflight = {}
  /\ phase' = "draining"
  /\ UNCHANGED <<now, config, restarts, ledger, issued, clips, worker, outside>>

Exit ==
  /\ phase = "draining" /\ worker.step \in {"waiting", "dead"}
  /\ phase' = "down"
  /\ worker' = Idle
  /\ UNCHANGED <<now, config, restarts, ledger, issued, clips, outside>>

Crash ==
  /\ phase # "down" /\ restarts < MaxRestarts
  /\ phase' = "down" /\ restarts' = restarts + 1
  /\ worker' = Idle /\ inflight' = {}
  /\ UNCHANGED <<now, config, ledger, issued, clips, sent, delivered>>

\* Mutation: a job that was being delivered waits again.
RecoverByRetry(row) ==
  IF row.status = "synthesizing"
  THEN [Turn(row, "dispatching", "accepted") EXCEPT !.status = "accepted"] ELSE row

\* Mutation: what was being dispatched is called failed.
RecoverAsFailed(row) ==
  LET known == Turn(row, "dispatching", "failed") IN
  IF row.status = "synthesizing" THEN Refresh(Turn(known, "accepted", "failed")) ELSE known

\* What was dispatching is uncertain; a job that was being delivered is over.
Recover(row) ==
  LET known == Turn(row, "dispatching", "uncertain") IN
  IF row.status = "synthesizing" THEN Refresh(Turn(known, "accepted", "failed")) ELSE known

\* The first transaction of a process: recovery, then cleanup.
Startup ==
  /\ phase = "down"
  /\ phase' = "up"
  /\ config' \in Configs
  /\ Commit(CleanupOf([j \in DOMAIN ledger |-> Recover(ledger[j])]))
  /\ UNCHANGED <<now, restarts, issued, worker, outside>>

Tick ==
  /\ now < MaxTime /\ Reachable(now + 1)
  /\ now' = now + 1
  /\ UNCHANGED <<process, ledger, issued, clips, worker, outside>>

Init ==
  /\ now = 0
  /\ phase = "up" /\ config \in Configs /\ restarts = 0
  /\ ledger = [j \in {} |-> j] /\ issued = 0 /\ clips = {}
  /\ worker = Idle
  /\ inflight = {} /\ sent = [d \in Delivery |-> 0] /\ delivered = {}

Next ==
  \/ \E c \in Caller, k \in Key, ttl \in Ttl : Accept(c, k, ttl)
  \/ Look
  \/ \E o \in Output :
       \/ Claim(o)
       \/ \E j \in JobId :
            \/ Respond(j, o) \/ Drop(j, o) \/ Get(j, o) \/ Fetched(j, o)
            \/ \E status \in AppResult : Report(o, j, status)
  \/ Work \/ Die
  \/ Stop \/ Supervise \/ CloseServers \/ Exit \/ Crash \/ Startup \/ Tick

\* Threads run, transfers and time end, a supervisor restarts the process when it
\* ends or its health check fails.
Fairness ==
  /\ WF_vars(Work)
  /\ WF_vars(\E j \in JobId, o \in Output : Drop(j, o))
  /\ WF_vars(Supervise \/ CloseServers \/ Exit \/ Startup)
  /\ WF_vars(Tick)

Spec == Init /\ [][Next]_vars
FairSpec == Spec /\ Fairness

-----------------------------------------------------------------------------
(* Invariants *)

InHand(j) == worker.job = j /\ worker.step \notin {"waiting", "picked"}

TypeOK ==
  /\ now \in Nat /\ phase \in {"up", "stopping", "draining", "down"}
  /\ config \in Configs /\ restarts \in 0 .. MaxRestarts
  /\ issued \in 0 .. MaxJobs /\ DOMAIN ledger \subseteq 1 .. issued
  /\ \A j \in DOMAIN ledger :
       /\ ledger[j] \in Row
       /\ DOMAIN ledger[j].out = DOMAIN ledger[j].gets /\ DOMAIN ledger[j].out # {}
  /\ clips \subseteq 1 .. issued
  /\ worker \in [step : Steps, job : 0 .. issued, todo : SUBSET Output,
                 output : Output \cup {NoOutput}, state : Status \cup {"none"}]
  /\ worker.step \notin {"waiting", "dead"} => worker.job \in DOMAIN ledger
  /\ inflight \subseteq Delivery /\ delivered \subseteq Delivery
  /\ sent \in [Delivery -> Nat]

\* Neither a notification nor a claimed clip ever leaves twice for one delivery,
\* whatever crashes, restarts, retries of callers and polls of apps happen.
AtMostOnce == \A d \in Delivery : sent[d] <= 1

\* There is one lane: two jobs are never both being dispatched, downloadable or
\* possibly playing, across restarts.
LaneExclusive ==
  \A j, k \in DOMAIN ledger :
    (HoldsLane(ledger[j], now) \/ InHand(j)) /\ (HoldsLane(ledger[k], now) \/ InHand(k))
    => j = k

\* A delivery that an app may still claim has its clip on disk and its text.
ReadyIsComplete ==
  \A j \in DOMAIN ledger :
    "ready" \in States(ledger[j]) /\ ledger[j].expires > now => j \in clips /\ ledger[j].text

\* Outside deliver no delivery is left dispatching, which nothing would ever end;
\* a job waits for the worker exactly if all its deliveries do, and before its
\* deadline it is called synthesizing, which hides its ready clips from their
\* apps, only on account of a delivery that waits.  (A worker that died may leave
\* a job in any of these states until the restart that healthz asks for.)
NothingStaysInLimbo ==
  \A j \in DOMAIN ledger :
    phase # "down" /\ worker.step # "dead" /\ ~InHand(j) =>
      /\ "dispatching" \notin States(ledger[j])
      /\ ledger[j].status = "accepted" <=> States(ledger[j]) = {"accepted"}
      /\ ledger[j].status = "synthesizing" =>
           "accepted" \in States(ledger[j]) \/ ledger[j].expires <= now

\* What the ledger calls failed or expired for a notified output never reached it.
NoFalseFailure ==
  \A j \in DOMAIN ledger : \A o \in DOMAIN ledger[j].out \ Native :
    ledger[j].out[o] \in {"failed", "expired"} => <<j, o>> \notin delivered

\* The queue and each caller's rate stay within their limits at every instant.
AdmissionBounded ==
  /\ Cardinality(WaitingJobs(ledger)) <= QueueLimit
  /\ \A c \in Caller : Cardinality(RecentJobs(ledger, c, now)) <= RateLimit

-----------------------------------------------------------------------------
(* Action properties *)

\* What a device or an app settled is final: no late outcome, recovery, sweep or
\* second report changes it.
SettledStays ==
  [][ \A j \in DOMAIN ledger \cap DOMAIN ledger' : \A o \in DOMAIN ledger[j].out :
        ledger[j].out[o] \in {"media_fetched_unconfirmed", "completed_unconfirmed",
                              "dismissed", "interrupted", "failed"}
        => ledger'[j].out[o] = ledger[j].out[o]
    ]_vars

\* A clip or a notification leaves only for an output that now subscribes and on
\* behalf of a caller that may now speak, though the snapshot of subscribers is
\* as old as the job.  (No such thing holds of its deadline, which may pass between
\* the last look at the clock and the packet.)
SendsAreAuthorized ==
  [][ \A j \in JobId, o \in Output :
        sent'[<<j, o>>] > sent[<<j, o>>] =>
          o \in config.outputs /\ ledger[j].caller \in config.callers
    ]_vars

-----------------------------------------------------------------------------
(* The abstract specification *)

\* What the ledger makes of a delivery.
StageOf(status) ==
  CASE status = "accepted" -> "waiting"
    [] status = "ready" -> "offered"
    [] status \in {"claimed", "dispatching", "uncertain", "published_unconfirmed"} -> "given"
    [] status \in {"failed", "expired"} -> status
    [] OTHER -> "confirmed"

StageIs(j, o) ==
  CASE j \in DOMAIN ledger /\ o \in DOMAIN ledger[j].out -> StageOf(ledger[j].out[o])
    [] j \notin DOMAIN ledger /\ j <= issued -> "forgotten"
    [] OTHER -> "unasked"

\* Every delivery of every job keeps what OneShot says of one: what the ledger calls it
\* and what left the house agree, in their order, through every interleaving.
Promise(j, o) ==
  INSTANCE OneShot WITH Polled <- o \in Native, stage <- StageIs(j, o),
                        sent <- sent[<<j, o>>], heard <- <<j, o>> \in delivered
KeepsPromise ==
  /\ \A j \in JobId, o \in Output : Promise(j, o)!Init
  /\ [][\A j \in JobId, o \in Output : [Promise(j, o)!Next]_(Promise(j, o)!vars)]_vars

-----------------------------------------------------------------------------
(* Liveness *)

\* Every accepted delivery comes to rest, through busy speakers, lost responses,
\* crashes and restarts.
EverythingSettles ==
  \A j \in JobId :
    j \in DOMAIN ledger ~>
      (j \in DOMAIN ledger =>
         States(ledger[j]) \cap {"accepted", "ready", "claimed", "dispatching"} = {})

-----------------------------------------------------------------------------
(* Claims of the documentation that the code does not keep *)

\* announcer/README.md:40-41: the aggregate prioritizes uncertainty and failures.
AggregateIsCurrent ==
  \A j \in DOMAIN ledger :
    phase # "down" /\ worker.step # "dead" /\ ~InHand(j) =>
      \/ ledger[j].status = Aggregate(States(ledger[j]))
      \/ ledger[j].status = "accepted" /\ States(ledger[j]) = {"accepted"}
=============================================================================
