------------------------- MODULE AnnouncerSafetyProofs -------------------------
(***************************************************************************)
(* The inductive invariant of the announcement service, and what follows   *)
(* from it for any callers, outputs, configurations, limits and bounds.    *)
(***************************************************************************)
EXTENDS AnnouncerRowProofs, FiniteSetTheorems

-----------------------------------------------------------------------------
(* The invariant *)

Held(j) == worker.step \in Active /\ worker.job = j

\* Rows in the hands of the worker or of a response are kept.
Kept ==
  \A j \in JobId :
    Held(j) \/ (\E o \in Output : <<j, o>> \in inflight)
    => j \in DOMAIN ledger /\ ledger[j].created >= now - Retention

ProcessInv ==
  /\ phase \in {"up", "stopping", "draining", "down"} /\ restarts \in 0 .. MaxRestarts
  /\ phase = "down" => worker.step = "waiting"
  /\ phase \in {"draining", "down"} => inflight = {}
  /\ clips \subseteq 1 .. issued /\ delivered \subseteq Delivery
  /\ worker \in [step : Steps, job : 0 .. issued, todo : SUBSET Output,
                 output : Output \cup {NoOutput}, state : Status \cup {"none"}]
  /\ worker.step \in {"waiting", "dead"} => worker.job = 0

SoundInv == \A j \in DOMAIN ledger : Sound(ledger[j], now)

CalmInv ==
  phase # "down" /\ worker.step # "dead" =>
    \A j \in DOMAIN ledger : InHand(j) \/ Calm(ledger[j], now)

\* What a device has, the ledger knows to be sent; a response under way belongs to
\* a delivery, and to one that its device heard of.
SentInv ==
  /\ \A d \in delivered : sent[d] = 1
  /\ \A j \in DOMAIN ledger, o \in Output : <<j, o>> \in delivered =>
       /\ o \in DOMAIN ledger[j].out
       /\ o \notin Native => ledger[j].out[o] \in SentStatus
  /\ \A j \in JobId, o \in Output : <<j, o>> \in inflight =>
       /\ o \in DOMAIN ledger[j].out
       /\ o \notin Native => <<j, o>> \in delivered

\* Whatever is on its way or in hand was allowed by the configuration there is.
AllowedInv ==
  /\ \A j \in JobId, o \in Native : <<j, o>> \in inflight =>
       o \in config.outputs /\ ledger[j].caller \in config.callers
  /\ worker.step \in Active => Authorized(Job)

Busy == {"dispatching", "publishing", "transmitting", "awaiting", "recording"}

\* The deliveries of the job in hand, as far as the worker got: those to come wait
\* or were swept, the one at work is what the worker made it, the others are over.
HandInv ==
  /\ worker.step \in {"picked", "synthesizing", "validating"} =>
       \A o \in DOMAIN Job.out : Untouched(Job, o, now)
  /\ worker.step \in Busy \cup {"sending"} =>
       /\ worker.todo \subseteq DOMAIN Job.out
       /\ \A o \in worker.todo : Untouched(Job, o, now)
       /\ Job.expires > now => worker.job \in clips
  /\ worker.step \in {"sending", "closing"} =>
       \A o \in DOMAIN Job.out : Job.out[o] \in {"accepted", "dispatching"}
                                   => worker.step = "sending" /\ o \in worker.todo
  /\ worker.step \in Busy =>
       /\ worker.output \in DOMAIN Job.out \ worker.todo
       /\ \A o \in DOMAIN Job.out : Job.out[o] \in {"accepted", "dispatching"}
                                      => o \in worker.todo \cup {worker.output}
  /\ worker.step = "dispatching" => Untouched(Job, worker.output, now)
  /\ worker.step \in {"publishing", "transmitting", "awaiting"} =>
       Job.out[worker.output] \in SentStatus
  /\ worker.step = "recording" =>
       /\ worker.state \in Status \ {"accepted", "dispatching"}
       /\ \/ Untouched(Job, worker.output, now)
          \/ worker.output \notin Native /\ Job.out[worker.output] \in SentStatus
       /\ \/ worker.output \in Native \/ worker.state \in SentStatus
          \/ <<worker.job, worker.output>> \notin delivered
       /\ worker.state = "ready" => Untouched(Job, worker.output, now)

LaneInv ==
  /\ \A j, k \in DOMAIN ledger :
       HoldsLane(ledger[j], now) /\ HoldsLane(ledger[k], now) => j = k
  /\ worker.step \in Active =>
       \A j \in DOMAIN ledger : HoldsLane(ledger[j], now) => j = worker.job

ClipsInv ==
  \A j \in DOMAIN ledger :
    "ready" \in States(ledger[j]) /\ ledger[j].expires > now => j \in clips

Inv ==
  /\ SendInv /\ Kept /\ ProcessInv /\ SoundInv /\ CalmInv
  /\ SentInv /\ AllowedInv /\ HandInv /\ LaneInv /\ ClipsInv

-----------------------------------------------------------------------------
(* What any step does *)

\* The clock moves on, as long as rows in use stay.
Clock == now' \in Nat /\ now' >= now /\ (now' = now \/ Reachable(now'))

\* A row that was there before, and what its deliveries may become.
Moved(j) ==
  /\ j \in DOMAIN ledger /\ ledger'[j] \in Row /\ SameJob(ledger'[j], ledger[j])
  /\ Sound(ledger[j], now) => Sound(ledger'[j], now)
  /\ ledger'[j].status = "accepted" => ledger[j].status = "accepted"
  /\ \A o \in DOMAIN ledger[j].out :
       /\ ledger[j].out[o] \in SettledStatus => ledger'[j].out[o] = ledger[j].out[o]
       /\ ledger'[j].out[o] \in LaneStatus => ledger[j].out[o] \in LaneStatus \/ Held(j)
       /\ o \notin Native /\ <<j, o>> \in delivered /\ ledger[j].out[o] \in SentStatus
            => ledger'[j].out[o] \in SentStatus
       /\ ledger'[j].out[o] = "ready" =>
            ledger[j].out[o] = "ready" \/ (ledger[j].expires > now => j \in clips)

\* A job that the step accepted.
Young(j) ==
  /\ j \notin DOMAIN ledger /\ j > issued /\ j \in JobId
  /\ ledger'[j] \in Row /\ ledger'[j].created = now'
  /\ ledger'[j].expires = ledger'[j].created + ledger'[j].ttl
  /\ ledger'[j].status = "accepted" /\ ledger'[j].text
  /\ DOMAIN ledger'[j].out # {}
  /\ \A o \in DOMAIN ledger'[j].out : ledger'[j].out[o] = "accepted"

LedgerMoves ==
  /\ \A j \in DOMAIN ledger : ledger[j].created >= now - Retention => j \in DOMAIN ledger'
  /\ \A j \in DOMAIN ledger' : Moved(j) \/ Young(j)

\* A response for a delivery of a job before its deadline begins.
Launched(j, o) ==
  /\ j \in DOMAIN ledger /\ o \in DOMAIN ledger[j].out /\ ledger[j].expires > now'
  /\ o \in Native => o \in config.outputs /\ ledger[j].caller \in config.callers
  /\ o \notin Native => <<j, o>> \in delivered

Traffic ==
  /\ inflight' \subseteq Delivery /\ delivered \subseteq delivered'
  /\ \A j, o : <<j, o>> \in inflight' => <<j, o>> \in inflight \/ Launched(j, o)
  /\ \A d \in delivered' : sent'[d] = 1
  /\ \A j, o : <<j, o>> \in delivered' =>
       \/ <<j, o>> \in delivered
       \/ /\ j \in DOMAIN ledger /\ o \in DOMAIN ledger[j].out /\ ledger' = ledger
          /\ o \notin Native => ledger[j].out[o] \in SentStatus

\* The clip of a job stays until its deadline.
Files == \A j \in DOMAIN ledger' \cap clips : ledger'[j].expires > now => j \in clips'

\* What is proved of every step.
Onward == Inv' /\ Clock /\ LedgerMoves

\* A job that may still be delivered is kept.
LEMMA LiveIsKept ==
  ASSUME Typed, SoundInv, NEW j \in DOMAIN ledger, NEW t \in Nat,
         ledger[j].expires > t
  PROVE  ledger[j].created >= t - Retention
<1>1. ledger[j] \in Row
  BY DEF Typed, ProperRows, Proper
<1>2. ledger[j].created \in Nat /\ ledger[j].ttl \in Ttl
  BY <1>1, RowFields
<1>3. ledger[j].expires = ledger[j].created + ledger[j].ttl
  BY DEF SoundInv, Sound
<1>4. Ttl \subseteq Nat /\ Retention \in Nat /\ HandlerSpan \in Nat
  BY ConstantsAssumption
<1>5. ledger[j].ttl + HandlerSpan <= Retention
  BY <1>2, RetentionAssumption
<1> DEFINE c == ledger[j].created
           d == ledger[j].ttl
<1>6. c \in Nat /\ d \in Nat /\ c + d > t /\ d + HandlerSpan <= Retention
  BY <1>2, <1>3, <1>4, <1>5
<1> HIDE DEF c, d
<1>7. c >= t - Retention
  BY <1>4, <1>6
<1> QED BY <1>7 DEF c

LEMMA SoundStays ==
  ASSUME Typed, SoundInv, Clock, LedgerMoves
  PROVE  SoundInv'
<1> SUFFICES ASSUME NEW j \in DOMAIN ledger' PROVE Sound(ledger'[j], now')
  BY DEF SoundInv, Sound
<1>1. CASE Moved(j)
  <2>1. Sound(ledger'[j], now) /\ ledger'[j] \in Row
    BY <1>1 DEF Moved, SoundInv
  <2>2. ledger'[j].expires \in Nat
    BY <2>1, RowFields
  <2>3. ledger'[j].expires > now' => ledger'[j].expires > now
    BY <2>2 DEF Clock, Typed
  <2> QED BY <2>1, <2>3 DEF Sound
<1>2. CASE Young(j)
  BY <1>2 DEF Young, Sound
<1> QED BY <1>1, <1>2 DEF LedgerMoves

\* The job in hand.
LEMMA HandIs ==
  ASSUME Inv, worker.step \in Active
  PROVE  /\ Held(worker.job) /\ worker.job \in JobId /\ worker.job \in 1 .. issued
         /\ worker.job \in DOMAIN ledger /\ Proper(Job) /\ Job \in Row
         /\ DOMAIN Job.out \subseteq Output
<1>1. worker.job \in 1 .. issued /\ issued \in 0 .. MaxJobs /\ MaxJobs \in Nat
  BY ConstantsAssumption DEF Inv, SendInv, WorkerTyped, Typed
<1>2. worker.job \in JobId /\ Held(worker.job)
  BY <1>1 DEF JobId, Held
<1>3. worker.job \in DOMAIN ledger
  BY <1>2 DEF Inv, Kept
<1>4. Proper(Job) /\ Job \in Row
  BY <1>3 DEF Inv, SendInv, Typed, ProperRows, Proper, Job
<1> QED BY <1>1, <1>2, <1>3, <1>4, RowFields

\* Rows in use survive the step.
LEMMA UseStays ==
  ASSUME Inv, Clock, LedgerMoves, Traffic
  PROVE  /\ \A j \in JobId : Held(j) =>
              j \in DOMAIN ledger' /\ Moved(j) /\ ledger'[j].created >= now' - Retention
         /\ \A j \in JobId, o \in Output : <<j, o>> \in inflight' =>
              j \in DOMAIN ledger' /\ Moved(j) /\ ledger'[j].created >= now' - Retention
<1>1. ASSUME NEW j \in DOMAIN ledger, ledger[j].created >= now - Retention,
             ledger[j].created >= now' - Retention
      PROVE  j \in DOMAIN ledger' /\ Moved(j) /\ ledger'[j].created >= now' - Retention
  BY <1>1 DEF LedgerMoves, Young, Moved, SameJob
<1>2. ASSUME NEW j \in JobId, Held(j) \/ \E o \in Output : <<j, o>> \in inflight
      PROVE  j \in DOMAIN ledger' /\ Moved(j) /\ ledger'[j].created >= now' - Retention
  <2>1. j \in DOMAIN ledger /\ ledger[j].created >= now - Retention
    BY <1>2 DEF Inv, Kept
  <2>2. j \in {worker.job} \cup {d[1] : d \in inflight}
    <3>1. CASE Held(j)
      BY <3>1 DEF Held
    <3>2. ASSUME NEW o \in Output, <<j, o>> \in inflight
          PROVE  j \in {d[1] : d \in inflight}
      BY <3>2
    <3> QED BY <1>2, <3>1, <3>2
  <2>3. ledger[j].created >= now' - Retention
    BY <2>1, <2>2 DEF Clock, Reachable
  <2> QED BY <1>1, <2>1, <2>3
<1>3. ASSUME NEW j \in JobId, NEW o \in Output, Launched(j, o)
      PROVE  j \in DOMAIN ledger' /\ Moved(j) /\ ledger'[j].created >= now' - Retention
  <2>1. j \in DOMAIN ledger /\ ledger[j].expires > now'
    BY <1>3 DEF Launched
  <2>2. ledger[j].created \in Nat /\ ledger[j].expires \in Nat
    BY <2>1, RowFields DEF Inv, SendInv, Typed, ProperRows, Proper
  <2>3. now \in Nat /\ now' \in Nat /\ now' >= now
    BY DEF Inv, SendInv, Typed, Clock
  <2>4. ledger[j].expires > now
    BY <2>1, <2>2, <2>3
  <2>5. ledger[j].created >= now - Retention /\ ledger[j].created >= now' - Retention
    BY <2>1, <2>3, <2>4, LiveIsKept DEF Inv, SendInv
  <2> QED BY <1>1, <2>1, <2>5
<1> QED BY <1>2, <1>3 DEF Traffic

LEMMA SentStays ==
  ASSUME Inv, Clock, LedgerMoves, Traffic
  PROVE  SentInv'
<1>1. \A j \in DOMAIN ledger', o \in Output : <<j, o>> \in delivered' =>
        /\ o \in DOMAIN ledger'[j].out
        /\ o \notin Native => ledger'[j].out[o] \in SentStatus
  <2> SUFFICES ASSUME NEW j \in DOMAIN ledger', NEW o \in Output, <<j, o>> \in delivered'
               PROVE  /\ o \in DOMAIN ledger'[j].out
                      /\ o \notin Native => ledger'[j].out[o] \in SentStatus
    OBVIOUS
  <2>1. CASE <<j, o>> \in delivered /\ Moved(j)
    BY <2>1 DEF Inv, SentInv, Moved, SameJob
  <2>2. CASE <<j, o>> \in delivered /\ Young(j)
    <3>1. sent[<<j, o>>] = 1
      BY <2>2 DEF Inv, SentInv
    <3>2. sent[<<j, o>>] = 0
      BY <2>2 DEF Inv, SendInv, LedgerFresh, Young, Fresh
    <3> QED BY <3>1, <3>2
  <2>3. CASE <<j, o>> \notin delivered
    BY <2>3 DEF Traffic
  <2> QED BY <2>1, <2>2, <2>3 DEF LedgerMoves
<1>2. \A j \in JobId, o \in Output : <<j, o>> \in inflight' =>
        /\ o \in DOMAIN ledger'[j].out
        /\ o \notin Native => <<j, o>> \in delivered'
  <2> SUFFICES ASSUME NEW j \in JobId, NEW o \in Output, <<j, o>> \in inflight'
               PROVE  /\ o \in DOMAIN ledger'[j].out
                      /\ o \notin Native => <<j, o>> \in delivered'
    OBVIOUS
  <2>1. Moved(j)
    BY UseStays
  <2>2. o \in DOMAIN ledger[j].out /\ (o \notin Native => <<j, o>> \in delivered)
    BY DEF Inv, SentInv, Traffic, Launched
  <2> QED BY <2>1, <2>2 DEF Moved, SameJob, Traffic
<1>3. \A d \in delivered' : sent'[d] = 1
  BY DEF Traffic
<1> QED BY <1>1, <1>2, <1>3 DEF SentInv

LEMMA ClipsStay ==
  ASSUME Inv, Clock, LedgerMoves, Files
  PROVE  ClipsInv'
<1> SUFFICES ASSUME NEW j \in DOMAIN ledger', "ready" \in States(ledger'[j]),
                    ledger'[j].expires > now'
             PROVE  j \in clips'
  BY DEF ClipsInv, States
<1>1. PICK o \in DOMAIN ledger'[j].out : ledger'[j].out[o] = "ready"
  BY StatesAre
<1>2. Moved(j)
  BY <1>1 DEF LedgerMoves, Young
<1>3. ledger'[j].expires > now /\ ledger'[j].expires = ledger[j].expires
      /\ DOMAIN ledger'[j].out = DOMAIN ledger[j].out
  <2>1. ledger'[j].expires \in Nat /\ ledger'[j].expires = ledger[j].expires
        /\ DOMAIN ledger'[j].out = DOMAIN ledger[j].out
    BY <1>2, RowFields DEF Moved, SameJob
  <2> QED BY <2>1 DEF Inv, SendInv, Typed, Clock
<1>4. CASE ledger[j].out[o] = "ready"
  <2>1. "ready" \in States(ledger[j])
    BY <1>1, <1>3, <1>4, StatesAre
  <2> QED BY <1>2, <1>3, <2>1 DEF Inv, ClipsInv, Files, Moved
<1>5. CASE ledger[j].out[o] # "ready"
  BY <1>1, <1>2, <1>3, <1>5 DEF Moved, Files
<1> QED BY <1>4, <1>5

\* Only the worker gives the lane to a job, and to the one in hand.
LEMMA LaneMoves ==
  ASSUME Inv, Clock, LedgerMoves, NEW j \in DOMAIN ledger', HoldsLane(ledger'[j], now')
  PROVE  j \in DOMAIN ledger /\ (HoldsLane(ledger[j], now) \/ Held(j))
<1>1. PICK o \in DOMAIN ledger'[j].out : ledger'[j].out[o] \in LaneStatus
  BY StatesAre DEF HoldsLane
<1>2. Moved(j)
  BY <1>1 DEF LedgerMoves, Young, LaneStatus
<1>3. ledger'[j].expires \in Nat /\ ledger'[j].expires = ledger[j].expires
      /\ DOMAIN ledger'[j].out = DOMAIN ledger[j].out
  BY <1>2, RowFields DEF Moved, SameJob
<1>4. ledger[j].out[o] \in LaneStatus \/ Held(j)
  BY <1>1, <1>2, <1>3 DEF Moved
<1>5. ledger[j].expires + LaneGuard > now
  <2>1. LaneGuard \in Nat
    BY ConstantsAssumption
  <2> QED BY <1>3, <2>1 DEF HoldsLane, Inv, SendInv, Typed, Clock
<1>6. ledger[j].out[o] \in LaneStatus => HoldsLane(ledger[j], now)
  BY <1>1, <1>3, <1>5, StatesAre DEF HoldsLane
<1> QED BY <1>2, <1>4, <1>6 DEF Moved

\* The worker keeps its job, lets go of it, or holds none.
LEMMA LaneStays ==
  ASSUME Inv, Clock, LedgerMoves,
         worker'.step \in Active => worker.step \in Active /\ worker'.job = worker.job
  PROVE  LaneInv'
<1>1. \A j \in DOMAIN ledger' : HoldsLane(ledger'[j], now') =>
        j \in DOMAIN ledger /\ (HoldsLane(ledger[j], now) \/ Held(j))
  BY LaneMoves
<1>2. \A j, k \in DOMAIN ledger' :
        HoldsLane(ledger'[j], now') /\ HoldsLane(ledger'[k], now') => j = k
  BY <1>1 DEF Inv, LaneInv, Held
<1>3. worker'.step \in Active =>
        \A j \in DOMAIN ledger' : HoldsLane(ledger'[j], now') => j = worker'.job
  BY <1>1 DEF Inv, LaneInv, Held
<1> QED BY <1>2, <1>3 DEF LaneInv, HoldsLane, States

LEMMA KeptStays ==
  ASSUME Inv, Clock, LedgerMoves, Traffic,
         worker'.step \in Active => worker.step \in Active /\ worker'.job = worker.job
  PROVE  Kept'
<1> SUFFICES ASSUME NEW j \in JobId,
                    (worker'.step \in Active /\ worker'.job = j)
                      \/ \E o \in Output : <<j, o>> \in inflight'
             PROVE  j \in DOMAIN ledger' /\ ledger'[j].created >= now' - Retention
  BY DEF Kept, Held
<1> QED BY UseStays DEF Held

LEMMA AllowedStays ==
  ASSUME Inv, Clock, LedgerMoves, Traffic,
         config' = config \/ inflight' = {},
         worker'.step \in Active =>
           worker.step \in Active /\ worker'.job = worker.job /\ config' = config
  PROVE  AllowedInv'
<1>1. \A j \in JobId, o \in Native : <<j, o>> \in inflight' =>
        o \in config'.outputs /\ ledger'[j].caller \in config'.callers
  <2> SUFFICES ASSUME NEW j \in JobId, NEW o \in Native, <<j, o>> \in inflight'
               PROVE  o \in config'.outputs /\ ledger'[j].caller \in config'.callers
    OBVIOUS
  <2>1. Moved(j) /\ config' = config
    BY UseStays, ConstantsAssumption
  <2>2. o \in config.outputs /\ ledger[j].caller \in config.callers
    BY DEF Inv, AllowedInv, Traffic, Launched
  <2> QED BY <2>1, <2>2 DEF Moved, SameJob
<1>2. ASSUME worker'.step \in Active PROVE Authorized(Job)'
  <2>1. Held(worker.job) /\ worker'.job = worker.job /\ config' = config
    BY <1>2 DEF Held
  <2>2. worker.job \in JobId
    BY <2>1, HandIs DEF Held
  <2>3. Moved(worker.job)
    BY <2>1, <2>2, UseStays
  <2> QED BY <2>1, <2>3 DEF Inv, AllowedInv, Held, Authorized, Job, Moved, SameJob
<1> QED BY <1>1, <1>2 DEF AllowedInv

LEMMA SettledStep ==
  ASSUME LedgerMoves, NEW j \in DOMAIN ledger \cap DOMAIN ledger', NEW o \in DOMAIN ledger[j].out,
         ledger[j].out[o] \in SettledStatus
  PROVE  ledger'[j].out[o] = ledger[j].out[o]
BY DEF LedgerMoves, Moved, Young

-----------------------------------------------------------------------------
(* Ledgers *)

\* A ledger in which the deliveries are not sent, and none but old rows are missing.
Drifting(rows) ==
  /\ \A j \in DOMAIN ledger : ledger[j].created >= now - Retention => j \in DOMAIN rows
  /\ \A j \in DOMAIN rows : j \in DOMAIN ledger /\ Drifts(rows[j], ledger[j], now)

\* The same, by others than the worker.
Resting(rows) ==
  /\ \A j \in DOMAIN ledger : ledger[j].created >= now - Retention => j \in DOMAIN rows
  /\ \A j \in DOMAIN rows :
       /\ j \in DOMAIN ledger /\ Rests(rows[j], ledger[j], now)
       /\ Held(j) => Leaves(rows[j], ledger[j], now)

LEMMA RestingDrifts == \A rows : Resting(rows) => Drifting(rows)
BY DEF Resting, Drifting, Rests

LEMMA DriftsMoved ==
  ASSUME NEW j \in DOMAIN ledger, Drifts(ledger'[j], ledger[j], now)
  PROVE  Moved(j)
BY DEF Drifts, Keeps, Moved

LEMMA DriftingMoves == Drifting(ledger') => LedgerMoves
BY DriftsMoved DEF Drifting, LedgerMoves

LEMMA RowsProper ==
  ASSUME Typed, NEW j \in DOMAIN ledger
  PROVE  Proper(ledger[j]) /\ ledger[j] \in Row /\ DOMAIN ledger[j].out # {}
BY DEF Typed, ProperRows, Proper

LEMMA LedgerRests == Typed => Resting(ledger)
BY RowsProper, RestsItself DEF Resting

LEMMA CleanedRests ==
  ASSUME Typed
  PROVE  /\ Resting(Cleaned)
         /\ \A j \in DOMAIN Cleaned : Cleaned[j].status = "accepted" => ~(ledger[j].expires <= now)
<1>1. now \in Nat
  BY DEF Typed
<1>2. /\ DOMAIN Cleaned = {k \in DOMAIN ledger : ledger[k].created >= now - Retention}
      /\ \A j \in DOMAIN Cleaned : Cleaned[j] = Sweep(ledger[j], now)
  BY DEF Cleaned, CleanupOf
<1>3. \A j \in DOMAIN ledger :
        /\ Rests(Sweep(ledger[j], now), ledger[j], now)
        /\ Leaves(Sweep(ledger[j], now), ledger[j], now)
        /\ Sweep(ledger[j], now).status = "accepted" => ~(ledger[j].expires <= now)
  BY <1>1, RowsProper, SweepRests
<1> QED BY <1>2, <1>3 DEF Resting

LEMMA EditRests ==
  ASSUME NEW rows, Resting(rows), NEW j, NEW row,
         j \in DOMAIN rows =>
           Rests(row, rows[j], now) /\ (Held(j) => Leaves(row, rows[j], now))
  PROVE  Resting([rows EXCEPT ![j] = row])
<1> DEFINE new == [rows EXCEPT ![j] = row]
<1>1. DOMAIN new = DOMAIN rows
  OBVIOUS
<1>2. ASSUME NEW i \in DOMAIN rows
      PROVE  /\ i \in DOMAIN ledger /\ Rests(new[i], ledger[i], now)
             /\ Held(i) => Leaves(new[i], ledger[i], now)
  <2>1. /\ i \in DOMAIN ledger /\ Rests(rows[i], ledger[i], now)
        /\ Held(i) => Leaves(rows[i], ledger[i], now)
    BY DEF Resting
  <2>2. CASE i # j
    <3>1. new[i] = rows[i]
      BY <2>2
    <3> QED BY <2>1, <3>1
  <2>3. CASE i = j
    <3>1. new[i] = row
      BY <2>3
    <3> HIDE DEF new
    <3> QED BY <2>1, <2>3, <3>1, RestsOn
  <2> QED BY <2>2, <2>3
<1> HIDE DEF new
<1>3. Resting(new)
  BY <1>1, <1>2 DEF Resting
<1> QED BY <1>3 DEF new

LEMMA FilesKept ==
  ASSUME Inv, LedgerMoves, clips \subseteq clips' \/ clips' = ClipsKept
  PROVE  Files
<1> SUFFICES ASSUME NEW j \in DOMAIN ledger' \cap clips, ledger'[j].expires > now,
                    clips' = ClipsKept
             PROVE  j \in clips'
  BY DEF Files
<1>1. Moved(j)
  <2>1. j \in 1 .. issued /\ issued \in 0 .. MaxJobs /\ MaxJobs \in Nat
    BY ConstantsAssumption DEF Inv, ProcessInv, SendInv, Typed
  <2>2. ~(j > issued)
    BY <2>1
  <2> QED BY <2>2 DEF LedgerMoves, Young
<1>2. j \in DOMAIN ledger /\ ledger[j].expires > now /\ now \in Nat
  BY <1>1 DEF Moved, SameJob, Inv, SendInv, Typed
<1>3. ledger[j].created >= now - Retention
  BY <1>2, LiveIsKept DEF Inv, SendInv
<1>4. j \in DOMAIN Cleaned
  BY <1>2, <1>3 DEF Cleaned, CleanupOf
<1> QED BY <1>2, <1>4 DEF ClipsKept

-----------------------------------------------------------------------------
(* Steps of others than the worker *)

Aside ==
  /\ worker' = worker /\ config' = config /\ (phase' # "down" => phase # "down")
  /\ Clock /\ Traffic /\ Files
  /\ \A j \in DOMAIN ledger : ledger[j].created >= now - Retention => j \in DOMAIN ledger'
  /\ \A j \in DOMAIN ledger' :
       \/ /\ j \in DOMAIN ledger /\ Rests(ledger'[j], ledger[j], now)
          /\ Held(j) => Leaves(ledger'[j], ledger[j], now)
       \/ Young(j)
  /\ \A j \in JobId, o \in Output \ Native : <<j, o>> \in delivered' => <<j, o>> \in delivered

LEMMA AsideMoves == Aside => LedgerMoves
BY DriftsMoved DEF Aside, LedgerMoves, Rests

LEMMA CalmLater ==
  ASSUME NEW row \in Row, NEW t \in Nat, NEW u \in Nat, t <= u, Calm(row, t)
  PROVE  Calm(row, u)
<1>1. row.expires \in Nat
  BY RowFields
<1>2. row.expires <= t => row.expires <= u
  BY <1>1
<1> QED BY <1>2 DEF Calm

LEMMA AsideCalm ==
  ASSUME Inv, Aside
  PROVE  CalmInv'
<1> SUFFICES ASSUME phase # "down", worker.step # "dead", NEW j \in DOMAIN ledger', ~InHand(j)
             PROVE  Calm(ledger'[j], now')
  BY DEF Aside, CalmInv, InHand, Calm, States
<1>1. CASE j \in DOMAIN ledger /\ Rests(ledger'[j], ledger[j], now)
  <2>1. Calm(ledger'[j], now) /\ ledger'[j] \in Row
    BY <1>1 DEF Inv, CalmInv, Rests, Drifts
  <2> QED BY <2>1, CalmLater DEF Aside, Clock, Inv, SendInv, Typed
<1>2. CASE Young(j)
  <2>1. States(ledger'[j]) = {"accepted"}
    BY <1>2, OnlyAccepted DEF Young
  <2> QED BY <1>2, <2>1 DEF Young, Calm
<1> QED BY <1>1, <1>2 DEF Aside

\* The job in hand as others leave it.
LEMMA HandStays ==
  ASSUME Inv, Aside
  PROVE  HandInv'
<1> DEFINE j == worker.job
<1>1. CASE worker.step \notin Active
  BY <1>1 DEF Aside, HandInv, Active, Busy
<1>2. CASE worker.step \in Active
  <2>1. Held(j) /\ j \in JobId /\ Job \in Row /\ DOMAIN Job.out \subseteq Output
    BY <1>2, HandIs
  <2>2. /\ j \in DOMAIN ledger' /\ j \in DOMAIN ledger
        /\ Drifts(ledger'[j], ledger[j], now) /\ Leaves(ledger'[j], ledger[j], now)
    <3>1. j \in DOMAIN ledger' /\ Moved(j)
      BY <2>1, AsideMoves, UseStays DEF Aside
    <3> QED BY <2>1, <3>1 DEF Aside, Young, Moved, Rests
  <2> DEFINE old == ledger[j]
             new == ledger'[j]
  <2>3. Job = old /\ Job' = new /\ worker'.job = j /\ worker' = worker
    BY DEF Job, Aside
  <2>4. new.expires = old.expires /\ DOMAIN new.out = DOMAIN old.out /\ old.expires \in Nat
        /\ now \in Nat /\ now' \in Nat /\ now' >= now
    BY <2>1, <2>2, <2>3, RowFields DEF Drifts, SameJob, Inv, SendInv, Typed, Aside, Clock
  <2>5. \A o \in DOMAIN old.out : Untouched(old, o, now) => Untouched(new, o, now')
    BY <2>2, <2>4 DEF Leaves, Untouched
  <2>6. \A o \in DOMAIN old.out :
          /\ new.out[o] \in {"accepted", "dispatching"} => old.out[o] = new.out[o]
          /\ o \notin Native /\ old.out[o] \in SentStatus => new.out[o] \in SentStatus
    BY <2>2 DEF Drifts, Keeps
  <2>7. (old.expires > now => j \in clips) => (new.expires > now' => j \in clips')
    <3>1. new.expires > now' => old.expires > now /\ new.expires > now
      BY <2>4
    <3> QED BY <2>2, <3>1 DEF Aside, Files
  <2>8. worker.step \in {"publishing", "transmitting", "awaiting"} => worker.output \notin Native
    BY DEF Inv, SendInv, WorkerFresh
  <2>9. worker.output \in Output \ Native /\ <<j, worker.output>> \notin delivered
        => <<j, worker.output>> \notin delivered'
    BY <2>1 DEF Aside
  <2> HIDE DEF old, new
  <2> QED BY <2>1, <2>3, <2>4, <2>5, <2>6, <2>7, <2>8, <2>9 DEF Inv, HandInv, Busy
<1> QED BY <1>1, <1>2

LEMMA AsideStep ==
  ASSUME Inv, SendInv', ProcessInv', Aside
  PROVE  Onward
<1>1. LedgerMoves
  BY AsideMoves
<1>2. worker'.step \in Active => worker.step \in Active /\ worker'.job = worker.job
  BY DEF Aside
<1>3. SoundInv'
  BY <1>1, SoundStays DEF Inv, SendInv, Aside
<1>4. Kept' /\ SentInv' /\ LaneInv' /\ ClipsInv'
  BY <1>1, <1>2, KeptStays, SentStays, LaneStays, ClipsStay DEF Aside
<1>5. AllowedInv'
  BY <1>1, <1>2, AllowedStays DEF Aside
<1> QED BY <1>1, <1>3, <1>4, <1>5, AsideCalm, HandStays DEF Inv, Onward, Aside

LEMMA ClockStays ==
  ASSUME Typed, now' = now \/ now' \in Readable
  PROVE  Clock
<1>1. now \in Nat /\ MaxTime \in Nat
  BY ConstantsAssumption DEF Typed
<1> QED BY <1>1 DEF Clock, Readable

\* No response begins and nothing is sent.
LEMMA TrafficEnds ==
  ASSUME Inv, inflight' \subseteq inflight, UNCHANGED <<sent, delivered>>
  PROVE  Traffic
BY DEF Traffic, Inv, SendInv, Typed, SentInv

\* Steps of others that accept no job.
LEMMA RestingStep ==
  ASSUME Inv, SendInv', ProcessInv', worker' = worker, config' = config,
         phase' # "down" => phase # "down",
         now' = now \/ now' \in Readable \/ Clock, Traffic, Resting(ledger'),
         clips' = clips \/ clips' = ClipsKept,
         \A j \in JobId, o \in Output \ Native : <<j, o>> \in delivered' => <<j, o>> \in delivered
  PROVE  Onward
<1>1. LedgerMoves
  BY RestingDrifts, DriftingMoves
<1>2. Files /\ Clock
  BY <1>1, FilesKept, ClockStays DEF Inv, SendInv
<1>3. Aside
  BY <1>2 DEF Aside, Resting
<1> QED BY <1>3, AsideStep

\* The request threads change neither the process nor the worker.
LEMMA RequestProcess ==
  ASSUME Inv, UNCHANGED <<process, worker>>, clips' \subseteq clips, delivered' \subseteq Delivery,
         issued' = issued \/ issued' = issued + 1,
         inflight' \subseteq inflight \/ Serving
  PROVE  ProcessInv'
<1>1. issued \in Nat
  BY ConstantsAssumption DEF Inv, SendInv, Typed
<1>2. 0 .. issued \subseteq 0 .. issued' /\ 1 .. issued \subseteq 1 .. issued'
  BY <1>1
<1>3. worker' \in [step : Steps, job : 0 .. issued', todo : SUBSET Output,
                   output : Output \cup {NoOutput}, state : Status \cup {"none"}]
  BY <1>2 DEF Inv, ProcessInv
<1> QED BY <1>2, <1>3 DEF Inv, ProcessInv, process, Serving

LEMMA LookInv == ASSUME Inv, Look PROVE Onward
<1>1. SendInv' /\ Traffic /\ ProcessInv' /\ Typed
  BY LookStep, TrafficEnds, RequestProcess
     DEF Inv, SendInv, Look, outside, Commit, RollBack, ClipsKept, ProcessInv
<1>2. Resting(ledger')
  BY <1>1, CleanedRests, LedgerRests DEF Look, Commit, RollBack
<1> QED BY <1>1, <1>2, RestingStep DEF Look, Commit, RollBack, process, outside

LEMMA DropInv ==
  ASSUME Inv, NEW j \in JobId, NEW o \in Output, Drop(j, o)
  PROVE  Onward
<1>1. SendInv' /\ Traffic /\ ProcessInv' /\ Typed
  BY DropStep, TrafficEnds, RequestProcess DEF Inv, SendInv, Drop, ProcessInv
<1>2. Resting(ledger')
  BY <1>1, LedgerRests DEF Drop
<1> QED BY <1>1, <1>2, RestingStep DEF Drop, process

LEMMA RespondInv ==
  ASSUME Inv, NEW j \in JobId, NEW o \in Output, Respond(j, o)
  PROVE  Onward
<1>1. SendInv' /\ Typed
  BY RespondStep DEF Inv, SendInv
<1>2. j \in DOMAIN ledger /\ o \in DOMAIN ledger[j].out /\ <<j, o>> \in Delivery
  BY DEF Respond, Inv, Kept, SentInv, Delivery
<1>3. \A d \in delivered' : sent'[d] = 1
  <2>1. sent' \in [Delivery -> {0, 1}] /\ sent \in [Delivery -> {0, 1}]
    BY <1>1 DEF SendInv, Typed
  <2>2. delivered' \subseteq Delivery /\ delivered \subseteq Delivery
    BY <1>2 DEF Respond, Inv, ProcessInv
  <2>3. \A d \in Delivery : d # <<j, o>> => sent'[d] = sent[d]
    BY <2>1 DEF Respond
  <2>4. sent'[<<j, o>>] = sent[<<j, o>>] + 1
    BY <1>2, <2>1 DEF Respond
  <2>5. sent'[<<j, o>>] = 1
    BY <1>2, <2>1, <2>4
  <2> QED BY <2>2, <2>3, <2>5 DEF Respond, Inv, SentInv
<1>4. Traffic
  <2>1. inflight' \subseteq inflight /\ inflight \subseteq Delivery /\ delivered \subseteq delivered'
    BY <1>1 DEF Respond, Typed
  <2>2. \A i, p : <<i, p>> \in delivered' =>
          <<i, p>> \in delivered \/ (i = j /\ p = o)
    BY DEF Respond
  <2>3. ledger' = ledger /\ o \in Native
    BY DEF Respond
  <2> QED BY <1>2, <1>3, <2>1, <2>2, <2>3 DEF Traffic
<1>5. ProcessInv'
  BY <1>2, RequestProcess DEF Respond, Inv, ProcessInv
<1>6. Resting(ledger')
  BY <1>1, LedgerRests DEF Respond
<1>7. \A i \in JobId, p \in Output \ Native : <<i, p>> \in delivered' => <<i, p>> \in delivered
  BY DEF Respond
<1> QED BY <1>1, <1>4, <1>5, <1>6, <1>7, RestingStep DEF Respond, process

LEMMA GetInv ==
  ASSUME Inv, NEW j \in JobId, NEW o \in Output, Get(j, o)
  PROVE  Onward
<1>1. SendInv' /\ Typed
  BY GetStep DEF Inv, SendInv
<1>2. j \in DOMAIN ledger /\ ledger[j].gets[o] < MediaLimit
      /\ o \in DOMAIN ledger[j].out /\ ledger[j].expires > now'
  BY DEF Get, MayFetch, Inv, SentInv
<1>3. Resting(ledger')
  <2> DEFINE row == [ledger[j] EXCEPT !.gets[o] = @ + 1]
  <2>1. Rests(row, ledger[j], now) /\ Leaves(row, ledger[j], now)
    BY <1>1, <1>2, RowsProper, FetchRests DEF Typed
  <2>2. ledger' = [ledger EXCEPT ![j] = row]
    BY DEF Get
  <2> HIDE DEF row
  <2> QED BY <1>1, <2>1, <2>2, LedgerRests, EditRests
<1>4. Traffic
  <2>1. inflight' \subseteq Delivery
    BY <1>1 DEF SendInv, Typed
  <2>2. Launched(j, o)
    BY <1>2 DEF Launched, Get
  <2>3. \A i, p : <<i, p>> \in inflight' => <<i, p>> \in inflight \/ (i = j /\ p = o)
    BY DEF Get
  <2> QED BY <2>1, <2>2, <2>3 DEF Traffic, Get, Inv, SentInv
<1>5. ProcessInv'
  BY RequestProcess DEF Get, Inv, ProcessInv
<1> QED BY <1>1, <1>3, <1>4, <1>5, RestingStep DEF Get, process

LEMMA FetchedInv ==
  ASSUME Inv, NEW j \in JobId, NEW o \in Output, Fetched(j, o)
  PROVE  Onward
<1>1. SendInv' /\ Typed
  BY FetchedStep DEF Inv, SendInv
<1>2. /\ j \in DOMAIN ledger /\ o \in DOMAIN ledger[j].out
      /\ ledger[j].out[o] \in SentStatus
  BY DEF Fetched, Inv, Kept, SentInv
<1>3. Resting(ledger')
  <2> DEFINE row == Refresh(Set(ledger[j], o, "media_fetched_unconfirmed"))
  <2>1. Rests(row, ledger[j], now) /\ Leaves(row, ledger[j], now)
    <3>1. ledger[j] \in Row /\ now \in Nat
      BY <1>1, <1>2, RowsProper DEF Typed
    <3>2. "media_fetched_unconfirmed" \in Status \ {"accepted", "ready", "dispatching"}
          /\ "media_fetched_unconfirmed" \in SentStatus
      BY StatusNames DEF SentStatus
    <3>3. /\ ledger[j].out[o] \in LaneStatus
          /\ ledger[j].out[o] \notin {"accepted", "expired"}
          /\ ledger[j].out[o] \in SettledStatus
               => ledger[j].out[o] = "media_fetched_unconfirmed"
      BY <1>2 DEF SentStatus, LaneStatus, SettledStatus
    <3> QED BY <1>2, <3>1, <3>2, <3>3, MarkRests
  <2>2. ledger' = [ledger EXCEPT ![j] = row]
    BY DEF Fetched, Mark
  <2> HIDE DEF row
  <2> QED BY <1>1, <2>1, <2>2, LedgerRests, EditRests
<1>4. Traffic
  BY TrafficEnds DEF Fetched
<1>5. ProcessInv'
  BY RequestProcess DEF Fetched, Inv, ProcessInv
<1> QED BY <1>1, <1>3, <1>4, <1>5, RestingStep DEF Fetched, process

\* An app reports on a clip, or its claim is answered or refused.
LEMMA MarkCleaned ==
  ASSUME Typed, NEW j \in DOMAIN Cleaned, NEW o \in DOMAIN Cleaned[j].out, o \in Native,
         Cleaned[j].out[o] \in {"ready", "claimed", "uncertain"},
         NEW status \in Status \ {"accepted", "ready", "dispatching"},
         status \in LaneStatus => status = "claimed"
  PROVE  Resting(Mark(Cleaned, j, o, status))
<1> DEFINE row == Refresh(Set(Cleaned[j], o, status))
<1>1. Cleaned[j] \in Row /\ now \in Nat
  BY CleanedRests DEF Resting, Rests, Drifts, Typed
<1>2. /\ Cleaned[j].out[o] \notin SettledStatus /\ Cleaned[j].out[o] \in LaneStatus
      /\ Cleaned[j].out[o] \notin {"accepted", "expired"}
  BY DEF SettledStatus, LaneStatus
<1>3. Rests(row, Cleaned[j], now) /\ Leaves(row, Cleaned[j], now)
  BY <1>1, <1>2, MarkRests
<1>4. Mark(Cleaned, j, o, status) = [Cleaned EXCEPT ![j] = row]
  BY DEF Mark
<1> HIDE DEF row
<1>5. Resting(Cleaned)
  BY CleanedRests
<1>6. Resting([Cleaned EXCEPT ![j] = row])
  BY <1>3, <1>5, EditRests
<1> QED BY <1>4, <1>6

LEMMA ReportInv ==
  ASSUME Inv, NEW o \in Output, NEW j \in JobId, NEW status \in AppResult,
         Report(o, j, status)
  PROVE  Onward
<1>1. SendInv' /\ Typed
  BY ReportStep DEF Inv, SendInv
<1>2. ledger' \in {Cleaned, ledger} \/
        (/\ j \in DOMAIN Cleaned /\ Cleaned[j].out[o] \in {"claimed", "uncertain"}
         /\ ledger' = Mark(Cleaned, j, o, status))
  BY DEF Report, Commit, RollBack
<1>3. ASSUME j \in DOMAIN Cleaned, Cleaned[j].out[o] \in {"claimed", "uncertain"}
      PROVE  Resting(Mark(Cleaned, j, o, status))
  <2>1. /\ status \in Status \ {"accepted", "ready", "dispatching"}
        /\ status \notin LaneStatus
    BY ConstantsAssumption, StatusNames DEF LaneStatus
  <2>2. o \in Native /\ o \in DOMAIN Cleaned[j].out
    <3>1. /\ j \in DOMAIN ledger /\ Rests(Cleaned[j], ledger[j], now)
      BY <1>1, <1>3, CleanedRests DEF Resting
    <3> QED BY <3>1 DEF Report, Inv, SentInv, Rests, Drifts, SameJob
  <2> QED BY <1>1, <1>3, <2>1, <2>2, MarkCleaned
<1>4. Resting(ledger')
  BY <1>1, <1>2, <1>3, CleanedRests, LedgerRests
<1>5. Traffic /\ clips' = ClipsKept
  BY TrafficEnds DEF Report, outside, Commit, RollBack
<1>6. ProcessInv'
  BY <1>5, RequestProcess DEF Report, outside, Inv, ProcessInv, ClipsKept
<1> QED BY <1>1, <1>4, <1>5, <1>6, RestingStep DEF Report, process, outside

LEMMA ClaimInv ==
  ASSUME Inv, NEW o \in Output, Claim(o)
  PROVE  Onward
<1>1. SendInv' /\ Typed
  BY ClaimStep DEF Inv, SendInv
<1>2. /\ o \in Native /\ Serving /\ now' \in Readable /\ clips' = ClipsKept
      /\ UNCHANGED <<process, issued, worker, sent, delivered>>
  BY DEF Claim, Commit
<1>3. \/ /\ ledger' = Cleaned /\ inflight' = inflight
      \/ \E j \in Pollable(Cleaned, o) :
           \/ ledger' = Mark(Cleaned, j, o, "failed") /\ inflight' = inflight
           \/ /\ ledger' = Mark(Cleaned, j, o, "claimed")
              /\ inflight' = inflight \cup {<<j, o>>}
              /\ o \in config.outputs /\ Cleaned[j].caller \in config.callers
              /\ Cleaned[j].expires > now'
  BY DEF Claim, Commit, Earliest
<1>4. ASSUME NEW j \in Pollable(Cleaned, o), NEW status \in {"failed", "claimed"}
      PROVE  Resting(Mark(Cleaned, j, o, status))
  <2>1. j \in DOMAIN Cleaned /\ o \in DOMAIN Cleaned[j].out /\ Cleaned[j].out[o] = "ready"
    BY DEF Pollable
  <2>2. /\ status \in Status \ {"accepted", "ready", "dispatching"}
        /\ status \in LaneStatus => status = "claimed"
    BY StatusNames DEF LaneStatus
  <2> QED BY <1>1, <1>2, <2>1, <2>2, MarkCleaned
<1>5. Resting(ledger')
  BY <1>1, <1>3, <1>4, CleanedRests
<1>6. Traffic
  <2>1. \A i, p : <<i, p>> \in inflight' => <<i, p>> \in inflight \/ Launched(i, p)
    <3>1. ASSUME NEW j \in Pollable(Cleaned, o), o \in config.outputs,
                 Cleaned[j].caller \in config.callers, Cleaned[j].expires > now'
          PROVE  Launched(j, o)
      <4>1. j \in DOMAIN Cleaned /\ o \in DOMAIN Cleaned[j].out
        BY DEF Pollable
      <4>2. j \in DOMAIN ledger /\ SameJob(Cleaned[j], ledger[j])
        BY <1>1, <4>1, CleanedRests DEF Resting, Rests, Drifts
      <4> QED BY <1>2, <3>1, <4>1, <4>2 DEF SameJob, Launched
    <3>2. ASSUME NEW j, inflight' = inflight \cup {<<j, o>>}, Launched(j, o)
          PROVE  \A i, p : <<i, p>> \in inflight' => <<i, p>> \in inflight \/ Launched(i, p)
      <4>1. \A i, p : <<i, p>> \in inflight' => <<i, p>> \in inflight \/ (i = j /\ p = o)
        BY <3>2
      <4> QED BY <3>2, <4>1
    <3> QED BY <1>3, <3>1, <3>2
  <2>2. inflight' \subseteq Delivery
    BY <1>1 DEF SendInv, Typed
  <2> QED BY <1>2, <2>1, <2>2 DEF Traffic, Inv, SentInv
<1>7. ProcessInv'
  BY <1>2, RequestProcess DEF Inv, ProcessInv, ClipsKept
<1> QED BY <1>1, <1>2, <1>5, <1>6, <1>7, RestingStep DEF process

\* The row of a job that was just accepted.
LEMMA NewRowFields ==
  ASSUME NEW c \in Caller, NEW k \in Key, NEW ttl \in Ttl, NEW t \in Nat,
         config \in Configs, config.outputs # {}
  PROVE  LET r == NewRow(c, k, ttl, t) IN
         /\ r \in Row /\ r.created = t /\ r.expires = r.created + r.ttl
         /\ r.status = "accepted" /\ r.text /\ r.caller = c /\ DOMAIN r.out # {}
         /\ \A o \in DOMAIN r.out : r.out[o] = "accepted"
<1> DEFINE r == NewRow(c, k, ttl, t)
<1>1. /\ r \in Row /\ DOMAIN r.out = config.outputs
      /\ \A o \in config.outputs : r.out[o] = "accepted"
  BY NewRowProper DEF Proper
<1>2. /\ r.created = t /\ r.expires = t + ttl /\ r.ttl = ttl /\ r.status = "accepted"
      /\ r.text = TRUE /\ r.caller = c
  BY DEF NewRow
<1> QED BY <1>1, <1>2

LEMMA AcceptInv ==
  ASSUME Inv, NEW c \in Caller, NEW k \in Key, NEW ttl \in Ttl, Accept(c, k, ttl)
  PROVE  Onward
<1> DEFINE new == [j \in DOMAIN Cleaned \cup {issued'} |->
                     IF j = issued' THEN NewRow(c, k, ttl, now') ELSE Cleaned[j]]
<1>1. SendInv' /\ Typed
  BY AcceptStep DEF Inv, SendInv
<1>2. /\ now' \in Readable /\ clips' = ClipsKept /\ UNCHANGED <<process, worker, outside>>
      /\ \/ issued' = issued /\ ledger' \in {Cleaned, ledger}
         \/ /\ issued' = issued + 1 /\ issued < MaxJobs /\ config.outputs # {}
            /\ ledger' = new
  BY DEF Accept, Commit, RollBack
<1>3. Traffic
  BY <1>2, TrafficEnds DEF outside
<1>4. ProcessInv'
  BY <1>2, RequestProcess DEF outside, Inv, ProcessInv, ClipsKept
<1>5. CASE issued' = issued /\ ledger' \in {Cleaned, ledger}
  <2>1. Resting(ledger')
    BY <1>1, <1>5, CleanedRests, LedgerRests
  <2> QED BY <1>1, <1>2, <1>3, <1>4, <2>1, RestingStep DEF process, outside
<1>6. CASE /\ issued' = issued + 1 /\ issued < MaxJobs /\ config.outputs # {}
           /\ ledger' = new
  <2> DEFINE i == issued'
  <2>1. i \in JobId /\ i > issued /\ i \notin DOMAIN ledger
    <3>1. issued \in 0 .. MaxJobs /\ DOMAIN ledger \subseteq 1 .. issued /\ MaxJobs \in Nat
      BY <1>1, ConstantsAssumption DEF Typed
    <3> QED BY <1>6, <3>1 DEF JobId
  <2>2. Resting(Cleaned)
    BY <1>1, CleanedRests
  <2>3. /\ DOMAIN ledger' = DOMAIN Cleaned \cup {i}
        /\ ledger'[i] = NewRow(c, k, ttl, now')
        /\ \A j \in DOMAIN Cleaned : j # i => ledger'[j] = Cleaned[j]
    BY <1>6
  <2>4. i \notin DOMAIN Cleaned
    BY <2>1, <2>2 DEF Resting
  <2> HIDE DEF new
  <2>5. Young(i)
    <3>1. now' \in Nat /\ config \in Configs
      BY <1>1 DEF SendInv, Typed
    <3> DEFINE r == NewRow(c, k, ttl, now')
    <3>2. /\ r \in Row /\ r.created = now' /\ r.expires = r.created + r.ttl
          /\ r.status = "accepted" /\ r.text /\ DOMAIN r.out # {}
          /\ \A o \in DOMAIN r.out : r.out[o] = "accepted"
      BY <1>6, <3>1, NewRowFields
    <3>3. ledger'[i] = r
      BY <2>3
    <3> HIDE DEF r, i
    <3> QED BY <2>1, <3>2, <3>3 DEF Young
  <2> HIDE DEF i
  <2>6. \A j \in DOMAIN ledger : ledger[j].created >= now - Retention => j \in DOMAIN ledger'
    BY <2>2, <2>3 DEF Resting
  <2>7. \A j \in DOMAIN ledger' :
          \/ /\ j \in DOMAIN ledger /\ Rests(ledger'[j], ledger[j], now)
             /\ Held(j) => Leaves(ledger'[j], ledger[j], now)
          \/ Young(j)
    <3> SUFFICES ASSUME NEW j \in DOMAIN ledger', j # i
                 PROVE  /\ j \in DOMAIN ledger /\ Rests(ledger'[j], ledger[j], now)
                        /\ Held(j) => Leaves(ledger'[j], ledger[j], now)
      BY <2>5
    <3> QED BY <2>2, <2>3, <2>4 DEF Resting
  <2>8. Clock
    BY <1>1, <1>2, ClockStays
  <2>9. LedgerMoves
    BY <2>6, <2>7, DriftsMoved DEF LedgerMoves, Rests
  <2>10. Files
    BY <1>2, <2>9, FilesKept
  <2>11. Aside
    BY <1>2, <1>3, <2>6, <2>7, <2>8, <2>10 DEF Aside, process, outside
  <2> QED BY <1>1, <1>4, <2>11, AsideStep
<1> QED BY <1>2, <1>5, <1>6

-----------------------------------------------------------------------------
(* The process *)

\* Time passes, and the process stops step by step.
LEMMA ProcessInvStep ==
  ASSUME Inv, Stop \/ Supervise \/ CloseServers \/ Tick \/ UNCHANGED vars
  PROVE  Onward
<1>1. Typed /\ SendInv'
  <2>1. CASE Stop \/ Supervise \/ CloseServers \/ Tick
    BY <2>1, ProcessStep DEF Inv, SendInv
  <2>2. CASE UNCHANGED vars
    BY <2>2, SendInvStep DEF Inv, SendInv
  <2> QED BY <2>1, <2>2
<1>2. /\ UNCHANGED <<config, ledger, issued, clips, worker, inflight, sent, delivered>>
      /\ phase' # "down" => phase # "down"
      /\ now' = now \/ (now' = now + 1 /\ Reachable(now'))
  BY DEF Stop, Supervise, CloseServers, Tick, vars, process, outside
<1>3. Clock
  BY <1>1, <1>2 DEF Clock, Typed
<1>4. Traffic /\ Resting(ledger')
  BY <1>1, <1>2, TrafficEnds, LedgerRests
<1>5. ProcessInv'
  <2>1. /\ phase' \in {"up", "stopping", "draining", "down"}
        /\ phase' = "down" => phase = "down"
        /\ phase' \in {"draining", "down"} => inflight = {}
    BY DEF Inv, ProcessInv, Stop, Supervise, CloseServers, Tick, vars, process
  <2>2. restarts' \in 0 .. MaxRestarts
    BY ConstantsAssumption
       DEF Inv, ProcessInv, Stop, Supervise, CloseServers, Tick, vars, process
  <2> QED BY <1>2, <2>1, <2>2 DEF Inv, ProcessInv
<1> QED BY <1>1, <1>2, <1>3, <1>4, <1>5, RestingStep

\* The worker holds no job after the step.
LEMMA LetGo ==
  ASSUME Inv, SendInv', ProcessInv', CalmInv', Clock, LedgerMoves, Traffic, Files,
         worker'.step \in {"waiting", "dead"}, config' = config \/ inflight' = {}
  PROVE  Onward
<1>1. worker'.step \notin Active
  BY DEF Active
<1>2. SoundInv' /\ SentInv' /\ ClipsInv'
  BY SoundStays, SentStays, ClipsStay DEF Inv, SendInv
<1>3. Kept' /\ LaneInv'
  BY <1>1, KeptStays, LaneStays
<1>4. AllowedInv'
  BY <1>1, AllowedStays
<1>5. HandInv'
  BY DEF HandInv, Busy
<1> QED BY <1>2, <1>3, <1>4, <1>5 DEF Inv, Onward

LEMMA WorkerRecord ==
  ASSUME NEW step, NEW job, NEW todo, NEW output, NEW state,
         step \in Steps, job \in 0 .. issued', todo \subseteq Output,
         output \in Output \cup {NoOutput}, state \in Status \cup {"none"}
  PROVE  [step |-> step, job |-> job, todo |-> todo, output |-> output, state |-> state]
           \in [step : Steps, job : 0 .. issued', todo : SUBSET Output,
                output : Output \cup {NoOutput}, state : Status \cup {"none"}]
OBVIOUS

LEMMA IdleTyped ==
  ASSUME Inv, NEW step \in {"waiting", "dead"}, worker' = [Idle EXCEPT !.step = step],
         issued' = issued
  PROVE  /\ worker'.step = step /\ worker'.job = 0
         /\ worker' \in [step : Steps, job : 0 .. issued', todo : SUBSET Output,
                         output : Output \cup {NoOutput}, state : Status \cup {"none"}]
<1>1. worker' = [step |-> step, job |-> 0, todo |-> {}, output |-> NoOutput, state |-> "none"]
  BY DEF Idle
<1>2. 0 \in 0 .. issued'
  BY ConstantsAssumption DEF Inv, SendInv, Typed
<1>3. step \in Steps
  BY DEF Steps
<1>4. worker' \in [step : Steps, job : 0 .. issued', todo : SUBSET Output,
                   output : Output \cup {NoOutput}, state : Status \cup {"none"}]
  <2>1. {} \subseteq Output /\ NoOutput \in Output \cup {NoOutput}
        /\ "none" \in Status \cup {"none"}
    OBVIOUS
  <2>2. [step |-> step, job |-> 0, todo |-> {}, output |-> NoOutput, state |-> "none"]
          \in [step : Steps, job : 0 .. issued', todo : SUBSET Output,
               output : Output \cup {NoOutput}, state : Status \cup {"none"}]
    BY <1>2, <1>3, <2>1, WorkerRecord
  <2> QED BY <1>1, <2>2
<1> QED BY <1>1, <1>4

\* The ledger, the clips and the devices are as they were.
LEMMA NothingMoves ==
  ASSUME Inv, UNCHANGED <<now, ledger, clips, sent, delivered>>, inflight' \subseteq inflight
  PROVE  Clock /\ LedgerMoves /\ Traffic /\ Files
<1>1. Typed
  BY DEF Inv, SendInv
<1>2. Resting(ledger')
  BY <1>1, LedgerRests
<1>3. LedgerMoves
  BY <1>2, RestingDrifts, DriftingMoves
<1> QED BY <1>1, <1>3, ClockStays, TrafficEnds, FilesKept

LEMMA ExitInv ==
  ASSUME Inv, Exit \/ Crash
  PROVE  Onward
<1>1. SendInv'
  BY ProcessStep DEF Inv
<1>2. /\ phase' = "down" /\ worker' = Idle /\ inflight' \subseteq inflight
      /\ UNCHANGED <<now, config, ledger, issued, clips, sent, delivered>>
  BY DEF Exit, Crash, outside
<1>3. Clock /\ LedgerMoves /\ Traffic /\ Files
  BY <1>2, NothingMoves
<1>4. CalmInv'
  BY <1>2 DEF CalmInv
<1>5. inflight' = {} /\ restarts' \in 0 .. MaxRestarts
  BY ConstantsAssumption DEF Exit, Crash, Inv, ProcessInv, outside
<1>6. worker'.step = "waiting" /\ ProcessInv'
  BY <1>2, <1>5, IdleIs, IdleTyped DEF Inv, ProcessInv
<1> QED BY <1>1, <1>2, <1>3, <1>4, <1>6, LetGo

\* A new process leaves every job calm.
LEMMA StartupInv ==
  ASSUME Inv, Startup
  PROVE  Onward
<1>1. SendInv' /\ Typed
  BY ProcessStep DEF Inv, SendInv
<1>2. /\ phase = "down" /\ worker.step = "waiting" /\ inflight = {}
      /\ phase' = "up" /\ clips' = ClipsKept
      /\ UNCHANGED <<now, restarts, issued, worker, inflight, sent, delivered>>
  BY DEF Startup, Commit, outside, Inv, ProcessInv
<1> DEFINE rows == [j \in DOMAIN ledger |-> Recover(ledger[j])]
<1>3. ledger' = CleanupOf(rows)
  BY DEF Startup, Commit
<1>4. now \in Nat /\ \A j \in DOMAIN ledger : Drifts(rows[j], ledger[j], now) /\ Calm(rows[j], now)
                                               /\ rows[j].created = ledger[j].created
  <2>1. now \in Nat
    BY <1>1 DEF Typed
  <2> SUFFICES ASSUME NEW j \in DOMAIN ledger
               PROVE  /\ Drifts(Recover(ledger[j]), ledger[j], now)
                      /\ Calm(Recover(ledger[j]), now)
                      /\ Recover(ledger[j]).created = ledger[j].created
    BY <2>1
  <2>2. Proper(ledger[j]) /\ Sound(ledger[j], now)
    BY <1>1, RowsProper DEF Inv, SoundInv
  <2> QED BY <2>1, <2>2, RecoverDrifts DEF Drifts, SameJob
<1>5. DOMAIN rows = DOMAIN ledger
  OBVIOUS
<1>6. /\ DOMAIN ledger' = {k \in DOMAIN ledger : rows[k].created >= now - Retention}
      /\ \A j \in DOMAIN ledger' : ledger'[j] = Sweep(rows[j], now)
  BY <1>3, <1>5 DEF CleanupOf
<1> HIDE DEF rows
<1>7. \A j \in DOMAIN ledger' :
        j \in DOMAIN ledger /\ Drifts(ledger'[j], ledger[j], now) /\ Calm(ledger'[j], now)
  <2> SUFFICES ASSUME NEW j \in DOMAIN ledger'
               PROVE  Drifts(ledger'[j], ledger[j], now) /\ Calm(ledger'[j], now)
    BY <1>6
  <2>1. Drifts(rows[j], ledger[j], now) /\ Calm(rows[j], now) /\ rows[j] \in Row
        /\ DOMAIN rows[j].out # {}
    BY <1>1, <1>4, <1>6, RowsProper DEF Drifts, SameJob
  <2>2. Rests(ledger'[j], rows[j], now)
    BY <1>4, <1>6, <2>1, SweepRests
  <2> QED BY <2>1, <2>2, DriftsOn DEF Rests
<1>8. LedgerMoves
  BY <1>4, <1>6, <1>7, DriftingMoves DEF Drifting
<1>9. Clock /\ Traffic /\ Files
  BY <1>1, <1>2, <1>8, ClockStays, TrafficEnds, FilesKept
<1>10. CalmInv'
  BY <1>2, <1>7 DEF CalmInv, Calm, States
<1>11. ProcessInv'
  BY <1>2 DEF Inv, ProcessInv, ClipsKept
<1> QED BY <1>1, <1>2, <1>8, <1>9, <1>10, <1>11, LetGo

-----------------------------------------------------------------------------
(* The worker *)

\* The worker keeps its job, and no other row changes.
LEMMA KeepsJob ==
  ASSUME Inv, SendInv', ProcessInv', HandInv', Clock, LedgerMoves, Traffic, Files,
         config' = config, phase' = phase, now' = now,
         worker.step \in Active, worker'.step \in Active \ {"picked"}, worker'.job = worker.job,
         \A j \in DOMAIN ledger' : j # worker.job => j \in DOMAIN ledger /\ ledger'[j] = ledger[j]
  PROVE  Onward
<1>1. SoundInv' /\ SentInv' /\ ClipsInv' /\ Kept' /\ LaneInv' /\ AllowedInv'
  BY SoundStays, SentStays, ClipsStay, KeptStays, LaneStays, AllowedStays DEF Inv, SendInv
<1>2. CalmInv'
  <2> SUFFICES ASSUME phase # "down", NEW j \in DOMAIN ledger', j # worker.job
               PROVE  Calm(ledger'[j], now')
    BY DEF CalmInv, InHand, Active, Calm, States
  <2>1. j \in DOMAIN ledger /\ ledger'[j] = ledger[j] /\ ~InHand(j) /\ worker.step # "dead"
    BY DEF InHand, Active
  <2> QED BY <2>1 DEF Inv, CalmInv
<1> QED BY <1>1, <1>2 DEF Inv, Onward

LEMMA MovesTyped ==
  ASSUME Inv, worker.step \in Active,
         NEW step \in Active, NEW todo, todo \subseteq Output,
         NEW output, output \in Output \cup {NoOutput},
         NEW state, state \in Status \cup {"none"},
         Moves(step, todo, output, state),
         UNCHANGED <<process, issued, inflight>>,
         clips' \subseteq clips \cup {worker.job}, delivered' \subseteq Delivery
  PROVE  ProcessInv'
<1>1. phase' = phase /\ restarts' = restarts /\ phase # "down"
  BY DEF Inv, ProcessInv, process, Active
<1>2. clips' \subseteq 1 .. issued' /\ worker.job \in 0 .. issued'
  <2>1. worker.job \in 1 .. issued /\ issued' = issued
    BY HandIs
  <2> QED BY <2>1 DEF Inv, ProcessInv
<1>3. step \in Steps
  BY DEF Steps, Active
<1>4. [step |-> step, job |-> worker.job, todo |-> todo, output |-> output, state |-> state]
        \in [step : Steps, job : 0 .. issued', todo : SUBSET Output,
             output : Output \cup {NoOutput}, state : Status \cup {"none"}]
  BY <1>2, <1>3, WorkerRecord
<1>5. worker' \in [step : Steps, job : 0 .. issued', todo : SUBSET Output,
                   output : Output \cup {NoOutput}, state : Status \cup {"none"}]
  BY <1>4 DEF Moves
<1>6. worker'.step \notin {"waiting", "dead"}
  BY MovesFields DEF Active
<1> QED BY <1>1, <1>2, <1>5, <1>6 DEF Inv, ProcessInv

\* The locals of the worker.
LEMMA LocalsAre ==
  ASSUME Inv
  PROVE  /\ worker.todo \subseteq Output /\ worker.output \in Output \cup {NoOutput}
         /\ worker.state \in Status \cup {"none"} /\ delivered \subseteq Delivery
         /\ WorkerTyped
BY DEF Inv, ProcessInv, SendInv

\* A step of the worker that leaves the ledger alone.
LEMMA WorkerOnly ==
  ASSUME Inv, SendInv', HandInv', worker.step \in Active,
         NEW step \in Active \ {"picked"}, NEW todo, todo \subseteq Output,
         NEW output, output \in Output \cup {NoOutput},
         NEW state, state \in Status \cup {"none"},
         Moves(step, todo, output, state),
         UNCHANGED <<now, process, ledger, issued, inflight>>,
         clips \subseteq clips', clips' \subseteq clips \cup {worker.job},
         delivered' \subseteq Delivery, Traffic
  PROVE  Onward
<1>1. ProcessInv'
  BY MovesTyped
<1>2. Typed
  BY DEF Inv, SendInv
<1>3. Resting(ledger')
  BY <1>2, LedgerRests
<1>4. LedgerMoves
  BY <1>3, RestingDrifts, DriftingMoves
<1>5. Clock /\ Files
  BY <1>2, <1>4, ClockStays, FilesKept
<1>6. worker'.step = step /\ worker'.job = worker.job
  BY MovesFields
<1> QED BY <1>1, <1>4, <1>5, <1>6, KeepsJob DEF process

LEMMA PostponeInv == ASSUME Inv, Postpone PROVE Onward
<1>1. SendInv'
  BY PostponeStep DEF Inv
<1>2. /\ worker' = Idle /\ worker.step = "picked" /\ phase # "down"
      /\ UNCHANGED <<now, process, ledger, issued, clips, inflight, sent, delivered>>
  BY DEF Postpone, At, outside
<1>3. Clock /\ LedgerMoves /\ Traffic /\ Files
  BY <1>2, NothingMoves
<1>4. worker'.step = "waiting" /\ ProcessInv'
  BY <1>2, IdleIs, IdleTyped DEF Inv, ProcessInv, process
<1>5. CalmInv'
  BY <1>2, <1>4 DEF Inv, CalmInv, InHand, process, Calm, States
<1> QED BY <1>1, <1>2, <1>3, <1>4, <1>5, LetGo DEF process

LEMMA SynthesizeInv == ASSUME Inv, Synthesize PROVE Onward
<1>1. SendInv' /\ Traffic
  BY SynthesizeStep, TrafficEnds DEF Inv, Synthesize, outside
<1>2. /\ worker.step = "synthesizing" /\ clips \subseteq clips'
      /\ clips' \subseteq clips \cup {worker.job}
      /\ UNCHANGED <<now, process, ledger, issued, inflight, delivered>>
      /\ Goto("validating") \/ Goto("failing")
  BY DEF Synthesize, At, outside
<1>3. PICK step \in {"validating", "failing"} :
        Moves(step, worker.todo, worker.output, worker.state)
  BY <1>2, LocalsAre, WorkerEdits
<1>4. worker'.step = step /\ worker'.job = worker.job
  BY <1>3, MovesFields
<1>5. HandInv'
  BY <1>2, <1>4 DEF Inv, HandInv, Job, Busy, Untouched
<1> QED BY <1>1, <1>2, <1>3, <1>5, LocalsAre, WorkerOnly DEF Active

LEMMA ValidateInv == ASSUME Inv, Validate PROVE Onward
<1>1. SendInv' /\ Traffic
  BY ValidateStep, TrafficEnds DEF Inv, Validate, outside
<1>2. /\ worker.step = "validating"
      /\ UNCHANGED <<now, process, ledger, issued, clips, inflight, delivered>>
  BY DEF Validate, At, outside
<1>3. \/ Moves("failing", worker.todo, worker.output, worker.state)
      \/ /\ Moves("sending", DOMAIN Job.out, worker.output, worker.state)
         /\ worker.job \in clips
  BY LocalsAre, WorkerEdits DEF Validate
<1>4. CASE Moves("failing", worker.todo, worker.output, worker.state)
  <2>1. worker'.step = "failing"
    BY <1>4, MovesFields
  <2>2. HandInv'
    BY <2>1 DEF HandInv, Busy
  <2> QED BY <1>1, <1>2, <1>4, <2>2, LocalsAre, WorkerOnly DEF Active
<1>5. CASE /\ Moves("sending", DOMAIN Job.out, worker.output, worker.state)
           /\ worker.job \in clips
  <2>1. worker'.step = "sending" /\ worker'.job = worker.job /\ worker'.todo = DOMAIN Job.out
    BY <1>5, MovesFields
  <2>2. HandInv'
    BY <1>2, <1>5, <2>1 DEF Inv, HandInv, Job, Busy, Untouched
  <2>3. DOMAIN Job.out \subseteq Output
    BY <1>2, HandIs DEF Active
  <2> QED BY <1>1, <1>2, <1>5, <2>2, <2>3, LocalsAre, WorkerOnly DEF Active
<1> QED BY <1>3, <1>4, <1>5

\* What a device has is not a delivery that waits.
LEMMA UntouchedStayed ==
  ASSUME Inv, worker.step \in Active, NEW o \in DOMAIN Job.out, Untouched(Job, o, now),
         o \notin Native
  PROVE  <<worker.job, o>> \notin delivered
<1>1. worker.job \in DOMAIN ledger /\ o \in Output
  BY HandIs
<1>2. Job.out[o] \notin SentStatus
  BY DEF Untouched, SentStatus
<1> QED BY <1>1, <1>2 DEF Inv, SentInv, Job

LEMMA ChooseInv == ASSUME Inv, NEW o \in Output, Choose(o) PROVE Onward
<1>1. SendInv' /\ Traffic
  BY ChooseStep, TrafficEnds DEF Inv, Choose, outside
<1>2. /\ worker.step = "sending" /\ o \in worker.todo
      /\ UNCHANGED <<now, process, ledger, issued, clips, inflight, delivered>>
  BY DEF Choose, At, outside
<1>3. \/ \E state \in {"expired", "failed", "ready"} :
           Moves("recording", worker.todo \ {o}, o, state)
      \/ Moves("dispatching", worker.todo \ {o}, o, worker.state)
  <2>1. \A s, x :
          worker' = [[worker EXCEPT !.todo = @ \ {o}, !.output = o] EXCEPT !.step = s, !.state = x]
          => Moves(s, worker.todo \ {o}, o, x)
    BY LocalsAre DEF WorkerTyped, Moves
  <2>2. worker' = [[worker EXCEPT !.todo = @ \ {o}, !.output = o] EXCEPT !.step = "dispatching"]
        => Moves("dispatching", worker.todo \ {o}, o, worker.state)
    BY LocalsAre DEF WorkerTyped, Moves
  <2> QED BY <2>1, <2>2 DEF Choose
<1>4. /\ o \in DOMAIN Job.out /\ Untouched(Job, o, now) /\ worker.todo \subseteq DOMAIN Job.out
      /\ \A p \in worker.todo : Untouched(Job, p, now)
      /\ Job.expires > now => worker.job \in clips
      /\ \A p \in DOMAIN Job.out : Job.out[p] \in {"accepted", "dispatching"} => p \in worker.todo
  BY <1>2 DEF Inv, HandInv, Busy
<1>5. o \in Native \/ <<worker.job, o>> \notin delivered
  BY <1>2, <1>4, UntouchedStayed DEF Active
<1>6. ASSUME NEW step \in {"recording", "dispatching"}, NEW state,
             step = "recording" => state \in Status \ {"accepted", "dispatching"},
             Moves(step, worker.todo \ {o}, o, state)
      PROVE  HandInv'
  <2>1. worker'.step = step /\ worker'.job = worker.job /\ worker'.todo = worker.todo \ {o}
        /\ worker'.output = o /\ worker'.state = state
    BY <1>6, MovesFields
  <2> QED BY <1>2, <1>4, <1>5, <1>6, <2>1 DEF HandInv, Job, Busy, Untouched
<1>7. \A state \in {"expired", "failed", "ready"} : state \in Status \ {"accepted", "dispatching"}
  BY StatusNames
<1>8. worker.todo \ {o} \subseteq Output /\ o \in Output \cup {NoOutput}
  BY LocalsAre
<1>9. CASE Moves("dispatching", worker.todo \ {o}, o, worker.state)
  <2>1. HandInv'
    BY <1>6, <1>9
  <2> QED BY <1>1, <1>2, <1>8, <1>9, <2>1, LocalsAre, WorkerOnly DEF Active
<1>10. ASSUME NEW state \in {"expired", "failed", "ready"},
              Moves("recording", worker.todo \ {o}, o, state)
       PROVE  Onward
  <2>1. HandInv' /\ state \in Status \cup {"none"}
    BY <1>6, <1>7, <1>10
  <2> QED BY <1>1, <1>2, <1>8, <1>10, <2>1, LocalsAre, WorkerOnly DEF Active
<1> QED BY <1>3, <1>9, <1>10

\* The notification at work has one of these outcomes.
LEMMA ConcludeInv ==
  ASSUME Inv, SendInv', worker.step \in {"publishing", "transmitting", "awaiting"},
         UNCHANGED <<now, process, ledger, issued, clips, outside>>,
         NEW state \in {"uncertain", "published_unconfirmed", "failed", "expired"},
         Conclude(worker.output, state),
         state \in SentStatus \/ <<worker.job, worker.output>> \notin delivered
  PROVE  Onward
<1>1. Traffic /\ UNCHANGED <<inflight, delivered>>
  BY TrafficEnds DEF outside
<1>2. Moves("recording", worker.todo, worker.output, state)
  BY LocalsAre, WorkerEdits
<1>3. state \in Status \ {"accepted", "dispatching"} /\ state # "ready"
  BY StatusNames
<1>4. worker.output \notin Native
  BY DEF Inv, SendInv, WorkerFresh
<1>5. HandInv'
  <2>1. worker'.step = "recording" /\ worker'.job = worker.job /\ worker'.todo = worker.todo
        /\ worker'.output = worker.output /\ worker'.state = state
    BY <1>2, MovesFields
  <2>2. /\ worker.todo \subseteq DOMAIN Job.out
        /\ \A o \in worker.todo : Untouched(Job, o, now)
        /\ Job.expires > now => worker.job \in clips
        /\ worker.output \in DOMAIN Job.out \ worker.todo
        /\ \A o \in DOMAIN Job.out : Job.out[o] \in {"accepted", "dispatching"}
                                       => o \in worker.todo \cup {worker.output}
        /\ Job.out[worker.output] \in SentStatus
    BY DEF Inv, HandInv, Busy
  <2> QED BY <1>1, <1>3, <1>4, <2>1, <2>2 DEF HandInv, Job, Busy, Untouched
<1>6. worker.step \in Active /\ "recording" \in Active \ {"picked"}
  BY DEF Active
<1>7. state \in Status \cup {"none"} /\ clips \subseteq clips' /\ clips' \subseteq clips \cup {worker.job}
  BY <1>3
<1> QED BY <1>1, <1>2, <1>5, <1>6, <1>7, LocalsAre, WorkerOnly

LEMMA AwaitInv == ASSUME Inv, Await PROVE Onward
<1>1. SendInv' /\ worker.step = "awaiting"
  BY AwaitStep DEF Inv, Await, At
<1>2. "uncertain" \in SentStatus /\ "published_unconfirmed" \in SentStatus
  BY DEF SentStatus
<1>3. UNCHANGED <<now, process, ledger, issued, clips, outside>>
  BY DEF Await
<1> QED BY <1>1, <1>2, <1>3, ConcludeInv DEF Await

LEMMA PublishInv == ASSUME Inv, Publish PROVE Onward
<1>1. /\ SendInv' /\ worker.step = "publishing"
      /\ UNCHANGED <<now, process, ledger, issued, clips, outside>>
  BY PublishStep DEF Inv, Publish, At
<1>2. /\ worker.output \notin Native /\ worker.output \in Output
      /\ sent[<<worker.job, worker.output>>] = 0
  BY <1>1 DEF Inv, SendInv, WorkerFresh
<1>3. <<worker.job, worker.output>> \notin delivered
  BY <1>2 DEF Inv, SentInv
<1>4. CASE Conclude(worker.output, "failed") \/ Conclude(worker.output, "expired")
  BY <1>1, <1>3, <1>4, ConcludeInv
<1>5. Traffic /\ UNCHANGED <<inflight, delivered>>
  BY <1>1, TrafficEnds DEF outside
<1>6. CASE Goto("failing")
  <2>1. Moves("failing", worker.todo, worker.output, worker.state)
    BY <1>6, LocalsAre, WorkerEdits
  <2>2. worker'.step = "failing"
    BY <2>1, MovesFields
  <2>3. HandInv'
    BY <2>2 DEF HandInv, Busy
  <2> QED BY <1>1, <1>5, <2>1, <2>3, LocalsAre, WorkerOnly DEF Active
<1>7. CASE Goto("transmitting")
  <2>1. Moves("transmitting", worker.todo, worker.output, worker.state)
    BY <1>7, LocalsAre, WorkerEdits
  <2>2. worker'.step = "transmitting" /\ worker'.job = worker.job /\ worker'.todo = worker.todo
        /\ worker'.output = worker.output
    BY <2>1, MovesFields
  <2>3. HandInv'
    BY <1>1, <2>2 DEF Inv, HandInv, Job, Busy, Untouched
  <2> QED BY <1>1, <1>5, <2>1, <2>3, LocalsAre, WorkerOnly DEF Active
<1> QED BY <1>4, <1>6, <1>7 DEF Publish

LEMMA TransmitInv == ASSUME Inv, Transmit PROVE Onward
<1> DEFINE d == <<worker.job, worker.output>>
<1>1. /\ SendInv' /\ worker.step = "transmitting"
      /\ UNCHANGED <<now, process, ledger, issued, clips>>
  BY TransmitStep DEF Inv, Transmit, At
<1>2. /\ worker.output \notin Native /\ worker.output \in Output /\ sent[d] = 0
      /\ worker.job \in DOMAIN ledger /\ worker.job \in JobId
  <2>1. worker.job \in DOMAIN ledger /\ worker.job \in JobId
    BY <1>1, HandIs DEF Active
  <2>2. worker.output \notin Native /\ worker.output \in Output /\ sent[d] = 0
    BY <1>1 DEF Inv, SendInv, WorkerFresh
  <2> QED BY <2>1, <2>2
<1>3. d \notin delivered
  BY <1>2 DEF Inv, SentInv
<1>4. CASE UNCHANGED outside /\ Conclude(worker.output, "uncertain")
  BY <1>1, <1>3, <1>4, ConcludeInv
<1>6. CASE /\ Goto("awaiting") /\ inflight' = inflight
           /\ sent' = [sent EXCEPT ![d] = @ + 1]
           /\ delivered' \in {delivered, delivered \cup {d}}
  <2>1. Moves("awaiting", worker.todo, worker.output, worker.state)
    BY <1>6, LocalsAre, WorkerEdits
  <2>2. worker'.step = "awaiting" /\ worker'.job = worker.job /\ worker'.todo = worker.todo
        /\ worker'.output = worker.output
    BY <2>1, MovesFields
  <2>3. HandInv'
    BY <1>1, <2>2 DEF Inv, HandInv, Job, Busy, Untouched
  <2>4. d \in Delivery /\ delivered' \subseteq Delivery
    BY <1>2, <1>6, LocalsAre DEF Delivery
  <2>5. \A e \in delivered' : sent'[e] = 1
    <3>1. sent \in [Delivery -> {0, 1}]
      BY DEF Inv, SendInv, Typed
    <3>2. sent'[d] = 1 /\ \A e \in Delivery : e # d => sent'[e] = sent[e]
      BY <1>2, <1>6, <2>4, <3>1
    <3> HIDE DEF d
    <3> QED BY <1>6, <2>4, <3>2 DEF Inv, SentInv
  <2>6. Traffic
    <3>1. worker.output \in DOMAIN ledger[worker.job].out
          /\ ledger[worker.job].out[worker.output] \in SentStatus
      BY <1>1 DEF Inv, HandInv, Busy, Job
    <3>2. \A j, o : <<j, o>> \in delivered' =>
            <<j, o>> \in delivered \/ (j = worker.job /\ o = worker.output)
      BY <1>6
    <3>3. inflight' \subseteq Delivery /\ delivered \subseteq delivered'
      BY <1>6 DEF Inv, SendInv, Typed
    <3> QED BY <1>1, <1>2, <1>6, <2>5, <3>1, <3>2, <3>3 DEF Traffic
  <2> QED BY <1>1, <1>6, <2>1, <2>3, <2>4, <2>6, LocalsAre, WorkerOnly DEF Active
<1> QED BY <1>4, <1>6 DEF Transmit

\* A step that changes the row of the job in hand.
LEMMA OwnRow ==
  ASSUME Inv, worker.step \in Active, NEW row,
         ledger' = [ledger EXCEPT ![worker.job] = row]
  PROVE  /\ DOMAIN ledger' = DOMAIN ledger /\ ledger'[worker.job] = row
         /\ \A j \in DOMAIN ledger' : j # worker.job => j \in DOMAIN ledger /\ ledger'[j] = ledger[j]
         /\ \A j \in DOMAIN ledger : j # worker.job => Moved(j)
         /\ (Drifts(row, Job, now) => LedgerMoves)
<1>1. worker.job \in DOMAIN ledger
  BY HandIs
<1>2. /\ DOMAIN ledger' = DOMAIN ledger /\ ledger'[worker.job] = row
      /\ \A j \in DOMAIN ledger' : j # worker.job => j \in DOMAIN ledger /\ ledger'[j] = ledger[j]
  BY <1>1
<1>3. \A j \in DOMAIN ledger : j # worker.job => Drifts(ledger'[j], ledger[j], now)
  BY <1>2, RowsProper, RestsItself DEF Inv, SendInv, Rests
<1>4. Drifts(row, Job, now) => LedgerMoves
  BY <1>2, <1>3, DriftsMoved DEF LedgerMoves, Job
<1> QED BY <1>2, <1>3, <1>4, DriftsMoved

LEMMA StartInv == ASSUME Inv, Start PROVE Onward
<1>1. /\ SendInv' /\ worker.step = "picked" /\ worker.step \in Active
      /\ UNCHANGED <<now, process, issued, clips, outside>>
  BY StartStep DEF Inv, Start, At, Active
<1> DEFINE row == [Job EXCEPT !.status = "synthesizing"]
<1>2. ledger' = [ledger EXCEPT ![worker.job] = row]
  BY DEF Start, Job
<1>3. Drifts(row, Job, now) /\ row.out = Job.out
  BY <1>1, HandIs, StartDrifts DEF Inv, SendInv, Typed
<1>4. row.expires = Job.expires
  BY <1>3 DEF Drifts, SameJob
<1> HIDE DEF row
<1>5. Moves("synthesizing", worker.todo, worker.output, worker.state)
  BY LocalsAre, WorkerEdits DEF Start
<1>6. worker'.step = "synthesizing" /\ worker'.job = worker.job
  BY <1>5, MovesFields
<1>7. Job' = row
  BY <1>1, <1>2, <1>6, OwnRow DEF Job
<1>8. HandInv'
  BY <1>1, <1>3, <1>4, <1>6, <1>7 DEF Inv, HandInv, Busy, Untouched
<1>9. ProcessInv'
  BY <1>1, <1>5, LocalsAre, MovesTyped DEF outside, Active
<1>10. LedgerMoves
  BY <1>1, <1>2, <1>3, OwnRow
<1>11. Clock /\ Traffic /\ Files
  BY <1>1, <1>10, ClockStays, TrafficEnds, FilesKept DEF Inv, SendInv, outside
<1>12. \A j \in DOMAIN ledger' : j # worker.job => j \in DOMAIN ledger /\ ledger'[j] = ledger[j]
  BY <1>1, <1>2, OwnRow
<1> QED BY <1>1, <1>6, <1>8, <1>9, <1>10, <1>11, <1>12, KeepsJob DEF process, Active

LEMMA FailInv == ASSUME Inv, Fail PROVE Onward
<1>1. /\ SendInv' /\ worker.step = "failing" /\ worker.step \in Active
      /\ UNCHANGED <<now, process, issued, clips, outside>>
  BY FailStep DEF Inv, Fail, At, Active
<1> DEFINE to == IF Overdue THEN "expired" ELSE "failed"
           row == Turn(Turn(Job, "accepted", to), "dispatching", "uncertain")
<1>2. ledger' = [ledger EXCEPT ![worker.job] = row]
  BY DEF Fail, Job
<1>3. to \in {"failed", "expired"}
  OBVIOUS
<1> HIDE DEF to
<1>4. Drifts(row, Job, now) /\ \A o \in DOMAIN row.out : row.out[o] \notin {"accepted", "dispatching"}
  BY <1>1, <1>3, HandIs, FailDrifts DEF Inv, SendInv, Typed
<1> HIDE DEF row
<1>5. Moves("closing", {}, NoOutput, "none")
  BY DEF Fail, Idle, Moves
<1>6. worker'.step = "closing" /\ worker'.job = worker.job
  BY <1>5, MovesFields
<1>7. Job' = row
  BY <1>1, <1>2, <1>6, OwnRow DEF Job
<1>8. HandInv'
  BY <1>4, <1>6, <1>7 DEF HandInv, Busy
<1>9. ProcessInv'
  BY <1>1, <1>5, LocalsAre, MovesTyped DEF outside, Active
<1>10. LedgerMoves
  BY <1>1, <1>2, <1>4, OwnRow
<1>11. Clock /\ Traffic /\ Files
  BY <1>1, <1>10, ClockStays, TrafficEnds, FilesKept DEF Inv, SendInv, outside
<1>12. \A j \in DOMAIN ledger' : j # worker.job => j \in DOMAIN ledger /\ ledger'[j] = ledger[j]
  BY <1>1, <1>2, OwnRow
<1> QED BY <1>1, <1>6, <1>8, <1>9, <1>10, <1>11, <1>12, KeepsJob DEF process, Active

\* The job in hand gets the status that its deliveries stand for.
LEMMA OwnRefresh ==
  ASSUME Inv, worker.step \in Active, ledger' = [ledger EXCEPT ![worker.job] = Refresh(@)]
  PROVE  /\ LedgerMoves /\ DOMAIN ledger' = DOMAIN ledger /\ ledger'[worker.job] = Refresh(Job)
         /\ \A j \in DOMAIN ledger' : j # worker.job => j \in DOMAIN ledger /\ ledger'[j] = ledger[j]
<1>1. Job \in Row /\ DOMAIN Job.out # {}
  BY HandIs DEF Proper
<1>2. Drifts(Refresh(Job), Job, now)
  BY <1>1, RefreshDrifts
<1>3. ledger' = [ledger EXCEPT ![worker.job] = Refresh(Job)]
  BY DEF Job
<1> QED BY <1>2, <1>3, OwnRow

\* The worker comes to the end of deliver: nothing of its job is left waiting or
\* being dispatched.
LEMMA CloseInv == ASSUME Inv, Close PROVE Onward
<1>1. /\ SendInv' /\ worker.step = "closing" /\ worker.step \in Active /\ phase # "down"
      /\ ledger' = [ledger EXCEPT ![worker.job] = Refresh(@)] /\ worker' = Idle
      /\ UNCHANGED <<now, process, issued, clips, outside>>
  BY CloseStep DEF Inv, Close, At, Active
<1>2. LedgerMoves
  BY <1>1, OwnRefresh
<1>3. Clock /\ Traffic /\ Files
  BY <1>1, <1>2, ClockStays, TrafficEnds, FilesKept DEF Inv, SendInv, outside
<1>4. worker'.step = "waiting" /\ ProcessInv'
  BY <1>1, IdleIs, IdleTyped DEF Inv, ProcessInv, process, outside
<1>5. CalmInv'
  <2>1. Calm(Refresh(Job), now)
    <3>1. Job \in Row /\ DOMAIN Job.out # {}
      BY <1>1, HandIs DEF Proper
    <3>2. \A o \in DOMAIN Job.out : Job.out[o] \notin {"accepted", "dispatching"}
      BY <1>1 DEF Inv, HandInv
    <3>3. "dispatching" \notin States(Job) /\ States(Job) # {"accepted"}
      BY <3>2, StatesAre
    <3> QED BY <3>1, <3>3, RefreshCalm
  <2> SUFFICES ASSUME NEW j \in DOMAIN ledger' PROVE Calm(ledger'[j], now)
    BY <1>1 DEF CalmInv, Calm, States
  <2>2. CASE j = worker.job
    BY <1>1, <2>1, <2>2, OwnRefresh
  <2>3. CASE j # worker.job
    <3>1. j \in DOMAIN ledger /\ ledger'[j] = ledger[j] /\ ~InHand(j)
      BY <1>1, <2>3, OwnRefresh DEF InHand
    <3> QED BY <1>1, <3>1 DEF Inv, CalmInv
  <2> QED BY <2>2, <2>3
<1> QED BY <1>1, <1>2, <1>3, <1>4, <1>5, LetGo DEF process

\* The worker thread ends in the middle of anything.
LEMMA DieInv == ASSUME Inv, Die PROVE Onward
<1>1. /\ SendInv' /\ worker' = [Idle EXCEPT !.step = "dead"] /\ phase # "down"
      /\ restarts < MaxRestarts /\ restarts' = restarts + 1 /\ worker.step # "dead"
      /\ UNCHANGED <<now, phase, config, issued, outside>>
  BY CloseStep DEF Inv, Die
<1>2. \/ ledger' = ledger /\ (clips' = clips \/ clips' = ClipsKept)
      \/ /\ worker.step \notin {"waiting", "picked"} /\ clips' = clips
         /\ ledger' = [ledger EXCEPT ![worker.job] = Refresh(@)]
  BY DEF Die, RollBack
<1>3. LedgerMoves
  <2>1. CASE ledger' = ledger
    <3>1. Resting(ledger')
      BY <2>1, LedgerRests DEF Inv, SendInv
    <3> QED BY <3>1, RestingDrifts, DriftingMoves
  <2>2. CASE /\ worker.step \notin {"waiting", "picked"}
             /\ ledger' = [ledger EXCEPT ![worker.job] = Refresh(@)]
    <3>1. worker.step \in Active
      BY <1>1, <2>2 DEF Inv, ProcessInv, Steps, Active
    <3> QED BY <2>2, <3>1, OwnRefresh
  <2> QED BY <1>2, <2>1, <2>2
<1>4. Clock /\ Traffic /\ Files
  BY <1>1, <1>2, <1>3, ClockStays, TrafficEnds, FilesKept DEF Inv, SendInv, outside
<1>5. worker'.step = "dead" /\ ProcessInv'
  <2>1. restarts' \in 0 .. MaxRestarts
    BY <1>1, ConstantsAssumption DEF Inv, ProcessInv
  <2>2. clips' \subseteq 1 .. issued'
    BY <1>1, <1>2 DEF Inv, ProcessInv, ClipsKept
  <2> QED BY <1>1, <2>1, <2>2, IdleTyped DEF Inv, ProcessInv, outside
<1>6. CalmInv'
  BY <1>5 DEF CalmInv
<1> QED BY <1>1, <1>3, <1>4, <1>5, <1>6, LetGo

\* The worker gives the delivery at work another status.
LEMMA OwnSet ==
  ASSUME Inv, worker.step \in Active,
         NEW o \in DOMAIN Job.out, NEW status \in Status \ {"accepted"},
         ledger' = [ledger EXCEPT ![worker.job] = Set(@, o, status)],
         Job.out[o] \notin SettledStatus,
         o \notin Native /\ <<worker.job, o>> \in delivered /\ Job.out[o] \in SentStatus
           => status \in SentStatus,
         status = "ready" =>
           Untouched(Job, o, now) /\ (Job.expires > now => worker.job \in clips)
  PROVE  /\ LedgerMoves /\ DOMAIN ledger' = DOMAIN ledger
         /\ \A j \in DOMAIN ledger' : j # worker.job => j \in DOMAIN ledger /\ ledger'[j] = ledger[j]
         /\ SameJob(ledger'[worker.job], Job)
         /\ \A p \in DOMAIN Job.out :
              ledger'[worker.job].out[p] = IF p = o THEN status ELSE Job.out[p]
<1> DEFINE r == Set(Job, o, status)
<1>1. ledger' = [ledger EXCEPT ![worker.job] = r]
  BY DEF Job
<1>2. Job \in Row /\ Held(worker.job) /\ worker.job \in DOMAIN ledger /\ now \in Nat
  BY HandIs DEF Inv, SendInv, Typed
<1>3. /\ r \in Row /\ SameJob(r, Job) /\ r.status = Job.status /\ r.text = Job.text
      /\ \A p \in DOMAIN Job.out : r.out[p] = IF p = o THEN status ELSE Job.out[p]
  BY <1>2, SetFields
<1> HIDE DEF r
<1>4. /\ DOMAIN ledger' = DOMAIN ledger /\ ledger'[worker.job] = r
      /\ \A j \in DOMAIN ledger' : j # worker.job => j \in DOMAIN ledger /\ ledger'[j] = ledger[j]
      /\ \A j \in DOMAIN ledger : j # worker.job => Moved(j)
  BY <1>1, OwnRow
<1>5. r.expires = Job.expires /\ r.created = Job.created /\ r.ttl = Job.ttl
      /\ DOMAIN r.out = DOMAIN Job.out
  BY <1>3 DEF SameJob
<1>6. Sound(Job, now) => Sound(r, now)
  <2> SUFFICES ASSUME Sound(Job, now) PROVE Sound(r, now)
    OBVIOUS
  <2>1. States(r) # {"accepted"}
    BY <1>3, <1>5, OnlyAccepted
  <2>2. ASSUME r.expires > now, States(r) \cap {"ready", "accepted"} # {}
        PROVE  r.text
    <3>1. PICK p \in DOMAIN r.out : r.out[p] \in {"ready", "accepted"}
      BY <2>2, StatesAre
    <3>2. CASE p # o
      <4>1. Job.out[p] \in States(Job) /\ Job.out[p] \in {"ready", "accepted"}
        BY <1>3, <1>5, <3>1, <3>2, StatesAre
      <4> QED BY <1>3, <1>5, <2>2, <4>1 DEF Sound
    <3>3. CASE p = o
      <4>1. Job.expires \in Nat
        BY <1>2, RowFields
      <4>2. Untouched(Job, o, now) /\ Job.expires > now
        BY <1>3, <1>5, <2>2, <3>1, <3>3
      <4>3. Job.out[o] = "accepted"
        BY <1>2, <4>1, <4>2 DEF Untouched
      <4>4. "accepted" \in States(Job)
        BY <4>3, StatesAre
      <4> QED BY <1>3, <1>5, <2>2, <4>4 DEF Sound
    <3> QED BY <3>2, <3>3
  <2> QED BY <1>5, <2>1, <2>2 DEF Sound
<1>7. Moved(worker.job)
  <2>1. Job = ledger[worker.job]
    BY DEF Job
  <2>2. \A p \in DOMAIN Job.out :
          /\ Job.out[p] \in SettledStatus => r.out[p] = Job.out[p]
          /\ r.out[p] \in LaneStatus => Job.out[p] \in LaneStatus \/ Held(worker.job)
          /\ p \notin Native /\ <<worker.job, p>> \in delivered /\ Job.out[p] \in SentStatus
               => r.out[p] \in SentStatus
          /\ r.out[p] = "ready" =>
               Job.out[p] = "ready" \/ (Job.expires > now => worker.job \in clips)
    BY <1>2, <1>3
  <2> QED BY <1>2, <1>3, <1>4, <1>6, <2>1, <2>2 DEF Moved
<1> QED BY <1>3, <1>4, <1>7 DEF LedgerMoves

\* The delivery is dispatching before its notification leaves.
LEMMA CommitIntentInv == ASSUME Inv, CommitIntent PROVE Onward
<1>1. /\ SendInv' /\ worker.step = "dispatching" /\ worker.step \in Active
      /\ ledger' = [ledger EXCEPT ![worker.job] = Set(@, worker.output, "dispatching")]
      /\ UNCHANGED <<now, process, issued, clips, outside>>
  BY CommitIntentStep DEF Inv, CommitIntent, At, Active
<1>2. /\ worker.output \in DOMAIN Job.out \ worker.todo /\ Untouched(Job, worker.output, now)
      /\ worker.todo \subseteq DOMAIN Job.out
      /\ \A o \in worker.todo : Untouched(Job, o, now)
      /\ Job.expires > now => worker.job \in clips
      /\ \A o \in DOMAIN Job.out : Job.out[o] \in {"accepted", "dispatching"}
                                     => o \in worker.todo \cup {worker.output}
  BY <1>1 DEF Inv, HandInv, Busy
<1>3. "dispatching" \in Status \ {"accepted"} /\ "dispatching" \in SentStatus
      /\ Job.out[worker.output] \notin SettledStatus
  BY <1>2, StatusNames DEF SentStatus, SettledStatus, Untouched
<1>4. /\ LedgerMoves
      /\ \A j \in DOMAIN ledger' : j # worker.job => j \in DOMAIN ledger /\ ledger'[j] = ledger[j]
      /\ SameJob(ledger'[worker.job], Job)
      /\ \A p \in DOMAIN Job.out : ledger'[worker.job].out[p] =
           IF p = worker.output THEN "dispatching" ELSE Job.out[p]
  BY <1>1, <1>2, <1>3, OwnSet
<1>5. Moves("publishing", worker.todo, worker.output, worker.state)
  BY LocalsAre, WorkerEdits DEF CommitIntent
<1>6. worker'.step = "publishing" /\ worker'.job = worker.job /\ worker'.todo = worker.todo
      /\ worker'.output = worker.output
  BY <1>5, MovesFields
<1>7. HandInv'
  <2>1. Job' = ledger'[worker.job]
    BY <1>6 DEF Job
  <2> QED BY <1>1, <1>2, <1>3, <1>4, <1>6, <2>1 DEF HandInv, Busy, Untouched, SameJob
<1>8. ProcessInv'
  BY <1>1, <1>5, LocalsAre, MovesTyped DEF outside, Active
<1>9. Clock /\ Traffic /\ Files
  BY <1>1, <1>4, ClockStays, TrafficEnds, FilesKept DEF Inv, SendInv, outside
<1> QED BY <1>1, <1>4, <1>6, <1>7, <1>8, <1>9, KeepsJob DEF process, Active

\* The outcome of the delivery at work, unless its device has fetched the clip.
LEMMA RecordInv == ASSUME Inv, Record PROVE Onward
<1>1. /\ SendInv' /\ worker.step = "recording" /\ worker.step \in Active
      /\ UNCHANGED <<now, process, issued, clips, outside>>
  BY RecordStep DEF Inv, Record, At, Active
<1> DEFINE fetched == Job.out[worker.output] = "media_fetched_unconfirmed"
<1>2. /\ worker.output \in DOMAIN Job.out \ worker.todo
      /\ worker.todo \subseteq DOMAIN Job.out
      /\ \A o \in worker.todo : Untouched(Job, o, now)
      /\ Job.expires > now => worker.job \in clips
      /\ \A o \in DOMAIN Job.out : Job.out[o] \in {"accepted", "dispatching"}
                                     => o \in worker.todo \cup {worker.output}
      /\ worker.state \in Status \ {"accepted", "dispatching"}
      /\ \/ Untouched(Job, worker.output, now)
         \/ worker.output \notin Native /\ Job.out[worker.output] \in SentStatus
      /\ \/ worker.output \in Native \/ worker.state \in SentStatus
         \/ <<worker.job, worker.output>> \notin delivered
      /\ worker.state = "ready" => Untouched(Job, worker.output, now)
  BY <1>1 DEF Inv, HandInv, Busy
<1>3. /\ LedgerMoves
      /\ \A j \in DOMAIN ledger' : j # worker.job => j \in DOMAIN ledger /\ ledger'[j] = ledger[j]
      /\ SameJob(ledger'[worker.job], Job)
      /\ \A p \in DOMAIN Job.out : ledger'[worker.job].out[p] =
           IF p = worker.output /\ ~fetched THEN worker.state ELSE Job.out[p]
  <2>1. CASE fetched
    <3>1. ledger' = ledger
      BY <2>1 DEF Record
    <3>2. Resting(ledger')
      BY <3>1, LedgerRests DEF Inv, SendInv
    <3>3. LedgerMoves
      BY <3>2, RestingDrifts, DriftingMoves
    <3> QED BY <2>1, <3>1, <3>3 DEF Job, SameJob
  <2>2. CASE ~fetched
    <3>1. ledger' = [ledger EXCEPT ![worker.job] = Set(@, worker.output, worker.state)]
      BY <2>2 DEF Record
    <3>2. Job.out[worker.output] \notin SettledStatus
      BY <1>2, <2>2 DEF SettledStatus, SentStatus, Untouched
    <3>3. worker.state \in Status \ {"accepted"}
      BY <1>2
    <3>4. /\ worker.output \in DOMAIN Job.out
          /\ worker.output \notin Native /\ <<worker.job, worker.output>> \in delivered
               => worker.state \in SentStatus
          /\ worker.state = "ready" => Untouched(Job, worker.output, now)
                                       /\ (Job.expires > now => worker.job \in clips)
      BY <1>2
    <3>5. /\ LedgerMoves
          /\ \A j \in DOMAIN ledger' : j # worker.job => j \in DOMAIN ledger /\ ledger'[j] = ledger[j]
          /\ SameJob(ledger'[worker.job], Job)
          /\ \A p \in DOMAIN Job.out :
               ledger'[worker.job].out[p] = IF p = worker.output THEN worker.state ELSE Job.out[p]
      BY <1>1, <3>1, <3>2, <3>3, <3>4, OwnSet
    <3> QED BY <2>2, <3>5
  <2> QED BY <2>1, <2>2
<1> DEFINE step == IF worker.todo = {} THEN "closing" ELSE "sending"
<1>4. Moves(step, worker.todo, NoOutput, "none")
  BY LocalsAre, WorkerEdits DEF Record
<1>5. step \in Active \ {"picked"}
  BY DEF Active
<1>6. worker'.step = step /\ worker'.job = worker.job /\ worker'.todo = worker.todo
  BY <1>4, MovesFields
<1>7. HandInv'
  <2>1. Job' = ledger'[worker.job]
    BY <1>6 DEF Job
  <2>2. \A o \in DOMAIN Job.out :
          ledger'[worker.job].out[o] \in {"accepted", "dispatching"} => o \in worker.todo
    BY <1>2, <1>3
  <2>3. \A o \in worker.todo : Untouched(ledger'[worker.job], o, now)
    BY <1>2, <1>3 DEF Untouched, SameJob
  <2> QED BY <1>1, <1>2, <1>3, <1>6, <2>1, <2>2, <2>3 DEF HandInv, Busy, Untouched, SameJob
<1>8. ProcessInv'
  BY <1>1, <1>4, <1>5, LocalsAre, MovesTyped DEF outside
<1>9. Clock /\ Traffic /\ Files
  BY <1>1, <1>3, ClockStays, TrafficEnds, FilesKept DEF Inv, SendInv, outside
<1> QED BY <1>1, <1>3, <1>5, <1>6, <1>7, <1>8, <1>9, KeepsJob DEF process

\* The worker takes a job only while no other holds the lane, and before its deadline,
\* so that its row outlives the transaction.
LEMMA TakeInv ==
  ASSUME Inv, SendInv', worker.step = "waiting", phase # "down",
         now' \in Readable, ledger' = Cleaned, clips' = ClipsKept,
         UNCHANGED <<process, issued, outside>>,
         ~Cooling(Cleaned, now'), NEW j \in WaitingJobs(Cleaned), Authorized(Cleaned[j]),
         worker' = [Idle EXCEPT !.step = "picked", !.job = j]
  PROVE  Onward
<1>1. Typed /\ Resting(Cleaned)
  BY CleanedRests DEF Inv, SendInv
<1>2. /\ Clock /\ LedgerMoves /\ Traffic /\ Files
  <2>1. LedgerMoves
    BY <1>1, RestingDrifts, DriftingMoves
  <2> QED BY <1>1, <2>1, ClockStays, TrafficEnds, FilesKept DEF outside
<1>3. /\ worker'.step = "picked" /\ worker'.job = j
      /\ worker' = [step |-> "picked", job |-> j, todo |-> {}, output |-> NoOutput, state |-> "none"]
  BY DEF Idle
<1>4. /\ j \in DOMAIN Cleaned /\ Cleaned[j].status = "accepted" /\ j \in DOMAIN ledger
      /\ Drifts(Cleaned[j], ledger[j], now) /\ ~(ledger[j].expires <= now)
  BY <1>1, CleanedRests DEF WaitingJobs, Resting, Rests
<1>5. j \in 1 .. issued /\ j \in JobId /\ issued' = issued
  <2>1. issued \in 0 .. MaxJobs /\ MaxJobs \in Nat /\ DOMAIN ledger \subseteq 1 .. issued
    BY <1>1, ConstantsAssumption DEF Typed
  <2> QED BY <1>4, <2>1 DEF JobId
<1>6. ProcessInv'
  <2>1. j \in 0 .. issued' /\ "picked" \in Steps
    BY <1>5 DEF Steps
  <2>2. worker' \in [step : Steps, job : 0 .. issued', todo : SUBSET Output,
                     output : Output \cup {NoOutput}, state : Status \cup {"none"}]
    BY <1>3, <2>1, WorkerRecord
  <2> QED BY <1>3, <2>2 DEF Inv, ProcessInv, process, outside, ClipsKept
<1>7. SoundInv' /\ SentInv' /\ ClipsInv'
  BY <1>1, <1>2, SoundStays, SentStays, ClipsStay DEF Inv
<1>8. \A i \in JobId, o \in Output : <<i, o>> \in inflight' =>
        i \in DOMAIN ledger' /\ Moved(i) /\ ledger'[i].created >= now' - Retention
  BY <1>2, UseStays
<1>9. Kept'
  <2>1. ledger'[j].created >= now' - Retention
    <3>1. ledger[j] \in Row /\ ledger'[j].created = ledger[j].created
      BY <1>4, RowsProper, <1>1 DEF Drifts, SameJob
    <3>2. ledger[j].created \in Nat /\ ledger[j].ttl \in Ttl /\ ledger[j].expires \in Nat
      BY <3>1, RowFields
    <3>3. ledger[j].expires = ledger[j].created + ledger[j].ttl
      BY <1>4 DEF Inv, SoundInv, Sound
    <3>4. ledger[j].ttl + HandlerSpan <= Retention
      BY <3>2, RetentionAssumption
    <3>5. ledger[j].ttl \in Nat /\ HandlerSpan \in Nat /\ Retention \in Nat /\ now \in Nat
      BY <1>1, <3>2, ConstantsAssumption DEF Typed
    <3>6. now' \in Nat /\ now' <= now + HandlerSpan
      BY <1>2 DEF Readable, Clock
    <3> QED BY <1>4, <3>1, <3>2, <3>3, <3>4, <3>5, <3>6
  <2> SUFFICES ASSUME NEW i \in JobId, i = j \/ \E o \in Output : <<i, o>> \in inflight'
               PROVE  i \in DOMAIN ledger' /\ ledger'[i].created >= now' - Retention
    BY <1>3 DEF Kept, Held
  <2> QED BY <1>4, <1>8, <2>1
<1>10. LaneInv'
  BY DEF LaneInv, Cooling, HoldsLane, States
<1>11. AllowedInv'
  <2>1. \A i \in JobId, o \in Native : <<i, o>> \in inflight' =>
          o \in config'.outputs /\ ledger'[i].caller \in config'.callers
    <3> SUFFICES ASSUME NEW i \in JobId, NEW o \in Native, <<i, o>> \in inflight'
                 PROVE  o \in config'.outputs /\ ledger'[i].caller \in config'.callers
      OBVIOUS
    <3>1. o \in Output /\ Moved(i)
      BY <1>8, ConstantsAssumption
    <3>2. <<i, o>> \in inflight /\ config' = config
      BY DEF outside, process
    <3> QED BY <3>1, <3>2 DEF Inv, AllowedInv, Moved, SameJob
  <2>2. Authorized(Job)'
    BY <1>3 DEF Authorized, Job, process
  <2> QED BY <2>1, <2>2 DEF AllowedInv
<1>12. HandInv'
  <2>1. \A o \in DOMAIN ledger'[j].out : ledger'[j].out[o] = "accepted"
    BY <1>4 DEF SendInv, Typed, ProperRows, Proper
  <2> QED BY <1>3, <2>1 DEF HandInv, Job, Busy, Untouched
<1>13. CalmInv'
  <2> SUFFICES ASSUME NEW i \in DOMAIN ledger' PROVE Calm(ledger'[i], now')
    BY DEF CalmInv, Calm, States
  <2>1. i \in DOMAIN ledger /\ Rests(ledger'[i], ledger[i], now)
    BY <1>1 DEF Resting
  <2>2. Calm(ledger[i], now)
    BY <2>1 DEF Inv, CalmInv, InHand
  <2>3. Calm(ledger'[i], now) /\ ledger'[i] \in Row
    BY <2>1, <2>2 DEF Rests, Drifts
  <2> QED BY <1>1, <1>2, <2>3, CalmLater DEF Typed, Clock
<1> QED BY <1>2, <1>6, <1>7, <1>9, <1>10, <1>11, <1>12, <1>13 DEF Inv, Onward

LEMMA PickInv == ASSUME Inv, Pick PROVE Onward
<1>1. /\ SendInv' /\ Typed /\ worker.step = "waiting" /\ phase # "down"
      /\ now' \in Readable /\ clips' = ClipsKept
      /\ UNCHANGED <<process, issued, outside>>
  BY PickStep DEF Inv, SendInv, Pick, At, Commit
<1>2. Traffic
  BY <1>1, TrafficEnds DEF outside
<1>3. \/ worker' = worker /\ ledger' = Cleaned
      \/ /\ worker' = worker
         /\ \E j \in DOMAIN Cleaned :
              ledger' = [Cleaned EXCEPT ![j] = Refresh(Turn(@, "accepted", "failed"))]
      \/ /\ ledger' = Cleaned /\ ~Cooling(Cleaned, now')
         /\ \E j \in WaitingJobs(Cleaned) :
              /\ Authorized(Cleaned[j])
              /\ worker' = [Idle EXCEPT !.step = "picked", !.job = j]
  BY DEF Pick, Commit, Earliest, WaitingJobs
<1>4. ASSUME worker' = worker, Resting(ledger') PROVE Onward
  <2>1. ProcessInv'
    BY <1>1, <1>4, RequestProcess DEF outside, Inv, ProcessInv, ClipsKept
  <2> QED BY <1>1, <1>2, <1>4, <2>1, RestingStep DEF process, outside
<1>5. ASSUME NEW j \in DOMAIN Cleaned
      PROVE  Resting([Cleaned EXCEPT ![j] = Refresh(Turn(@, "accepted", "failed"))])
  <2> DEFINE row == Refresh(Turn(Cleaned[j], "accepted", "failed"))
  <2>1. Resting(Cleaned)
    BY <1>1, CleanedRests
  <2>2. Cleaned[j] \in Row /\ DOMAIN Cleaned[j].out # {} /\ now \in Nat
    BY <1>1, <2>1, RowsProper DEF Resting, Rests, Drifts, SameJob, Typed
  <2>3. Rests(row, Cleaned[j], now) /\ ~Held(j)
    BY <1>1, <2>2, RefuseRests DEF Held, Active
  <2> HIDE DEF row
  <2>4. Resting([Cleaned EXCEPT ![j] = row])
    BY <2>1, <2>3, EditRests
  <2> QED BY <2>4 DEF row
<1>6. Resting(Cleaned)
  BY <1>1, CleanedRests
<1> QED BY <1>1, <1>3, <1>4, <1>5, <1>6, TakeInv

-----------------------------------------------------------------------------
(* The invariant is inductive *)

LEMMA InvInit == Init => Inv
<1> SUFFICES ASSUME Init PROVE Inv
  OBVIOUS
<1>1. SendInv
  BY SendInvInit
<1>2. /\ DOMAIN ledger = {} /\ inflight = {} /\ delivered = {} /\ clips = {}
      /\ worker = [step |-> "waiting", job |-> 0, todo |-> {}, output |-> NoOutput,
                   state |-> "none"]
      /\ phase = "up" /\ restarts = 0 /\ issued = 0
  BY DEF Init, Idle
<1>3. ProcessInv
  BY <1>2, ConstantsAssumption DEF ProcessInv, Steps
<1>4. Kept /\ SoundInv /\ CalmInv /\ SentInv /\ LaneInv /\ ClipsInv
  BY <1>2 DEF Kept, Held, Active, SoundInv, CalmInv, SentInv, LaneInv, ClipsInv
<1>5. AllowedInv /\ HandInv
  BY <1>2 DEF AllowedInv, HandInv, Active, Busy
<1> QED BY <1>1, <1>3, <1>4, <1>5 DEF Inv

LEMMA InvStep == ASSUME Inv, [Next]_vars PROVE Onward
<1>1. CASE \E c \in Caller, k \in Key, ttl \in Ttl : Accept(c, k, ttl)
  BY <1>1, AcceptInv
<1>2. CASE Look
  BY <1>2, LookInv
<1>3. CASE \E o \in Output : Claim(o)
  BY <1>3, ClaimInv
<1>4. CASE \E o \in Output, j \in JobId :
             Respond(j, o) \/ Drop(j, o) \/ Get(j, o) \/ Fetched(j, o)
  BY <1>4, RespondInv, DropInv, GetInv, FetchedInv
<1>5. CASE \E o \in Output, j \in JobId, status \in AppResult : Report(o, j, status)
  BY <1>5, ReportInv
<1>6. CASE Work \/ Die
  BY <1>6, PickInv, PostponeInv, StartInv, SynthesizeInv, ValidateInv, ChooseInv,
     CommitIntentInv, PublishInv, TransmitInv, AwaitInv, RecordInv, FailInv, CloseInv, DieInv
     DEF Work
<1>7. CASE Stop \/ Supervise \/ CloseServers \/ Exit \/ Crash \/ Startup \/ Tick \/ UNCHANGED vars
  BY <1>7, ProcessInvStep, ExitInv, StartupInv
<1> QED BY <1>1, <1>2, <1>3, <1>4, <1>5, <1>6, <1>7 DEF Next

LEMMA InvAlways == Spec => []Inv
<1>1. Inv /\ [Next]_vars => Inv'
  BY InvStep DEF Onward
<1> QED BY <1>1, InvInit, PTL DEF Spec

-----------------------------------------------------------------------------
(* What follows from it *)

\* Whatever callers, outputs, crashes and restarts there are, the rows of the two
\* tables keep the shape that the schema and the checks of service.py give them, and
\* the worker in the middle of deliver has a job whose row is still there.
THEOREM TypeCorrect == Spec => []TypeOK
<1>1. Inv => TypeOK
  <2> SUFFICES ASSUME Inv PROVE TypeOK
    OBVIOUS
  <2>1. Typed /\ ProcessInv
    BY DEF Inv, SendInv
  <2>2. \A j \in DOMAIN ledger :
          /\ ledger[j] \in Row
          /\ DOMAIN ledger[j].out = DOMAIN ledger[j].gets /\ DOMAIN ledger[j].out # {}
    BY <2>1 DEF Typed, ProperRows, Proper
  <2>3. worker.step \notin {"waiting", "dead"} => worker.job \in DOMAIN ledger
    <3>1. worker.step \in Steps
      BY <2>1 DEF ProcessInv
    <3>2. worker.step \notin {"waiting", "dead"} => worker.step \in Active
      BY <3>1 DEF Steps, Active
    <3> QED BY <3>2, HandIs
  <2>4. sent \in [Delivery -> Nat]
    BY <2>1 DEF Typed
  <2> QED BY <2>1, <2>2, <2>3, <2>4 DEF TypeOK, Typed, ProcessInv
<1> QED BY <1>1, InvAlways, PTL

\* A delivery to an MQTT device that deliver, a sweep or the recovery calls failed or
\* expired never reached the device: its status says so once a packet may have left.
THEOREM FailuresAreTrue == Spec => []NoFalseFailure
<1>1. Inv => NoFalseFailure
  <2> SUFFICES ASSUME Inv, NEW j \in DOMAIN ledger, NEW o \in DOMAIN ledger[j].out \ Native,
                      ledger[j].out[o] \in {"failed", "expired"}, <<j, o>> \in delivered
               PROVE  FALSE
    BY DEF NoFalseFailure
  <2>1. o \in Output
    BY RowsProper, RowFields DEF Inv, SendInv
  <2>2. ledger[j].out[o] \in SentStatus
    BY <2>1 DEF Inv, SentInv
  <2> QED BY <2>2 DEF SentStatus
<1> QED BY <1>1, InvAlways, PTL

\* work takes a job only while no job holds the lane, and only the job in hand gets
\* into it: two jobs are never both in hand, downloadable or possibly playing.
THEOREM OneLane == Spec => []LaneExclusive
<1>1. Inv => LaneExclusive
  <2> SUFFICES ASSUME Inv, NEW j \in DOMAIN ledger, NEW k \in DOMAIN ledger,
                      HoldsLane(ledger[j], now) \/ InHand(j),
                      HoldsLane(ledger[k], now) \/ InHand(k)
               PROVE  j = k
    BY DEF LaneExclusive
  <2>1. ASSUME NEW i \in DOMAIN ledger, InHand(i)
        PROVE  worker.step \in Active /\ worker.job = i
    <3>1. i \in 1 .. issued /\ worker.step \in Steps
      BY DEF Inv, SendInv, Typed, ProcessInv
    <3>2. i # 0
      BY <3>1
    <3> QED BY <2>1, <3>1, <3>2 DEF InHand, Inv, ProcessInv, Steps, Active
  <2> QED BY <2>1 DEF Inv, LaneInv
<1> QED BY <1>1, InvAlways, PTL

\* What claim may still hand out has its file, which cleanup removes only at the
\* deadline, and its text, which refresh keeps for it.
THEOREM ReadyHasItsClip == Spec => []ReadyIsComplete
<1>1. Inv => ReadyIsComplete
  <2> SUFFICES ASSUME Inv, NEW j \in DOMAIN ledger, "ready" \in States(ledger[j]),
                      ledger[j].expires > now
               PROVE  j \in clips /\ ledger[j].text
    BY DEF ReadyIsComplete
  <2> QED BY DEF Inv, ClipsInv, SoundInv, Sound
<1> QED BY <1>1, InvAlways, PTL

\* Between two jobs, after a crash and its recovery, and through every sweep and
\* report, no delivery is left dispatching, and a job is called accepted or
\* synthesizing only for a delivery that waits.
THEOREM LimboIsEmpty == Spec => []NothingStaysInLimbo
<1>1. Inv => NothingStaysInLimbo
  <2> SUFFICES ASSUME Inv, NEW j \in DOMAIN ledger, phase # "down", worker.step # "dead",
                      ~InHand(j)
               PROVE  Calm(ledger[j], now)
    BY DEF NothingStaysInLimbo, Calm
  <2> QED BY DEF Inv, CalmInv
<1> QED BY <1>1, InvAlways, PTL

\* No statement of service.py overwrites what a device, an app or a failure settled:
\* not the outcome of a publish that comes late, nor the recovery, a sweep or a report.
THEOREM SettledForGood == Spec => SettledStays
<1>1. ASSUME Inv, [Next]_vars
      PROVE  [ \A j \in DOMAIN ledger \cap DOMAIN ledger' : \A o \in DOMAIN ledger[j].out :
                 ledger[j].out[o] \in {"media_fetched_unconfirmed", "completed_unconfirmed",
                                       "dismissed", "interrupted", "failed"}
                 => ledger'[j].out[o] = ledger[j].out[o] ]_vars
  <2>1. LedgerMoves
    BY <1>1, InvStep DEF Onward
  <2> QED BY <2>1, SettledStep DEF SettledStatus
<1> QED BY <1>1, InvAlways, PTL DEF Spec, SettledStays

\* What leaves, and who lets it.
LEMMA SendsAre ==
  ASSUME Inv, [Next]_vars, NEW i \in JobId, NEW p \in Output, sent'[<<i, p>>] > sent[<<i, p>>]
  PROVE  p \in config.outputs /\ ledger[i].caller \in config.callers
<1>1. sent \in [Delivery -> {0, 1}] /\ <<i, p>> \in Delivery
  BY DEF Inv, SendInv, Typed, Delivery
<1>2. ~(sent[<<i, p>>] > sent[<<i, p>>])
  BY <1>1
<1>3. CASE sent' = sent
  BY <1>2, <1>3
<1>4. ASSUME NEW j \in JobId, NEW o \in Output, Respond(j, o)
      PROVE  p \in config.outputs /\ ledger[i].caller \in config.callers
  <2>1. i = j /\ p = o
    BY <1>1, <1>2, <1>4 DEF Respond
  <2> QED BY <1>4, <2>1 DEF Respond, Inv, AllowedInv
<1>5. CASE Transmit
  <2>1. CASE UNCHANGED outside
    BY <1>3, <2>1 DEF outside
  <2>2. CASE sent' = [sent EXCEPT ![<<worker.job, worker.output>>] = @ + 1]
    <3>1. i = worker.job /\ p = worker.output
      BY <1>1, <1>2, <2>2
    <3>2. worker.step = "transmitting" /\ worker.step \in Active
      BY <1>5 DEF Transmit, At, Active
    <3>3. p \in DOMAIN Job.out /\ Authorized(Job) /\ Job = ledger[i]
      BY <3>1, <3>2 DEF Inv, HandInv, AllowedInv, Busy, Job
    <3> QED BY <3>3 DEF Authorized
  <2> QED BY <1>5, <2>1, <2>2 DEF Transmit
<1>6. sent' = sent \/ Transmit \/ \E j \in JobId, o \in Output : Respond(j, o)
  <2>1. CASE \E c \in Caller, k \in Key, ttl \in Ttl : Accept(c, k, ttl)
    BY <2>1 DEF Accept, outside
  <2>2. CASE Look \/ (\E o \in Output : Claim(o))
    BY <2>2 DEF Look, Claim, outside
  <2>3. CASE \E o \in Output, j \in JobId :
               \/ Respond(j, o) \/ Drop(j, o) \/ Get(j, o) \/ Fetched(j, o)
               \/ \E status \in AppResult : Report(o, j, status)
    BY <2>3 DEF Drop, Get, Fetched, Report, outside
  <2>4. CASE Work \/ Die
    BY <2>4 DEF Work, Die, Pick, Postpone, Start, Synthesize, Validate, Choose, CommitIntent,
                Publish, Await, Record, Fail, Close, outside
  <2>5. CASE Stop \/ Supervise \/ CloseServers \/ Exit \/ Crash \/ Startup \/ Tick
             \/ UNCHANGED vars
    BY <2>5 DEF Stop, Supervise, CloseServers, Exit, Crash, Startup, Tick, vars, outside
  <2> QED BY <2>1, <2>2, <2>3, <2>4, <2>5 DEF Next
<1> QED BY <1>3, <1>4, <1>5, <1>6

\* The snapshot of subscribers is as old as the job, but work authorizes it against the
\* configuration there is, and claim its output and caller, before anything is sent.
THEOREM SendsAllowed == Spec => SendsAreAuthorized
<1>1. ASSUME Inv, [Next]_vars
      PROVE  [ \A j \in JobId, o \in Output :
                 sent'[<<j, o>>] > sent[<<j, o>>] =>
                   o \in config.outputs /\ ledger[j].caller \in config.callers ]_vars
  BY <1>1, SendsAre
<1> QED BY <1>1, InvAlways, PTL DEF Spec, SendsAreAuthorized

-----------------------------------------------------------------------------
(* The limits of the queue and of the callers *)

LEMMA LedgerIsFinite ==
  ASSUME Typed
  PROVE  \A S \in SUBSET (DOMAIN ledger) : IsFiniteSet(S) /\ Cardinality(S) \in Nat
<1>1. issued \in Nat /\ DOMAIN ledger \subseteq 1 .. issued
  BY ConstantsAssumption DEF Typed
<1>2. IsFiniteSet(1 .. issued)
  BY <1>1, FS_Interval
<1> QED BY <1>1, <1>2, FS_Subset, FS_CardinalityType

\* Jobs that were there before wait or are recent only if they were so before.
LEMMA OldJobs ==
  ASSUME Typed, Clock, NEW j, Moved(j)
  PROVE  /\ ledger'[j].status = "accepted" => j \in WaitingJobs(ledger)
         /\ \A c : ledger'[j].caller = c /\ ledger'[j].created > now' - RateWindow
                     => j \in RecentJobs(ledger, c, now)
<1>1. j \in DOMAIN ledger /\ SameJob(ledger'[j], ledger[j]) /\ ledger[j].created \in Nat
  BY RowsProper, RowFields DEF Moved
<1>2. RateWindow \in Nat /\ now \in Nat /\ now' \in Nat /\ now' >= now
  BY ConstantsAssumption DEF Typed, Clock
<1>3. ledger[j].created > now' - RateWindow => ledger[j].created > now - RateWindow
  BY <1>1, <1>2
<1> QED BY <1>1, <1>3 DEF Moved, SameJob, WaitingJobs, RecentJobs

\* Where no job is accepted, neither the queue nor the recent jobs of a caller grow.
LEMMA NoneAccepted ==
  ASSUME Inv, Onward, issued' = issued, AdmissionBounded
  PROVE  AdmissionBounded'
<1>1. Typed /\ Typed' /\ Clock
  BY DEF Inv, SendInv, Onward
<1>2. \A j \in DOMAIN ledger' : Moved(j)
  <2>1. issued \in 0 .. MaxJobs /\ MaxJobs \in Nat /\ DOMAIN ledger' \subseteq 1 .. issued
    BY <1>1, ConstantsAssumption DEF Typed
  <2>2. \A j \in DOMAIN ledger' : ~(j > issued)
    BY <2>1
  <2> QED BY <2>2 DEF Onward, LedgerMoves, Young
<1>3. WaitingJobs(ledger') \in SUBSET WaitingJobs(ledger)
  BY <1>1, <1>2, OldJobs DEF WaitingJobs
<1>4. \A c \in Caller : RecentJobs(ledger', c, now') \in SUBSET RecentJobs(ledger, c, now)
  <2> SUFFICES ASSUME NEW c \in Caller, NEW j \in RecentJobs(ledger', c, now')
               PROVE  j \in RecentJobs(ledger, c, now)
    OBVIOUS
  <2>1. Moved(j) /\ ledger'[j].caller = c /\ ledger'[j].created > now' - RateWindow
    BY <1>2 DEF RecentJobs
  <2> QED BY <1>1, <2>1, OldJobs
<1>5. QueueLimit \in Nat /\ RateLimit \in Nat
  BY ConstantsAssumption
<1>6. Cardinality(WaitingJobs(ledger')) <= QueueLimit
  <2>1. WaitingJobs(ledger) \in SUBSET (DOMAIN ledger) /\ WaitingJobs(ledger') \in SUBSET (DOMAIN ledger)
    BY <1>3 DEF WaitingJobs
  <2>2. Cardinality(WaitingJobs(ledger')) <= Cardinality(WaitingJobs(ledger))
    BY <1>1, <1>3, <2>1, LedgerIsFinite, FS_Subset
  <2> QED BY <1>1, <1>5, <2>1, <2>2, LedgerIsFinite DEF AdmissionBounded
<1>7. ASSUME NEW c \in Caller PROVE Cardinality(RecentJobs(ledger', c, now')) <= RateLimit
  <2> DEFINE S == RecentJobs(ledger, c, now)
             T == RecentJobs(ledger', c, now')
  <2>1. T \in SUBSET S /\ S \in SUBSET (DOMAIN ledger) /\ Cardinality(S) <= RateLimit
    BY <1>4 DEF RecentJobs, AdmissionBounded
  <2> HIDE DEF S, T
  <2>2. Cardinality(T) <= Cardinality(S) /\ Cardinality(S) \in Nat /\ Cardinality(T) \in Nat
    <3>1. T \in SUBSET (DOMAIN ledger)
      BY <2>1
    <3> QED BY <1>1, <2>1, <3>1, LedgerIsFinite, FS_Subset
  <2> QED BY <1>5, <2>1, <2>2 DEF T
<1> QED BY <1>6, <1>7 DEF AdmissionBounded, WaitingJobs, RecentJobs

\* One more than fewer than the limit.
LEMMA OneMore ==
  ASSUME NEW S, IsFiniteSet(S), NEW n \in Nat, ~(Cardinality(S) >= n),
         NEW i, NEW T \in SUBSET (S \cup {i})
  PROVE  Cardinality(T) <= n
<1>1. IsFiniteSet(S \cup {i}) /\ Cardinality(S) \in Nat
  BY FS_AddElement, FS_CardinalityType
<1>2. Cardinality(S \cup {i}) <= Cardinality(S) + 1 /\ Cardinality(S \cup {i}) \in Nat
  BY <1>1, FS_AddElement, FS_CardinalityType
<1>3. Cardinality(T) <= Cardinality(S \cup {i}) /\ Cardinality(T) \in Nat
  BY <1>1, FS_Subset, FS_CardinalityType
<1> QED BY <1>1, <1>2, <1>3

LEMMA OneAccepted ==
  ASSUME Inv, Onward, AdmissionBounded,
         NEW c \in Caller, NEW k \in Key, NEW ttl \in Ttl, Accept(c, k, ttl), issued' # issued
  PROVE  AdmissionBounded'
<1>1. Typed /\ Typed' /\ Clock
  BY DEF Inv, SendInv, Onward
<1> DEFINE i == issued'
           new == [j \in DOMAIN Cleaned \cup {i} |->
                     IF j = i THEN NewRow(c, k, ttl, now') ELSE Cleaned[j]]
<1>2. ledger' = new /\ ~Full(Cleaned, c, now')
  BY DEF Accept, Commit, RollBack
<1>3. /\ DOMAIN ledger' = DOMAIN Cleaned \cup {i} /\ ledger'[i].caller = c
      /\ \A j \in DOMAIN Cleaned : j # i => ledger'[j] = Cleaned[j]
  BY <1>2 DEF NewRow
<1> HIDE DEF new, i
<1>4. Resting(Cleaned) /\ DOMAIN Cleaned \in SUBSET (DOMAIN ledger)
  BY <1>1, CleanedRests DEF Resting
<1>5. /\ IsFiniteSet(WaitingJobs(Cleaned))
      /\ \A d : IsFiniteSet(RecentJobs(Cleaned, d, now'))
  <2>1. WaitingJobs(Cleaned) \in SUBSET (DOMAIN ledger)
        /\ \A d : RecentJobs(Cleaned, d, now') \in SUBSET (DOMAIN ledger)
    BY <1>4 DEF WaitingJobs, RecentJobs
  <2> QED BY <1>1, <2>1, LedgerIsFinite
<1>6. QueueLimit \in Nat /\ RateLimit \in Nat
  BY ConstantsAssumption
<1>7. WaitingJobs(ledger') \in SUBSET (WaitingJobs(Cleaned) \cup {i})
  BY <1>3 DEF WaitingJobs
<1>8. Cardinality(WaitingJobs(ledger')) <= QueueLimit
  BY <1>2, <1>5, <1>6, <1>7, OneMore DEF Full
<1>9. ASSUME NEW d \in Caller PROVE Cardinality(RecentJobs(ledger', d, now')) <= RateLimit
  <2>1. CASE d = c
    <3>1. RecentJobs(ledger', c, now') \in SUBSET (RecentJobs(Cleaned, c, now') \cup {i})
      BY <1>3 DEF RecentJobs
    <3>2. ~(Cardinality(RecentJobs(Cleaned, c, now')) >= RateLimit)
      BY <1>2 DEF Full
    <3> QED BY <1>5, <1>6, <2>1, <3>1, <3>2, OneMore
  <2>2. CASE d # c
    <3> DEFINE S == RecentJobs(ledger, d, now)
               T == RecentJobs(ledger', d, now')
    <3>1. T \in SUBSET S
      <4> SUFFICES ASSUME NEW j \in T PROVE j \in S
        OBVIOUS
      <4>1. j \in DOMAIN ledger' /\ j # i /\ ledger'[j].caller = d
            /\ ledger'[j].created > now' - RateWindow
        BY <1>3, <2>2 DEF RecentJobs
      <4>2. j \in DOMAIN ledger
        BY <1>3, <1>4, <4>1
      <4>3. Moved(j)
        BY <4>1, <4>2 DEF Onward, LedgerMoves, Young
      <4> QED BY <1>1, <4>1, <4>3, OldJobs
    <3>2. S \in SUBSET (DOMAIN ledger) /\ Cardinality(S) <= RateLimit
      BY DEF RecentJobs, AdmissionBounded
    <3> HIDE DEF S, T
    <3>3. T \in SUBSET (DOMAIN ledger)
      BY <3>1, <3>2
    <3>4. Cardinality(T) <= Cardinality(S) /\ Cardinality(S) \in Nat /\ Cardinality(T) \in Nat
      BY <1>1, <3>1, <3>2, <3>3, LedgerIsFinite, FS_Subset
    <3> QED BY <1>6, <3>2, <3>4 DEF T
  <2> QED BY <2>1, <2>2
<1> QED BY <1>8, <1>9 DEF AdmissionBounded, WaitingJobs, RecentJobs

\* Only accept hands out job identifiers.
LEMMA OnlyAcceptIssues ==
  ASSUME [Next]_vars
  PROVE  issued' = issued \/ \E c \in Caller, k \in Key, ttl \in Ttl : Accept(c, k, ttl)
<1>1. CASE Look \/ (\E o \in Output : Claim(o))
  BY <1>1 DEF Look, Claim
<1>2. CASE \E o \in Output, j \in JobId :
             \/ Respond(j, o) \/ Drop(j, o) \/ Get(j, o) \/ Fetched(j, o)
             \/ \E status \in AppResult : Report(o, j, status)
  BY <1>2 DEF Respond, Drop, Get, Fetched, Report
<1>3. CASE Work \/ Die
  BY <1>3 DEF Work, Die, Pick, Postpone, Start, Synthesize, Validate, Choose, CommitIntent,
              Publish, Transmit, Await, Record, Fail, Close
<1>4. CASE Stop \/ Supervise \/ CloseServers \/ Exit \/ Crash \/ Startup \/ Tick
           \/ UNCHANGED vars
  BY <1>4 DEF Stop, Supervise, CloseServers, Exit, Crash, Startup, Tick, vars
<1> QED BY <1>1, <1>2, <1>3, <1>4 DEF Next

\* accept counts the waiting jobs and the caller's recent ones in the transaction that
\* adds a job, and nothing makes a job wait again or younger: the queue and every
\* caller's rate stay within their limits.
THEOREM AdmissionHolds == Spec => []AdmissionBounded
<1>1. Init => AdmissionBounded
  <2> SUFFICES ASSUME Init PROVE AdmissionBounded
    OBVIOUS
  <2>1. WaitingJobs(ledger) = {} /\ \A c : RecentJobs(ledger, c, now) = {}
    BY DEF Init, WaitingJobs, RecentJobs
  <2>2. QueueLimit \in Nat /\ RateLimit \in Nat
    BY ConstantsAssumption
  <2> QED BY <2>1, <2>2, FS_EmptySet DEF AdmissionBounded
<1>2. Inv /\ AdmissionBounded /\ [Next]_vars => AdmissionBounded'
  <2> SUFFICES ASSUME Inv, AdmissionBounded, [Next]_vars PROVE AdmissionBounded'
    OBVIOUS
  <2>1. Onward
    BY InvStep
  <2>2. issued' = issued \/ \E c \in Caller, k \in Key, ttl \in Ttl : Accept(c, k, ttl)
    BY OnlyAcceptIssues
  <2> QED BY <2>1, <2>2, NoneAccepted, OneAccepted
<1> QED BY <1>1, <1>2, InvAlways, PTL DEF Spec

-----------------------------------------------------------------------------
(* Every delivery keeps the promise of OneShot *)

\* Rows in which nobody gives a delivery away or reports on one.
Winding(rows) ==
  \A j \in DOMAIN rows : j \in DOMAIN ledger /\ Winds(rows[j], ledger[j])

LEMMA LedgerWinds == Typed => Winding(ledger)
BY RowsProper, WindsItself DEF Winding

LEMMA CleanedWinds == Typed => Winding(Cleaned)
<1> SUFFICES ASSUME Typed PROVE Winding(Cleaned)
  OBVIOUS
<1>1. now \in Nat
  BY DEF Typed
<1>2. /\ DOMAIN Cleaned = {k \in DOMAIN ledger : ledger[k].created >= now - Retention}
      /\ \A j \in DOMAIN Cleaned : Cleaned[j] = Sweep(ledger[j], now)
  BY DEF Cleaned, CleanupOf
<1>3. \A j \in DOMAIN ledger : Winds(Sweep(ledger[j], now), ledger[j])
  BY <1>1, RowsProper, SweepWinds
<1> QED BY <1>2, <1>3 DEF Winding

LEMMA EditWinds ==
  ASSUME NEW rows, Winding(rows), NEW j, NEW row, j \in DOMAIN rows => Winds(row, rows[j])
  PROVE  Winding([rows EXCEPT ![j] = row])
<1> DEFINE new == [rows EXCEPT ![j] = row]
<1>1. DOMAIN new = DOMAIN rows /\ \A i \in DOMAIN rows : new[i] = IF i = j THEN row ELSE rows[i]
  OBVIOUS
<1> HIDE DEF new
<1>2. Winding(new)
  BY <1>1, WindsOn DEF Winding
<1> QED BY <1>2 DEF new

\* What its device has for certain, and what it may have.
Confirmed == {"media_fetched_unconfirmed", "completed_unconfirmed", "dismissed", "interrupted"}
Given == {"claimed", "dispatching", "uncertain", "published_unconfirmed"}

\* What the ledger says of a delivery agrees with what its device has.
ToldRow(j, o) ==
  /\ ledger[j].out[o] \in Confirmed => <<j, o>> \in delivered
  /\ ledger[j].out[o] \in {"accepted", "ready"} => sent[<<j, o>>] = 0
  /\ o \in Native /\ <<j, o>> \in inflight => ledger[j].out[o] \in Given
ToldRows == \A j \in DOMAIN ledger : \A o \in DOMAIN ledger[j].out : ToldRow(j, o)

\* The outcome that the worker is about to store.
ToldHand ==
  worker.step = "recording" =>
    /\ worker.output \in Native =>
         /\ worker.state \in {"expired", "failed", "ready"}
         /\ sent[<<worker.job, worker.output>>] = 0
    /\ worker.output \notin Native =>
         worker.state \in {"expired", "failed", "uncertain", "published_unconfirmed"}
    /\ worker.state \in {"uncertain", "published_unconfirmed"} =>
         Job.out[worker.output] \in SentStatus

Told == Inv /\ ToldRows /\ ToldHand

\* The worker stores an outcome.
Recording(j, o) == worker.step = "recording" /\ worker.job = j /\ worker.output = o

\* What a step makes of the status of a delivery.
Goes(j, o) ==
  LET old == ledger[j].out[o]
      new == ledger'[j].out[o]
  IN  \/ Fades(new, old)
      \/ o \in Native /\ old = "ready" /\ new = "claimed"
      \/ /\ o \in Native /\ <<j, o>> \in delivered /\ old \in Given
         /\ new \in Confirmed \cup {"failed", "expired"}
      \/ /\ o \notin Native /\ <<j, o>> \in delivered /\ old \in SentStatus
         /\ new = "media_fetched_unconfirmed"
      \/ /\ o \notin Native /\ sent[<<j, o>>] = 0 /\ old \in {"accepted", "expired"}
         /\ new = "dispatching"
      \/ Recording(j, o) /\ old # "media_fetched_unconfirmed" /\ new = worker.state

\* What a step makes of all that the promise is about.
Effects ==
  /\ issued' \in Nat /\ issued' >= issued
  /\ \A j \in DOMAIN ledger' :
       \/ j \in DOMAIN ledger /\ DOMAIN ledger'[j].out = DOMAIN ledger[j].out
          /\ \A o \in DOMAIN ledger[j].out : Goes(j, o)
       \/ j \notin DOMAIN ledger /\ j > issued /\ j <= issued'
          /\ \A o \in DOMAIN ledger'[j].out : ledger'[j].out[o] = "accepted"
  /\ \A j \in JobId, o \in Native : <<j, o>> \in inflight' =>
       \/ <<j, o>> \in inflight
       \/ ledger'[j].out[o] = "claimed"
  /\ \A j \in JobId, o \in Output :
       \/ /\ sent'[<<j, o>>] = sent[<<j, o>>]
          /\ <<j, o>> \in delivered' <=> <<j, o>> \in delivered
       \/ /\ j \in DOMAIN ledger /\ o \in DOMAIN ledger[j].out /\ ledger' = ledger
          /\ issued' = issued
          /\ ledger[j].out[o] \in Given
          /\ sent[<<j, o>>] = 0 /\ sent'[<<j, o>>] = 1
          /\ <<j, o>> \notin delivered
          /\ o \in Native => <<j, o>> \in delivered' /\ <<j, o>> \notin inflight'


LEMMA HandUntouched ==
  ASSUME Inv, worker.step = "recording"
  PROVE  /\ worker.job \in DOMAIN ledger /\ worker.output \in DOMAIN ledger[worker.job].out
         /\ worker.output \in Native =>
              ledger[worker.job].out[worker.output] \in {"accepted", "expired"}
         /\ ledger[worker.job].out[worker.output] \in {"accepted", "expired"} \cup SentStatus
<1>1. worker.job \in DOMAIN ledger
  BY HandIs DEF Active
<1> QED BY <1>1 DEF Inv, HandInv, Busy, Untouched, Job

LEMMA SentOnce ==
  ASSUME Inv, NEW j \in JobId, NEW o \in Output
  PROVE  /\ <<j, o>> \in delivered => sent[<<j, o>>] = 1
         /\ o \in Native /\ <<j, o>> \in inflight => sent[<<j, o>>] = 0
         /\ sent[<<j, o>>] \in {0, 1}
         /\ j > issued => sent[<<j, o>>] = 0 /\ (o \in Native => <<j, o>> \notin inflight)
<1>1. <<j, o>> \in Delivery
  BY DEF Delivery
<1> QED BY <1>1 DEF Inv, SentInv, SendInv, Typed, LedgerFresh, Fresh

LEMMA JobsAre ==
  ASSUME Inv, NEW j \in DOMAIN ledger
  PROVE  j \in JobId /\ j \in Nat /\ issued \in Nat /\ j <= issued
         /\ DOMAIN ledger[j].out \subseteq Output
<1>1. j \in 1 .. issued /\ issued \in 0 .. MaxJobs /\ MaxJobs \in Nat
  BY ConstantsAssumption DEF Inv, SendInv, Typed
<1>2. ledger[j] \in Row
  BY RowsProper DEF Inv, SendInv
<1> QED BY <1>1, <1>2, RowFields DEF JobId

LEMMA RowsStayTold ==
  ASSUME Told, Inv', Effects
  PROVE  ToldRows'
<1> SUFFICES ASSUME NEW j \in DOMAIN ledger', NEW o \in DOMAIN ledger'[j].out
             PROVE  ToldRow(j, o)'
  BY DEF ToldRows
<1>1. j \in JobId /\ o \in Output
  <2>1. /\ \A i \in DOMAIN ledger : i \in JobId /\ DOMAIN ledger[i].out \subseteq Output
    BY JobsAre DEF Told
  <2>2. j \in 1 .. issued' /\ issued' \in 0 .. MaxJobs /\ MaxJobs \in Nat
        /\ ledger'[j] \in Row
    BY ConstantsAssumption DEF Inv, SendInv, Typed, ProperRows, Proper
  <2> QED BY <2>2, RowFields DEF JobId
<1>2. /\ <<j, o>> \in delivered => sent[<<j, o>>] = 1
      /\ o \in Native /\ <<j, o>> \in inflight => sent[<<j, o>>] = 0
      /\ j > issued => sent[<<j, o>>] = 0 /\ (o \in Native => <<j, o>> \notin inflight)
  BY <1>1, SentOnce DEF Told
<1>3. /\ o \in Native /\ <<j, o>> \in inflight' =>
           <<j, o>> \in inflight \/ ledger'[j].out[o] = "claimed"
      /\ \/ /\ sent'[<<j, o>>] = sent[<<j, o>>]
            /\ <<j, o>> \in delivered' <=> <<j, o>> \in delivered
         \/ /\ j \in DOMAIN ledger /\ ledger[j].out[o] \in Given /\ ledger' = ledger
            /\ <<j, o>> \notin delivered
  BY <1>1 DEF Effects
<1>4. CASE j \notin DOMAIN ledger
  <2>1. j > issued /\ ledger'[j].out[o] = "accepted"
    BY <1>4 DEF Effects
  <2> QED BY <1>2, <1>3, <1>4, <2>1 DEF Confirmed, ToldRow
<1>5. CASE j \in DOMAIN ledger
  <2>1. o \in DOMAIN ledger[j].out /\ Goes(j, o)
    BY <1>5 DEF Effects
  <2>2. /\ ledger[j].out[o] \in Confirmed => <<j, o>> \in delivered
        /\ ledger[j].out[o] \in {"accepted", "ready"} => sent[<<j, o>>] = 0
        /\ o \in Native /\ <<j, o>> \in inflight => ledger[j].out[o] \in Given
    BY <1>5, <2>1 DEF Told, ToldRows, ToldRow
  <2>3. Recording(j, o) =>
          /\ o \in Native => /\ worker.state \in {"expired", "failed", "ready"}
                             /\ sent[<<j, o>>] = 0
                             /\ ledger[j].out[o] \in {"accepted", "expired"}
          /\ o \notin Native =>
               worker.state \in {"expired", "failed", "uncertain", "published_unconfirmed"}
    BY HandUntouched DEF Told, ToldHand, Recording
  <2> QED BY <1>2, <1>3, <2>1, <2>2, <2>3 DEF Goes, Fades, Confirmed, Given, ToldRow
<1> QED BY <1>4, <1>5

\* The outcome stays one that may be stored, whatever others do meanwhile.
LEMMA HandStaysTold ==
  ASSUME Told, Inv', Effects, worker' = worker
  PROVE  ToldHand'
<1> SUFFICES ASSUME worker.step = "recording" PROVE ToldHand'
  BY DEF ToldHand
<1> DEFINE j == worker.job
           o == worker.output
<1>1. /\ j \in DOMAIN ledger /\ o \in DOMAIN ledger[j].out
      /\ o \in Native => ledger[j].out[o] \in {"accepted", "expired"}
  BY HandUntouched DEF Told
<1>2. j \in DOMAIN ledger'
  <2>1. j \in JobId /\ worker'.step \in Active /\ worker'.job = j
    BY HandIs DEF Told, Active
  <2> QED BY <2>1 DEF Inv, Kept, Held
<1>3. Goes(j, o) /\ j \in JobId /\ o \in Output
  BY <1>1, <1>2, JobsAre DEF Effects, Told
<1>4. o \in Native => sent'[<<j, o>>] = sent[<<j, o>>]
  BY <1>1, <1>3 DEF Effects, Given
<1>5. /\ o \in Native => /\ worker.state \in {"expired", "failed", "ready"}
                         /\ sent[<<j, o>>] = 0
      /\ o \notin Native =>
           worker.state \in {"expired", "failed", "uncertain", "published_unconfirmed"}
      /\ worker.state \in {"uncertain", "published_unconfirmed"} =>
           ledger[j].out[o] \in SentStatus
  BY DEF Told, ToldHand, Job
<1>6. worker.state \in {"uncertain", "published_unconfirmed"} =>
        ledger'[j].out[o] \in SentStatus
  BY <1>3, <1>5 DEF Goes, Fades, Recording, SentStatus, Confirmed
<1> QED BY <1>4, <1>5, <1>6 DEF ToldHand, Job

LEMMA WindsGoes ==
  ASSUME NEW j, NEW o, Fades(ledger'[j].out[o], ledger[j].out[o]) PROVE Goes(j, o)
BY DEF Goes

\* Steps that give no delivery away and report on none.
LEMMA QuietEffects ==
  ASSUME Inv, Winding(ledger'), UNCHANGED <<issued, sent, delivered>>,
         \A j \in JobId, o \in Native : <<j, o>> \in inflight' => <<j, o>> \in inflight
  PROVE  Effects
<1>1. issued \in Nat
  BY ConstantsAssumption DEF Inv, SendInv, Typed
<1>2. \A j \in DOMAIN ledger' :
        /\ j \in DOMAIN ledger /\ DOMAIN ledger'[j].out = DOMAIN ledger[j].out
        /\ \A o \in DOMAIN ledger[j].out : Goes(j, o)
  BY WindsGoes DEF Winding, Winds
<1> QED BY <1>1, <1>2 DEF Effects

\* One delivery of a ledger gets an outcome, and its job is refreshed.
LEMMA MarkedAre ==
  ASSUME NEW rows, Winding(rows), Typed, NEW j \in DOMAIN rows, NEW o \in DOMAIN rows[j].out,
         NEW status \in Status, ledger' = Mark(rows, j, o, status)
  PROVE  \A i \in DOMAIN ledger' :
           /\ i \in DOMAIN ledger /\ DOMAIN ledger'[i].out = DOMAIN ledger[i].out
           /\ \A p \in DOMAIN ledger[i].out :
                IF i = j /\ p = o THEN ledger'[i].out[p] = status
                ELSE Fades(ledger'[i].out[p], ledger[i].out[p])
<1> DEFINE r == Set(rows[j], o, status)
           row == Refresh(r)
<1>1. rows[j] \in Row
  BY DEF Winding, Winds
<1>2. /\ r \in Row /\ DOMAIN r.out = DOMAIN rows[j].out
      /\ \A p \in DOMAIN rows[j].out : r.out[p] = IF p = o THEN status ELSE rows[j].out[p]
  BY <1>1, SetFields DEF SameJob
<1> HIDE DEF r
<1>3. row.out = r.out
  BY <1>2, RefreshDrifts DEF Drifts
<1>4. ledger' = [rows EXCEPT ![j] = row]
  BY DEF Mark, r
<1> HIDE DEF row
<1>5. DOMAIN ledger' = DOMAIN rows
      /\ \A i \in DOMAIN rows : ledger'[i] = IF i = j THEN row ELSE rows[i]
  BY <1>4
<1> QED BY <1>2, <1>3, <1>5 DEF Winding, Winds

LEMMA LookEffects == ASSUME Inv, Look PROVE Effects
<1>1. Typed
  BY DEF Inv, SendInv
<1> QED BY <1>1, LedgerWinds, CleanedWinds, QuietEffects DEF Look, Commit, RollBack, outside

LEMMA AcceptEffects ==
  ASSUME Inv, NEW c \in Caller, NEW k \in Key, NEW ttl \in Ttl, Accept(c, k, ttl)
  PROVE  Effects
<1> DEFINE new == [j \in DOMAIN Cleaned \cup {issued'} |->
                     IF j = issued' THEN NewRow(c, k, ttl, now') ELSE Cleaned[j]]
<1>1. /\ Typed /\ UNCHANGED outside /\ now' \in Nat /\ issued \in Nat
  <2>1. Typed /\ now \in Nat /\ issued \in Nat
    BY ConstantsAssumption DEF Inv, SendInv, Typed
  <2>2. now' \in Readable
    BY DEF Accept
  <2> QED BY <2>1, <2>2, ConstantsAssumption DEF Accept, Readable
<1>2. \/ UNCHANGED issued /\ ledger' \in {Cleaned, ledger}
      \/ issued' = issued + 1 /\ config.outputs # {} /\ ledger' = new
  BY DEF Accept, Commit, RollBack
<1>3. CASE UNCHANGED issued /\ ledger' \in {Cleaned, ledger}
  BY <1>1, <1>3, LedgerWinds, CleanedWinds, QuietEffects DEF outside
<1>4. CASE issued' = issued + 1 /\ config.outputs # {} /\ ledger' = new
  <2>1. NewRow(c, k, ttl, now').out = [o \in config.outputs |-> "accepted"]
    BY DEF NewRow
  <2>2. issued' \notin DOMAIN ledger
    BY <1>1, <1>4 DEF Typed
  <2>3. ASSUME NEW j \in DOMAIN ledger'
        PROVE  \/ j \in DOMAIN ledger /\ DOMAIN ledger'[j].out = DOMAIN ledger[j].out
                  /\ \A o \in DOMAIN ledger[j].out : Goes(j, o)
               \/ j \notin DOMAIN ledger /\ j > issued /\ j <= issued'
                  /\ \A o \in DOMAIN ledger'[j].out : ledger'[j].out[o] = "accepted"
    <3>1. CASE j = issued'
      <4>1. ledger'[j] = NewRow(c, k, ttl, now')
        BY <1>4, <3>1
      <4> QED BY <1>1, <1>4, <2>1, <2>2, <3>1, <4>1
    <3>2. CASE j # issued'
      <4>1. j \in DOMAIN Cleaned /\ ledger'[j] = Cleaned[j]
        BY <1>4, <2>3, <3>2
      <4> QED BY <1>1, <4>1, CleanedWinds, WindsGoes DEF Winding, Winds
    <3> QED BY <3>1, <3>2
  <2> HIDE DEF new
  <2> QED BY <1>1, <1>4, <2>3 DEF Effects, outside
<1> QED BY <1>2, <1>3, <1>4

LEMMA ClaimEffects ==
  ASSUME Inv, NEW o \in Output, Claim(o)
  PROVE  Effects
<1>1. /\ Typed /\ o \in Native /\ issued \in Nat
      /\ UNCHANGED <<issued, sent, delivered>>
  BY ConstantsAssumption DEF Claim, Inv, SendInv, Typed
<1>2. Winding(Cleaned)
  BY <1>1, CleanedWinds
<1>3. \/ ledger' = Cleaned /\ inflight' = inflight
      \/ \E j \in Pollable(Cleaned, o) :
           \/ ledger' = Mark(Cleaned, j, o, "failed") /\ inflight' = inflight
           \/ /\ ledger' = Mark(Cleaned, j, o, "claimed")
              /\ inflight' = inflight \cup {<<j, o>>}
  BY DEF Claim, Commit, Earliest
<1>4. CASE ledger' = Cleaned /\ inflight' = inflight
  BY <1>1, <1>2, <1>4, QuietEffects
<1>5. ASSUME NEW j \in Pollable(Cleaned, o), NEW status \in {"failed", "claimed"},
             ledger' = Mark(Cleaned, j, o, status),
             \/ inflight' = inflight
             \/ status = "claimed" /\ inflight' = inflight \cup {<<j, o>>}
      PROVE  Effects
  <2>1. /\ j \in DOMAIN Cleaned /\ o \in DOMAIN Cleaned[j].out /\ Cleaned[j].out[o] = "ready"
        /\ status \in Status
    BY StatusNames DEF Pollable
  <2>2. \A i \in DOMAIN ledger' :
           /\ i \in DOMAIN ledger /\ DOMAIN ledger'[i].out = DOMAIN ledger[i].out
           /\ \A p \in DOMAIN ledger[i].out :
                IF i = j /\ p = o THEN ledger'[i].out[p] = status
                ELSE Fades(ledger'[i].out[p], ledger[i].out[p])
    BY <1>1, <1>2, <1>5, <2>1, MarkedAre
  <2>3. j \in DOMAIN ledger /\ o \in DOMAIN ledger[j].out /\ ledger[j].out[o] = "ready"
    BY <1>2, <2>1 DEF Winding, Winds, Fades
  <2>4. j \in DOMAIN ledger'
    BY <1>5, <2>1 DEF Mark
  <2>5. ledger'[j].out[o] = status /\ Goes(j, o)
    BY <1>1, <2>2, <2>3, <2>4 DEF Goes, Fades
  <2>6. \A i \in DOMAIN ledger' : \A p \in DOMAIN ledger[i].out : Goes(i, p)
    BY <2>2, <2>5, WindsGoes
  <2>7. \A i \in JobId, p \in Native : <<i, p>> \in inflight' =>
          <<i, p>> \in inflight \/ ledger'[i].out[p] = "claimed"
    <3>1. \A i, p : <<i, p>> \in inflight' =>
            <<i, p>> \in inflight \/ (i = j /\ p = o /\ status = "claimed")
      BY <1>5
    <3> QED BY <2>5, <3>1
  <2> QED BY <1>1, <2>2, <2>6, <2>7 DEF Effects
<1> QED BY <1>3, <1>4, <1>5

LEMMA RespondEffects ==
  ASSUME Told, NEW j \in JobId, NEW o \in Output, Respond(j, o)
  PROVE  Effects
<1>1. /\ Typed /\ issued \in Nat /\ o \in Native /\ <<j, o>> \in inflight
      /\ <<j, o>> \in Delivery
      /\ j \in DOMAIN ledger /\ o \in DOMAIN ledger[j].out
  <2>1. Typed /\ issued \in Nat
    BY ConstantsAssumption DEF Told, Inv, SendInv, Typed
  <2>2. o \in Native /\ <<j, o>> \in inflight /\ <<j, o>> \in Delivery
    BY DEF Respond, Delivery
  <2> QED BY <2>1, <2>2 DEF Told, Inv, Kept, SentInv
<1>2. ledger[j].out[o] \in Given
  BY <1>1 DEF Told, ToldRows, ToldRow
<1>3. sent[<<j, o>>] = 0 /\ <<j, o>> \notin delivered
  BY <1>1, SentOnce DEF Told
<1>4. sent \in [Delivery -> {0, 1}]
  BY <1>1 DEF Typed
<1>5. sent'[<<j, o>>] = 1 /\ \A d \in Delivery : d # <<j, o>> => sent'[d] = sent[d]
  BY <1>1, <1>3, <1>4 DEF Respond
<1>6. Winding(ledger') /\ ledger' = ledger /\ issued' = issued
  BY <1>1, LedgerWinds DEF Respond
<1>7. /\ \A i, p : <<i, p>> \in delivered' <=> <<i, p>> \in delivered \/ (i = j /\ p = o)
      /\ \A i, p : <<i, p>> \in inflight' <=> <<i, p>> \in inflight /\ ~(i = j /\ p = o)
  BY DEF Respond
<1>8. \A i \in JobId, p \in Output : <<i, p>> \in Delivery /\ (<<i, p>> = <<j, o>> => i = j /\ p = o)
  BY DEF Delivery
<1> QED BY <1>1, <1>2, <1>3, <1>5, <1>6, <1>7, <1>8, WindsGoes DEF Effects, Winding, Winds

LEMMA ReportEffects ==
  ASSUME Inv, NEW o \in Output, NEW j \in JobId, NEW status \in AppResult,
         Report(o, j, status)
  PROVE  Effects
<1>1. /\ Typed /\ issued \in Nat /\ o \in Native /\ <<j, o>> \in delivered
      /\ UNCHANGED <<issued, sent, delivered, inflight>>
  BY ConstantsAssumption DEF Report, Inv, SendInv, Typed, outside
<1>2. Winding(Cleaned) /\ Winding(ledger)
  BY <1>1, CleanedWinds, LedgerWinds
<1>3. \/ ledger' \in {Cleaned, ledger}
      \/ /\ j \in DOMAIN Cleaned /\ Cleaned[j].out[o] \in {"claimed", "uncertain"}
         /\ ledger' = Mark(Cleaned, j, o, status)
  BY DEF Report, Commit, RollBack
<1>4. CASE ledger' \in {Cleaned, ledger}
  BY <1>1, <1>2, <1>4, QuietEffects
<1>5. CASE /\ j \in DOMAIN Cleaned /\ Cleaned[j].out[o] \in {"claimed", "uncertain"}
           /\ ledger' = Mark(Cleaned, j, o, status)
  <2>1. status \in Status /\ status \in Confirmed \cup {"failed", "expired"}
    BY ConstantsAssumption, StatusNames DEF Confirmed
  <2>2. j \in DOMAIN ledger /\ o \in DOMAIN ledger[j].out /\ o \in DOMAIN Cleaned[j].out
    BY <1>1, <1>2, <1>5 DEF Inv, SentInv, Winding, Winds
  <2>3. \A i \in DOMAIN ledger' :
           /\ i \in DOMAIN ledger /\ DOMAIN ledger'[i].out = DOMAIN ledger[i].out
           /\ \A p \in DOMAIN ledger[i].out :
                IF i = j /\ p = o THEN ledger'[i].out[p] = status
                ELSE Fades(ledger'[i].out[p], ledger[i].out[p])
    BY <1>1, <1>2, <1>5, <2>1, <2>2, MarkedAre
  <2>4. ledger[j].out[o] \in Given
    BY <1>2, <1>5, <2>2 DEF Winding, Winds, Fades, Given
  <2>5. j \in DOMAIN ledger'
    BY <1>5 DEF Mark
  <2>6. Goes(j, o)
    BY <1>1, <2>1, <2>2, <2>3, <2>4, <2>5 DEF Goes
  <2>7. \A i \in DOMAIN ledger' : \A p \in DOMAIN ledger[i].out : Goes(i, p)
    BY <2>3, <2>6, WindsGoes
  <2> QED BY <1>1, <2>3, <2>7 DEF Effects
<1> QED BY <1>3, <1>4, <1>5

LEMMA FetchedEffects ==
  ASSUME Inv, NEW j \in JobId, NEW o \in Output, Fetched(j, o)
  PROVE  Effects
<1>1. /\ Typed /\ issued \in Nat /\ o \notin Native /\ <<j, o>> \in delivered
      /\ inflight' \subseteq inflight /\ UNCHANGED <<issued, sent, delivered>>
      /\ j \in DOMAIN ledger /\ o \in DOMAIN ledger[j].out /\ ledger[j].out[o] \in SentStatus
  BY ConstantsAssumption DEF Fetched, Inv, SendInv, Typed, Kept, SentInv
<1>2. ledger' = Mark(ledger, j, o, "media_fetched_unconfirmed")
      /\ "media_fetched_unconfirmed" \in Status
  BY StatusNames DEF Fetched
<1>3. \A i \in DOMAIN ledger' :
         /\ i \in DOMAIN ledger /\ DOMAIN ledger'[i].out = DOMAIN ledger[i].out
         /\ \A p \in DOMAIN ledger[i].out :
              IF i = j /\ p = o THEN ledger'[i].out[p] = "media_fetched_unconfirmed"
              ELSE Fades(ledger'[i].out[p], ledger[i].out[p])
  BY <1>1, <1>2, LedgerWinds, MarkedAre
<1>4. j \in DOMAIN ledger'
  BY <1>1, <1>2 DEF Mark
<1>5. Goes(j, o)
  BY <1>1, <1>3, <1>4 DEF Goes
<1>6. \A i \in DOMAIN ledger' : \A p \in DOMAIN ledger[i].out : Goes(i, p)
  BY <1>3, <1>5, WindsGoes
<1> QED BY <1>1, <1>3, <1>6 DEF Effects

LEMMA GetEffects ==
  ASSUME Inv, NEW j \in JobId, NEW o \in Output, Get(j, o)
  PROVE  Effects
<1>1. /\ Typed /\ o \notin Native /\ UNCHANGED <<issued, sent, delivered>>
      /\ j \in DOMAIN ledger /\ ledger[j].gets[o] < MediaLimit
      /\ inflight' = inflight \cup {<<j, o>>}
  BY DEF Get, MayFetch, Inv, SendInv
<1> DEFINE g == [ledger[j].gets EXCEPT ![o] = @ + 1]
           row == [ledger[j] EXCEPT !.gets = g]
<1>2. Proper(ledger[j]) /\ ledger[j] \in Row /\ now \in Nat
  BY <1>1, RowsProper DEF Typed
<1>3. row \in Row
  BY <1>1, <1>2, FetchRests DEF Rests, Drifts
<1>4. ledger' = [ledger EXCEPT ![j] = row]
  BY DEF Get
<1> HIDE DEF g
<1>5. row.out = ledger[j].out
  BY <1>2, RowIs
<1> HIDE DEF row
<1>6. Winding(ledger')
  BY <1>1, <1>3, <1>4, <1>5, LedgerWinds, EditWinds DEF Winds, Fades
<1>7. \A i, p : <<i, p>> \in inflight' => <<i, p>> \in inflight \/ p = o
  BY <1>1
<1> QED BY <1>1, <1>6, <1>7, QuietEffects

\* The worker changes the row of its job only.
LEMMA OwnWinds ==
  ASSUME Inv, worker.step \in Active, NEW row, Winds(row, Job),
         ledger' = [ledger EXCEPT ![worker.job] = row]
  PROVE  Winding(ledger')
<1>1. Winding(ledger)
  BY LedgerWinds DEF Inv, SendInv
<1> QED BY <1>1, EditWinds DEF Job

LEMMA OwnRefreshWinds ==
  ASSUME Inv, worker.step \in Active, ledger' = [ledger EXCEPT ![worker.job] = Refresh(@)]
  PROVE  Winding(ledger')
<1>1. Job \in Row /\ DOMAIN Job.out # {}
  BY HandIs DEF Proper
<1>2. Winds(Refresh(Job), Job) /\ ledger' = [ledger EXCEPT ![worker.job] = Refresh(Job)]
  BY <1>1, RefreshWinds DEF Job
<1> QED BY <1>2, OwnWinds

LEMMA PickEffects == ASSUME Inv, Pick PROVE Effects
<1>1. Typed /\ UNCHANGED <<issued, outside>>
  <2>1. UNCHANGED <<process, issued, outside>>
    BY Zenon DEF Pick
  <2> QED BY <2>1 DEF Inv, SendInv
<1>2. Winding(Cleaned)
  BY <1>1, CleanedWinds
<1>3. \/ ledger' = Cleaned
      \/ \E j \in DOMAIN Cleaned :
           ledger' = [Cleaned EXCEPT ![j] = Refresh(Turn(@, "accepted", "failed"))]
  <2>1. PICK t \in Readable :
          \/ Commit(Cleaned)
          \/ \E j \in Earliest(Cleaned, WaitingJobs(Cleaned)) :
               \/ Commit([Cleaned EXCEPT ![j] = Refresh(Turn(@, "accepted", "failed"))])
               \/ Commit(Cleaned)
    BY Zenon DEF Pick
  <2>2. Earliest(Cleaned, WaitingJobs(Cleaned)) \subseteq DOMAIN Cleaned
    BY DEF Earliest, WaitingJobs
  <2> QED BY <2>1, <2>2 DEF Commit
<1>4. ASSUME NEW j \in DOMAIN Cleaned,
             ledger' = [Cleaned EXCEPT ![j] = Refresh(Turn(@, "accepted", "failed"))]
      PROVE  Winding(ledger')
  <2> DEFINE r == Turn(Cleaned[j], "accepted", "failed")
  <2>1. Cleaned[j] \in Row /\ DOMAIN Cleaned[j].out # {}
    BY <1>1, <1>2, RowsProper DEF Winding, Winds
  <2>2. Winds(r, Cleaned[j])
    BY <2>1, TurnWinds, StatusNames
  <2> HIDE DEF r
  <2>3. Winds(Refresh(r), r)
    BY <2>1, <2>2, RefreshWinds DEF Winds
  <2>4. Winds(Refresh(r), Cleaned[j]) /\ ledger' = [Cleaned EXCEPT ![j] = Refresh(r)]
    BY <1>4, <2>2, <2>3, WindsOn DEF r
  <2> QED BY <1>2, <2>4, EditWinds
<1> QED BY <1>1, <1>2, <1>3, <1>4, QuietEffects DEF outside

LEMMA StartEffects == ASSUME Inv, Start PROVE Effects
<1>1. worker.step \in Active /\ UNCHANGED <<issued, outside>> /\ now \in Nat
  BY DEF Start, At, Active, Inv, SendInv, Typed
<1> DEFINE row == [Job EXCEPT !.status = "synthesizing"]
<1>2. ledger' = [ledger EXCEPT ![worker.job] = row]
  BY DEF Start, Job
<1>3. Drifts(row, Job, now) /\ row.out = Job.out
  BY <1>1, HandIs, StartDrifts
<1> HIDE DEF row
<1>4. Winds(row, Job)
  BY <1>3 DEF Drifts, Winds, Fades
<1> QED BY <1>1, <1>2, <1>4, OwnWinds, QuietEffects DEF outside

LEMMA FailEffects == ASSUME Inv, Fail PROVE Effects
<1>1. worker.step \in Active /\ UNCHANGED <<issued, outside>>
  BY DEF Fail, At, Active
<1> DEFINE to == IF Overdue THEN "expired" ELSE "failed"
           row == Turn(Turn(Job, "accepted", to), "dispatching", "uncertain")
<1>2. ledger' = [ledger EXCEPT ![worker.job] = row]
  BY DEF Fail, Job
<1>3. to \in {"failed", "expired"}
  OBVIOUS
<1> HIDE DEF to
<1>4. Winds(row, Job)
  BY <1>1, <1>3, HandIs, FailWinds
<1> HIDE DEF row
<1> QED BY <1>1, <1>2, <1>4, OwnWinds, QuietEffects DEF outside

LEMMA CloseEffects == ASSUME Inv, Close \/ Die PROVE Effects
<1>1. UNCHANGED <<issued, outside>>
  BY DEF Close, Die
<1>2. \/ ledger' = ledger
      \/ worker.step \in Active /\ ledger' = [ledger EXCEPT ![worker.job] = Refresh(@)]
  BY DEF Close, Die, RollBack, At, Active, Inv, ProcessInv, Steps
<1>3. Winding(ledger')
  BY <1>2, LedgerWinds, OwnRefreshWinds DEF Inv, SendInv
<1> QED BY <1>1, <1>3, QuietEffects DEF outside

LEMMA StartupEffects == ASSUME Inv, Startup PROVE Effects
<1> DEFINE rows == [j \in DOMAIN ledger |-> Recover(ledger[j])]
<1>1. Typed /\ now \in Nat /\ UNCHANGED <<issued, outside>>
  BY DEF Inv, SendInv, Typed, Startup
<1>2. ledger' = CleanupOf(rows)
  BY DEF Startup, Commit
<1>3. \A j \in DOMAIN rows : j \in DOMAIN ledger /\ Winds(rows[j], ledger[j]) /\ Proper(ledger[j])
  BY <1>1, RowsProper, RecoverWinds
<1> HIDE DEF rows
<1>4. \A j \in DOMAIN ledger' : j \in DOMAIN rows /\ ledger'[j] = Sweep(rows[j], now)
  BY <1>2 DEF CleanupOf
<1>5. ASSUME NEW j \in DOMAIN ledger'
      PROVE  j \in DOMAIN ledger /\ Winds(ledger'[j], ledger[j])
  <2>1. rows[j] \in Row /\ DOMAIN rows[j].out # {}
    BY <1>3, <1>4 DEF Winds, Proper
  <2>2. Winds(ledger'[j], rows[j])
    BY <1>1, <1>4, <2>1, SweepWinds
  <2> QED BY <1>3, <1>4, <2>2, WindsOn
<1> QED BY <1>1, <1>5, QuietEffects DEF Winding, outside

\* Steps that leave the ledger, and what its devices have, alone.
LEMMA IdleEffects ==
  ASSUME Inv, ledger' = ledger, UNCHANGED <<issued, sent, delivered>>, inflight' \subseteq inflight
  PROVE  Effects
BY LedgerWinds, QuietEffects DEF Inv, SendInv

LEMMA TransmitEffects == ASSUME Told, Transmit PROVE Effects
<1> DEFINE j == worker.job
           o == worker.output
<1>1. /\ worker.step = "transmitting" /\ UNCHANGED <<ledger, issued>> /\ Inv /\ Typed
      /\ issued \in Nat
  BY ConstantsAssumption DEF Transmit, At, Told, Inv, SendInv, Typed
<1>2. /\ o \notin Native /\ o \in Output /\ sent[<<j, o>>] = 0
      /\ j \in DOMAIN ledger /\ j \in JobId /\ o \in DOMAIN ledger[j].out
      /\ ledger[j].out[o] \in SentStatus
  <2>1. j \in DOMAIN ledger /\ j \in JobId
    BY <1>1, HandIs DEF Active
  <2>2. o \notin Native /\ o \in Output /\ sent[<<j, o>>] = 0
    BY <1>1 DEF Inv, SendInv, WorkerFresh
  <2>3. o \in DOMAIN ledger[j].out /\ ledger[j].out[o] \in SentStatus
    BY <1>1 DEF Inv, HandInv, Busy, Job
  <2> QED BY <2>1, <2>2, <2>3
<1>3. <<j, o>> \notin delivered
  BY <1>1, <1>2, SentOnce
<1>4. ledger[j].out[o] \in Given
  BY <1>2, <1>3 DEF Told, ToldRows, ToldRow, Given, Confirmed, SentStatus
<1>5. CASE UNCHANGED outside
  BY <1>1, <1>5, IdleEffects DEF outside
<1>6. CASE /\ inflight' = inflight
           /\ sent' = [sent EXCEPT ![<<j, o>>] = @ + 1]
           /\ delivered' \in {delivered, delivered \cup {<<j, o>>}}
  <2>1. sent \in [Delivery -> {0, 1}] /\ <<j, o>> \in Delivery
    BY <1>1, <1>2 DEF Typed, Delivery
  <2>2. sent'[<<j, o>>] = 1 /\ \A d \in Delivery : d # <<j, o>> => sent'[d] = sent[d]
    BY <1>2, <1>6, <2>1
  <2>3. \A i, p : ~(i = j /\ p = o) => (<<i, p>> \in delivered' <=> <<i, p>> \in delivered)
    BY <1>6
  <2>4. \A i \in JobId, p \in Output : <<i, p>> \in Delivery /\ (<<i, p>> = <<j, o>> => i = j /\ p = o)
    BY DEF Delivery
  <2>5. Winding(ledger')
    BY <1>1, LedgerWinds
  <2> HIDE DEF j, o
  <2> QED BY <1>1, <1>2, <1>3, <1>4, <1>6, <2>2, <2>3, <2>4, <2>5, WindsGoes DEF Effects, Winding, Winds
<1> QED BY <1>5, <1>6 DEF Transmit

LEMMA SetEffects ==
  ASSUME Inv, worker.step \in Active, NEW o \in DOMAIN Job.out, NEW status \in Status,
         ledger' = [ledger EXCEPT ![worker.job] = Set(@, o, status)],
         ledger'[worker.job].out[o] = status => Goes(worker.job, o),
         UNCHANGED <<issued, outside>>
  PROVE  Effects
<1> DEFINE r == Set(Job, o, status)
<1>1. Job \in Row /\ worker.job \in DOMAIN ledger /\ issued \in Nat /\ Typed
  BY HandIs, ConstantsAssumption DEF Inv, SendInv, Typed
<1>2. /\ DOMAIN r.out = DOMAIN Job.out
      /\ \A p \in DOMAIN Job.out : r.out[p] = IF p = o THEN status ELSE Job.out[p]
  BY <1>1, SetFields DEF SameJob
<1>3. /\ DOMAIN ledger' = DOMAIN ledger
      /\ \A i \in DOMAIN ledger : ledger'[i] = IF i = worker.job THEN r ELSE ledger[i]
  BY DEF Job
<1> HIDE DEF r
<1>4. \A i \in DOMAIN ledger' :
        /\ i \in DOMAIN ledger /\ DOMAIN ledger'[i].out = DOMAIN ledger[i].out
        /\ \A p \in DOMAIN ledger[i].out : Goes(i, p)
  <2> SUFFICES ASSUME NEW i \in DOMAIN ledger
               PROVE  /\ DOMAIN ledger'[i].out = DOMAIN ledger[i].out
                      /\ \A p \in DOMAIN ledger[i].out : Goes(i, p)
    BY <1>3
  <2>1. CASE i # worker.job
    BY <1>3, <2>1, WindsGoes DEF Fades
  <2>2. CASE i = worker.job
    <3>1. ledger'[worker.job] = r /\ ledger[worker.job] = Job
      BY <1>1, <1>3 DEF Job
    <3>2. \A p \in DOMAIN Job.out : p # o => Goes(worker.job, p)
      BY <1>2, <3>1, WindsGoes DEF Fades
    <3> QED BY <1>2, <2>2, <3>1, <3>2
  <2> QED BY <2>1, <2>2
<1> QED BY <1>1, <1>4 DEF Effects, outside

LEMMA CommitIntentEffects == ASSUME Told, CommitIntent PROVE Effects
<1>1. /\ worker.step = "dispatching" /\ worker.step \in Active /\ Inv
      /\ ledger' = [ledger EXCEPT ![worker.job] = Set(@, worker.output, "dispatching")]
      /\ UNCHANGED <<issued, outside>>
  BY DEF CommitIntent, At, Active, Told
<1>2. /\ worker.output \in DOMAIN Job.out /\ Untouched(Job, worker.output, now)
      /\ worker.output \notin Native /\ sent[<<worker.job, worker.output>>] = 0
  BY <1>1 DEF Inv, HandInv, Busy, SendInv, WorkerFresh
<1>3. "dispatching" \in Status
  BY StatusNames
<1>4. ledger'[worker.job].out[worker.output] = "dispatching" => Goes(worker.job, worker.output)
  BY <1>2 DEF Goes, Untouched, Job
<1> QED BY <1>1, <1>2, <1>3, <1>4, SetEffects

LEMMA RecordEffects == ASSUME Told, Record PROVE Effects
<1>1. /\ worker.step = "recording" /\ worker.step \in Active /\ Inv
      /\ UNCHANGED <<issued, outside>>
  BY DEF Record, At, Active, Told
<1>2. worker.output \in DOMAIN Job.out /\ worker.state \in Status
  BY <1>1 DEF Inv, HandInv, Busy
<1>3. CASE Job.out[worker.output] = "media_fetched_unconfirmed"
  BY <1>1, <1>3, IdleEffects DEF Record, outside
<1>4. CASE Job.out[worker.output] # "media_fetched_unconfirmed"
  <2>1. ledger' = [ledger EXCEPT ![worker.job] = Set(@, worker.output, worker.state)]
    BY <1>4 DEF Record
  <2>2. ledger'[worker.job].out[worker.output] = worker.state => Goes(worker.job, worker.output)
    BY <1>1, <1>4 DEF Goes, Recording, Job
  <2> QED BY <1>1, <1>2, <2>1, <2>2, SetEffects
<1> QED BY <1>3, <1>4

LEMMA StepEffects == ASSUME Told, [Next]_vars PROVE Effects
<1>0. Inv
  BY DEF Told
<1>1. CASE \E c \in Caller, k \in Key, ttl \in Ttl : Accept(c, k, ttl)
  BY <1>0, <1>1, AcceptEffects
<1>2. CASE Look \/ \E o \in Output : Claim(o)
  BY <1>0, <1>2, LookEffects, ClaimEffects
<1>3. CASE \E o \in Output, j \in JobId : Respond(j, o) \/ Get(j, o) \/ Fetched(j, o)
  BY <1>0, <1>3, RespondEffects, GetEffects, FetchedEffects
<1>4. CASE \E o \in Output, j \in JobId : Drop(j, o)
  BY <1>0, <1>4, IdleEffects DEF Drop
<1>5. CASE \E o \in Output, j \in JobId, status \in AppResult : Report(o, j, status)
  BY <1>0, <1>5, ReportEffects
<1>6. CASE Work \/ Die
  <2>1. CASE Pick \/ Start \/ CommitIntent \/ Transmit \/ Record \/ Fail \/ Close \/ Die
    BY <1>0, <2>1, PickEffects, StartEffects, CommitIntentEffects, TransmitEffects,
       RecordEffects, FailEffects, CloseEffects
  <2>2. CASE Postpone \/ Synthesize \/ Validate \/ Publish \/ Await \/ \E o \in Output : Choose(o)
    BY <1>0, <2>2, IdleEffects DEF Postpone, Synthesize, Validate, Publish, Await, Choose, outside
  <2> QED BY <1>6, <2>1, <2>2 DEF Work
<1>7. CASE Stop \/ Supervise \/ CloseServers \/ Exit \/ Crash \/ Startup \/ Tick \/ UNCHANGED vars
  <2>1. CASE Startup
    BY <1>0, <2>1, StartupEffects
  <2>2. CASE Stop \/ Supervise \/ CloseServers \/ Exit \/ Crash \/ Tick \/ UNCHANGED vars
    <3>1. /\ ledger' = ledger /\ UNCHANGED <<issued, sent, delivered>>
          /\ inflight' \subseteq inflight
      BY <2>2 DEF Stop, Supervise, CloseServers, Exit, Crash, Tick, vars, outside
    <3> QED BY <1>0, <3>1, IdleEffects
  <2> QED BY <1>7, <2>1, <2>2
<1> QED BY <1>1, <1>2, <1>3, <1>4, <1>5, <1>6, <1>7 DEF Next

-----------------------------------------------------------------------------
(* What the ledger says stays true *)

\* The outcomes that the worker may come to.
LEMMA ChooseTold == ASSUME Told, NEW o \in Output, Choose(o) PROVE ToldHand'
<1>1. /\ worker.step = "sending" /\ o \in worker.todo
      /\ UNCHANGED <<ledger, sent>>
  BY DEF Choose, At, outside
<1>2. sent[<<worker.job, o>>] = 0
  BY <1>1 DEF Told, Inv, SendInv, WorkerFresh, Pristine, Fresh
<1>3. WorkerTyped
  BY DEF Told, Inv, SendInv
<1> DEFINE next == [worker EXCEPT !.todo = @ \ {o}, !.output = o]
           recording(x) == [next EXCEPT !.step = "recording", !.state = x]
           dispatching == [next EXCEPT !.step = "dispatching"]
<1>4. \A x : recording(x).job = worker.job /\ recording(x).output = o /\ recording(x).state = x
  BY <1>3 DEF WorkerTyped
<1>5. dispatching.step = "dispatching"
  BY <1>3 DEF WorkerTyped
<1>6. \/ worker' \in {recording("expired"), recording("failed"), dispatching}
      \/ o \in Native /\ worker' = recording("ready")
  BY DEF Choose
<1> HIDE DEF next, recording, dispatching
<1>7. \/ worker'.step = "dispatching"
      \/ /\ worker'.job = worker.job /\ worker'.output = o
         /\ \/ worker'.state \in {"expired", "failed"}
            \/ worker'.state = "ready" /\ o \in Native
  BY <1>4, <1>5, <1>6
<1> QED BY <1>1, <1>2, <1>7 DEF ToldHand

LEMMA ConcludeTold ==
  ASSUME Told, worker.step \in {"publishing", "transmitting", "awaiting"},
         UNCHANGED <<ledger, sent>>,
         NEW state \in {"uncertain", "published_unconfirmed", "failed", "expired"},
         Conclude(worker.output, state)
  PROVE  ToldHand'
<1>1. worker.output \notin Native /\ Job.out[worker.output] \in SentStatus
  BY DEF Told, Inv, SendInv, WorkerFresh, HandInv, Busy
<1>2. worker'.step = "recording" /\ worker'.job = worker.job
      /\ worker'.output = worker.output /\ worker'.state = state
  <2>1. Moves("recording", worker.todo, worker.output, state)
    <3>1. WorkerTyped
      BY DEF Told, Inv, SendInv
    <3> QED BY <3>1, WorkerEdits, Zenon
  <2> QED BY <2>1, MovesFields
<1> QED BY <1>1, <1>2 DEF ToldHand, Job

LEMMA HandTold == ASSUME Told, [Next]_vars, Inv' PROVE ToldHand'
<1>0. Inv /\ WorkerTyped /\ Effects
  BY StepEffects DEF Told, Inv, SendInv
<1>1. CASE worker' = worker
  BY <1>0, <1>1, HandStaysTold
<1>2. CASE worker'.step # "recording"
  BY <1>2 DEF ToldHand
<1>3. ASSUME NEW s, s # "recording", Goto(s) PROVE worker'.step # "recording"
  BY <1>0, <1>3 DEF Goto, WorkerTyped
<1>4. CASE Pick \/ Postpone \/ Start \/ Synthesize
  <2>1. Pick \/ Postpone => worker' = worker \/ worker'.step # "recording"
    BY Zenon, IdleIs DEF Pick, Postpone, Idle
  <2>2. Start => Goto("synthesizing")
    BY DEF Start
  <2>3. Synthesize => Goto("validating") \/ Goto("failing")
    BY DEF Synthesize
  <2> QED BY <1>1, <1>2, <1>3, <1>4, <2>1, <2>2, <2>3
<1>5. CASE Validate \/ CommitIntent
  <2>1. Validate => Goto("failing")
                    \/ worker' = [worker EXCEPT !.step = "sending", !.todo = DOMAIN Job.out]
    BY DEF Validate
  <2>2. worker' = [worker EXCEPT !.step = "sending", !.todo = DOMAIN Job.out]
        => worker'.step # "recording"
    BY <1>0 DEF WorkerTyped
  <2>3. CommitIntent => Goto("publishing")
    BY DEF CommitIntent
  <2> QED BY <1>2, <1>3, <1>5, <2>1, <2>2, <2>3
<1>6. CASE \E o \in Output : Choose(o)
  BY <1>6, ChooseTold
<1>7. CASE Publish
  <2>1. worker.step = "publishing" /\ UNCHANGED <<ledger, outside>>
    BY <1>7 DEF Publish, At
  <2>2. \/ Goto("failing") \/ Goto("transmitting")
        \/ Conclude(worker.output, "failed") \/ Conclude(worker.output, "expired")
    BY <1>7 DEF Publish
  <2> QED BY <1>2, <1>3, <2>1, <2>2, ConcludeTold DEF outside
<1>13. CASE Transmit
  <2>1. worker.step = "transmitting" /\ UNCHANGED ledger
    BY <1>13 DEF Transmit, At
  <2>2. \/ Goto("awaiting")
        \/ UNCHANGED outside /\ Conclude(worker.output, "uncertain")
    BY <1>13 DEF Transmit
  <2> QED BY <1>2, <1>3, <2>1, <2>2, ConcludeTold DEF outside
<1>8. CASE Await
  BY <1>8, ConcludeTold DEF Await, At, outside
<1>9. CASE Record
  <2>1. Moves(IF worker.todo = {} THEN "closing" ELSE "sending", worker.todo, NoOutput, "none")
    <3>1. Proceed
      BY <1>9 DEF Record
    <3>2. WorkerTyped
      BY <1>0
    <3> QED BY <3>1, <3>2, WorkerEdits, Zenon
  <2> QED BY <1>2, <2>1, MovesFields
<1>10. CASE Fail \/ Close \/ Die \/ Exit \/ Crash
  <2>1. \/ worker' = Idle
        \/ worker' = [Idle EXCEPT !.step = "dead"]
        \/ worker' = [Idle EXCEPT !.step = "closing", !.job = worker.job]
    BY <1>10 DEF Fail, Close, Die, Exit, Crash
  <2>2. Idle.step # "recording"
    BY DEF Idle
  <2>3. /\ [Idle EXCEPT !.step = "dead"].step # "recording"
        /\ [Idle EXCEPT !.step = "closing", !.job = worker.job].step # "recording"
    BY DEF Idle
  <2>4. worker'.step # "recording"
    BY <2>1, <2>2, <2>3
  <2> QED BY <1>2, <2>4
<1>11. CASE \/ \E c \in Caller, k \in Key, ttl \in Ttl : Accept(c, k, ttl)
            \/ Look \/ \E o \in Output : Claim(o)
            \/ \E o \in Output, j \in JobId :
                 Respond(j, o) \/ Drop(j, o) \/ Get(j, o) \/ Fetched(j, o)
            \/ \E o \in Output, j \in JobId, status \in AppResult : Report(o, j, status)
  BY <1>1, <1>11 DEF Accept, Look, Claim, Respond, Drop, Get, Fetched, Report
<1>12. CASE Stop \/ Supervise \/ CloseServers \/ Startup \/ Tick \/ UNCHANGED vars
  BY <1>1, <1>12 DEF Stop, Supervise, CloseServers, Startup, Tick, vars
<1> QED BY <1>4, <1>5, <1>6, <1>7, <1>8, <1>9, <1>10, <1>11, <1>12, <1>13 DEF Next, Work

LEMMA ToldStep == ASSUME Told, [Next]_vars PROVE Told'
<1>1. Inv'
  BY InvStep DEF Told, Onward
<1> QED BY <1>1, StepEffects, RowsStayTold, HandTold DEF Told

LEMMA ToldAlways == Spec => []Told
<1>1. Init => Told
  BY InvInit DEF Init, Idle, Told, ToldRows, ToldHand
<1> QED BY <1>1, ToldStep, PTL DEF Spec

-----------------------------------------------------------------------------
(* Every step is a step of every delivery's promise, or none *)

LEMMA StagesAre ==
  /\ StageOf("accepted") = "waiting" /\ StageOf("ready") = "offered"
  /\ \A status \in Given : StageOf(status) = "given"
  /\ \A status \in {"failed", "expired"} : StageOf(status) = status
  /\ \A status \in Confirmed : StageOf(status) = "confirmed"
BY DEF StageOf, Given, Confirmed

\* A delivery whose device got nothing in this step.
LEMMA DeliveryKeepsPromise ==
  ASSUME Told, NEW j \in DOMAIN ledger, NEW o \in DOMAIN ledger[j].out,
         j \in DOMAIN ledger', DOMAIN ledger'[j].out = DOMAIN ledger[j].out, Goes(j, o),
         sent'[<<j, o>>] = sent[<<j, o>>], <<j, o>> \in delivered' <=> <<j, o>> \in delivered
  PROVE  [Promise(j, o)!Next]_(Promise(j, o)!vars)
<1> DEFINE old == ledger[j].out[o]
           new == ledger'[j].out[o]
           kept == \/ UNCHANGED Promise(j, o)!vars \/ Promise(j, o)!GiveUp
                   \/ Promise(j, o)!Confirm \/ Promise(j, o)!Give \/ Promise(j, o)!Offer
<1> SUFFICES kept
  BY DEF Promise!Next
<1>1. StageIs(j, o) = StageOf(old) /\ StageIs(j, o)' = StageOf(new)
  BY DEF StageIs
<1>2. /\ j \in JobId /\ o \in Output
      /\ old \in Confirmed => <<j, o>> \in delivered
      /\ old \in {"accepted", "ready"} => sent[<<j, o>>] = 0
      /\ sent[<<j, o>>] = 0 => <<j, o>> \notin delivered
  BY JobsAre, SentOnce DEF Told, ToldRows, ToldRow
<1>3. ASSUME new = old \/ (old \in Given /\ new \in Given)
      PROVE  UNCHANGED Promise(j, o)!vars
  <2>1. StageOf(new) = StageOf(old)
    BY <1>3, StagesAre
  <2> QED BY <1>1, <2>1 DEF Promise!vars
<1>4. ASSUME old \in {"accepted", "ready", "expired"} \cup Given, new \in {"failed", "expired"},
             <<j, o>> \in delivered <=> (o \in Native /\ old \in Given)
      PROVE  Promise(j, o)!GiveUp
  <2>1. StageOf(old) \in {"waiting", "offered", "given", "expired"}
        /\ (StageOf(old) = "given" <=> old \in Given) /\ StageOf(new) \in {"failed", "expired"}
    BY <1>4, StagesAre DEF Given
  <2>2. StageIs(j, o) = StageOf(old) /\ StageIs(j, o)' = StageOf(new)
    BY <1>1
  <2> QED BY <1>4, <2>1, <2>2 DEF Promise!GiveUp
<1>5. ASSUME old \in Given, new \in Confirmed, <<j, o>> \in delivered
      PROVE  Promise(j, o)!Confirm
  BY <1>1, <1>5, StagesAre DEF Promise!Confirm
<1>6. ASSUME sent[<<j, o>>] = 0, new \in Given,
             old \in IF o \in Native THEN {"ready"} ELSE {"accepted", "expired"}
      PROVE  Promise(j, o)!Give
  BY <1>1, <1>6, StagesAre DEF Promise!Give
<1>7. ASSUME sent[<<j, o>>] = 0, o \in Native, old \in {"accepted", "expired"}, new = "ready"
      PROVE  Promise(j, o)!Offer
  BY <1>1, <1>7, StagesAre DEF Promise!Offer
<1>8. CASE Fades(new, old)
  BY <1>2, <1>3, <1>4, <1>8 DEF Fades, Given
<1>9. CASE Recording(j, o) /\ old # "media_fetched_unconfirmed" /\ new = worker.state
  <2>1. /\ o \in Native => old \in {"accepted", "expired"}
        /\ old \in {"accepted", "expired"} \cup Given
    BY <1>9, HandUntouched DEF Told, Recording, SentStatus, Given
  <2>2. /\ o \in Native => new \in {"expired", "failed", "ready"} /\ sent[<<j, o>>] = 0
        /\ o \notin Native => new \in {"expired", "failed", "uncertain", "published_unconfirmed"}
        /\ new \in {"uncertain", "published_unconfirmed"} => old \in SentStatus
    BY <1>9 DEF Told, ToldHand, Recording, Job
  <2>3. o \notin Native /\ new \in {"expired", "failed"} => <<j, o>> \notin delivered
    BY <1>9 DEF Told, Inv, HandInv, Recording, SentStatus
  <2>4. CASE new \in {"expired", "failed"}
    BY <1>2, <1>4, <2>1, <2>2, <2>3, <2>4 DEF Given
  <2>5. CASE new = "ready"
    BY <1>7, <2>1, <2>2, <2>5
  <2>6. CASE new \in {"uncertain", "published_unconfirmed"}
    BY <1>3, <1>9, <2>2, <2>6 DEF SentStatus, Given
  <2> QED BY <2>2, <2>4, <2>5, <2>6
<1>10. CASE \/ o \in Native /\ old = "ready" /\ new = "claimed"
            \/ /\ o \notin Native /\ sent[<<j, o>>] = 0 /\ old \in {"accepted", "expired"}
               /\ new = "dispatching"
  BY <1>2, <1>6, <1>10 DEF Given
<1>11. CASE /\ o \in Native /\ <<j, o>> \in delivered /\ old \in Given
            /\ new \in Confirmed \cup {"failed", "expired"}
  BY <1>4, <1>5, <1>11
<1>12. CASE /\ o \notin Native /\ <<j, o>> \in delivered /\ old \in SentStatus
            /\ new = "media_fetched_unconfirmed"
  BY <1>3, <1>5, <1>12 DEF SentStatus, Given, Confirmed
<1> QED BY <1>8, <1>9, <1>10, <1>11, <1>12 DEF Goes

\* Whatever a step does to the ledger and outside is a step of every delivery, or none.
LEMMA StepKeepsPromise ==
  ASSUME Told, Effects, NEW j \in JobId, NEW o \in Output
  PROVE  [Promise(j, o)!Next]_(Promise(j, o)!vars)
<1>1. j \in Nat /\ issued \in Nat /\ issued' \in Nat /\ issued' >= issued
  BY ConstantsAssumption DEF JobId, Effects, Told, Inv, SendInv, Typed
<1>2. j \in DOMAIN ledger => j <= issued
  BY JobsAre DEF Told
<1>3. \/ /\ sent'[<<j, o>>] = sent[<<j, o>>]
         /\ <<j, o>> \in delivered' <=> <<j, o>> \in delivered
      \/ /\ j \in DOMAIN ledger /\ o \in DOMAIN ledger[j].out /\ ledger' = ledger
         /\ issued' = issued /\ ledger[j].out[o] \in Given
         /\ sent[<<j, o>>] = 0 /\ sent'[<<j, o>>] = 1
         /\ o \in Native => <<j, o>> \in delivered'
  BY DEF Effects
<1>4. CASE /\ j \in DOMAIN ledger /\ o \in DOMAIN ledger[j].out /\ ledger' = ledger
           /\ ledger[j].out[o] \in Given
           /\ sent[<<j, o>>] = 0 /\ sent'[<<j, o>>] = 1
           /\ o \in Native => <<j, o>> \in delivered'
  <2>1. StageIs(j, o) = "given" /\ StageIs(j, o)' = "given"
    BY <1>4, StagesAre DEF StageIs
  <2>2. (<<j, o>> \in delivered)' \in IF o \in Native THEN {TRUE} ELSE BOOLEAN
    <3>1. (<<j, o>> \in delivered)' \in BOOLEAN
      OBVIOUS
    <3>2. CASE o \in Native
      <4>1. (<<j, o>> \in delivered)' = TRUE
        BY <1>4, <3>2
      <4> QED BY <3>2, <4>1
    <3>3. CASE o \notin Native
      BY <3>1, <3>3
    <3> QED BY <3>2, <3>3
  <2>3. Promise(j, o)!Send
    BY <1>4, <2>1, <2>2 DEF Promise!Send
  <2> QED BY <2>3 DEF Promise!Next
<1>5. CASE /\ sent'[<<j, o>>] = sent[<<j, o>>]
           /\ <<j, o>> \in delivered' <=> <<j, o>> \in delivered
  <2>1. ASSUME j \notin DOMAIN ledger, j \in DOMAIN ledger'
        PROVE  [Promise(j, o)!Next]_(Promise(j, o)!vars)
    <3>1. /\ ~(j <= issued)
          /\ \A p \in DOMAIN ledger'[j].out : ledger'[j].out[p] = "accepted"
      BY <1>1, <2>1 DEF Effects
    <3>2. StageIs(j, o) = "unasked"
      BY <2>1, <3>1 DEF StageIs
    <3>3. CASE o \in DOMAIN ledger'[j].out
      <4>1. StageIs(j, o)' = "waiting"
        BY <2>1, <3>1, <3>3, StagesAre DEF StageIs
      <4>2. Promise(j, o)!Ask
        BY <1>5, <3>2, <4>1 DEF Promise!Ask
      <4> QED BY <4>2 DEF Promise!Next
    <3>4. CASE o \notin DOMAIN ledger'[j].out
      <4>1. StageIs(j, o)' = "unasked"
        BY <2>1, <3>4 DEF StageIs
      <4> QED BY <1>5, <3>2, <4>1 DEF Promise!vars
    <3> QED BY <3>3, <3>4
  <2>2. ASSUME j \notin DOMAIN ledger', j <= issued'
        PROVE  [Promise(j, o)!Next]_(Promise(j, o)!vars)
    <3>1. StageIs(j, o)' = "forgotten"
      BY <2>2 DEF StageIs
    <3>2. Promise(j, o)!Forget
      BY <1>5, <3>1 DEF Promise!Forget
    <3> QED BY <3>2 DEF Promise!Next
  <2>3. ASSUME j \notin DOMAIN ledger', ~(j <= issued')
        PROVE  [Promise(j, o)!Next]_(Promise(j, o)!vars)
    <3>1. ~(j <= issued) /\ j \notin DOMAIN ledger
      BY <1>1, <1>2, <2>3
    <3>2. StageIs(j, o) = "unasked" /\ StageIs(j, o)' = "unasked"
      BY <2>3, <3>1 DEF StageIs
    <3> QED BY <1>5, <3>2 DEF Promise!vars
  <2>4. ASSUME j \in DOMAIN ledger, j \in DOMAIN ledger'
        PROVE  [Promise(j, o)!Next]_(Promise(j, o)!vars)
    <3>1. /\ DOMAIN ledger'[j].out = DOMAIN ledger[j].out
          /\ \A p \in DOMAIN ledger[j].out : Goes(j, p)
      BY <2>4 DEF Effects
    <3>2. CASE o \in DOMAIN ledger[j].out
      BY <1>5, <2>4, <3>1, <3>2, DeliveryKeepsPromise
    <3>3. CASE o \notin DOMAIN ledger[j].out
      <4>1. StageIs(j, o) = "unasked" /\ StageIs(j, o)' = "unasked"
        BY <2>4, <3>1, <3>3 DEF StageIs
      <4> QED BY <1>5, <4>1 DEF Promise!vars
    <3> QED BY <3>2, <3>3
  <2> QED BY <2>1, <2>2, <2>3, <2>4
<1> QED BY <1>3, <1>4, <1>5

\* Every delivery of every job keeps the promise of OneShot, whatever callers, outputs,
\* crashes and restarts there are: the ledger says that a clip or its notification may
\* have left before it does, calls confirmed only what the device has, gives a
\* notification up only when the device has nothing, and what it called given,
\* confirmed or failed never waits or is on offer again (service.py: cleanup, deliver,
\* claim, result, fetched and recover).
THEOREM PromiseKept == Spec => KeepsPromise
<1>1. ASSUME Init, NEW j \in JobId, NEW o \in Output PROVE Promise(j, o)!Init
  <2>1. /\ DOMAIN ledger = {} /\ issued = 0 /\ delivered = {} /\ sent = [d \in Delivery |-> 0]
        /\ j \in 1 .. MaxJobs /\ <<j, o>> \in Delivery /\ MaxJobs \in Nat
    BY <1>1, ConstantsAssumption DEF Init, Delivery, JobId
  <2>2. StageIs(j, o) = "unasked"
    BY <2>1 DEF StageIs
  <2> QED BY <2>1, <2>2 DEF Promise!Init
<1>2. Told /\ [Next]_vars =>
        [\A j \in JobId, o \in Output : [Promise(j, o)!Next]_(Promise(j, o)!vars)]_vars
  BY StepEffects, StepKeepsPromise
<1>3. Init => \A j \in JobId, o \in Output : Promise(j, o)!Init
  BY <1>1
<1> QED BY <1>2, <1>3, ToldAlways, PTL DEF Spec, KeepsPromise
===============================================================================
