-------------------------- MODULE AnnouncerRowProofs --------------------------
(***************************************************************************)
(* What the statements of the announcement service do to one row of the    *)
(* ledger: a job with its deliveries.                                      *)
(***************************************************************************)
EXTENDS AnnouncerProofs

-----------------------------------------------------------------------------
(* Relations between the row after a step and the row before it *)

\* What a device, an app or a failure has settled.
SettledStatus == {"media_fetched_unconfirmed", "completed_unconfirmed", "dismissed",
                  "interrupted", "failed"}
\* A notification may have left.
SentStatus == {"dispatching", "uncertain", "published_unconfirmed",
               "media_fetched_unconfirmed"}

\* The text is there while a delivery may need it, and all deliveries wait only
\* while the job waits or is being delivered.
Sound(row, t) ==
  /\ row.expires = row.created + row.ttl
  /\ row.expires > t /\ States(row) \cap {"ready", "accepted"} # {} => row.text
  /\ States(row) = {"accepted"} => row.status \in {"accepted", "synthesizing"}

\* A job that is not in hand.
Calm(row, t) ==
  /\ "dispatching" \notin States(row)
  /\ row.status = "accepted" <=> States(row) = {"accepted"}
  /\ row.status = "synthesizing" => "accepted" \in States(row) \/ row.expires <= t

\* A delivery that waits, or that a sweep has ended.
Untouched(row, o, t) ==
  row.out[o] = "accepted" \/ (row.out[o] = "expired" /\ row.expires <= t)

SameJob(new, old) ==
  /\ new.caller = old.caller /\ new.key = old.key /\ new.ttl = old.ttl
  /\ new.created = old.created /\ new.expires = old.expires
  /\ DOMAIN new.out = DOMAIN old.out

\* How the deliveries of a job change without the worker sending any of them.
Keeps(new, old) ==
  \A o \in DOMAIN old.out :
    /\ old.out[o] \in SettledStatus => new.out[o] = old.out[o]
    /\ new.out[o] \in LaneStatus => old.out[o] \in LaneStatus
    /\ o \notin Native /\ old.out[o] \in SentStatus => new.out[o] \in SentStatus
    /\ new.out[o] \in {"accepted", "ready", "dispatching"} => old.out[o] = new.out[o]

Drifts(new, old, t) ==
  /\ new \in Row /\ SameJob(new, old) /\ Keeps(new, old)
  /\ new.status = "accepted" => old.status = "accepted"
  /\ Sound(old, t) => Sound(new, t)

\* The same, and a job that is not in hand stays calm.
Rests(new, old, t) == Drifts(new, old, t) /\ (Calm(old, t) => Calm(new, t))

\* What waited waits, unless its time has come.
Leaves(new, old, t) ==
  \A o \in DOMAIN old.out : Untouched(old, o, t) => Untouched(new, o, t)

LEMMA RestsItself == \A row, t : row \in Row => Rests(row, row, t) /\ Leaves(row, row, t)
BY DEF Rests, Drifts, SameJob, Keeps, Leaves

LEMMA DriftsOn ==
  ASSUME NEW a, NEW b, NEW c, NEW t
  PROVE  /\ Drifts(a, b, t) /\ Drifts(b, c, t) => Drifts(a, c, t)
         /\ Drifts(a, b, t) /\ Leaves(a, b, t) /\ Drifts(b, c, t) /\ Leaves(b, c, t)
              => Leaves(a, c, t)
<1>1. Keeps(a, b) /\ Keeps(b, c) /\ DOMAIN b.out = DOMAIN c.out => Keeps(a, c)
  BY DEF Keeps
<1>2. Drifts(a, b, t) /\ Drifts(b, c, t) => Drifts(a, c, t)
  BY <1>1 DEF Drifts, SameJob
<1>3. Leaves(a, b, t) /\ Leaves(b, c, t) /\ DOMAIN b.out = DOMAIN c.out => Leaves(a, c, t)
  BY DEF Leaves
<1> QED BY <1>2, <1>3 DEF Drifts, SameJob

LEMMA RestsOn ==
  ASSUME NEW a, NEW b, NEW c, NEW t, Rests(a, b, t), Rests(b, c, t)
  PROVE  /\ Rests(a, c, t)
         /\ Leaves(a, b, t) /\ Leaves(b, c, t) => Leaves(a, c, t)
BY DriftsOn DEF Rests

-----------------------------------------------------------------------------
(* The statements, one by one *)

LEMMA StatesAre ==
  \A row, s : s \in States(row) <=> \E o \in DOMAIN row.out : row.out[o] = s
BY DEF States, Range

LEMMA OnlyAccepted ==
  ASSUME NEW row
  PROVE  States(row) = {"accepted"} <=>
           DOMAIN row.out # {} /\ \A o \in DOMAIN row.out : row.out[o] = "accepted"
<1>1. States(row) = {row.out[o] : o \in DOMAIN row.out}
  BY DEF States, Range
<1> QED BY <1>1

\* The status that stands for a job is one of its deliveries', or says that one of
\* them waits or is being dispatched.
LEMMA AggregateIsOne ==
  ASSUME NEW S \in SUBSET Status, S # {}
  PROVE  \/ Aggregate(S) \in S \ {"accepted", "dispatching"}
         \/ Aggregate(S) = "synthesizing" /\ S \cap {"accepted", "dispatching"} # {}
<1> DEFINE I == {i \in DOMAIN StatusPriority : StatusPriority[i] \in S}
<1>1. DOMAIN StatusPriority = 1 .. 12
  BY DEF StatusPriority
<1>2. I # {} /\ I \subseteq Nat
  BY <1>1 DEF Status, Range
<1>3. PICK k \in I : \A y \in I : ~(<<y, k>> \in OpToRel(<, Nat))
  <2>1. IsWellFoundedOn(OpToRel(<, Nat), Nat)
    BY NatLessThanWellFounded
  <2> HIDE DEF I
  <2> QED BY <1>2, <2>1, WFMin
<1>4. \A y \in I : ~(y < k)
  BY <1>2, <1>3 DEF OpToRel
<1>5. \E x \in I : \A y \in I : x <= y
  BY <1>2, <1>4
<1>6. Min(I) \in I
  BY <1>5 DEF Min
<1> HIDE DEF I
<1> DEFINE worst == StatusPriority[Min(I)]
<1>7. worst \in S
  BY <1>6 DEF I
<1>8. Aggregate(S) = IF worst \in {"dispatching", "accepted"} THEN "synthesizing" ELSE worst
  BY DEF Aggregate, I
<1> HIDE DEF worst
<1> QED BY <1>7, <1>8

LEMMA RowFields ==
  ASSUME NEW row \in Row
  PROVE  /\ row.out \in [DOMAIN row.out -> Status] /\ row.text \in BOOLEAN
         /\ row.status \in Status \cup {"synthesizing"}
         /\ row.created \in Nat /\ row.expires \in Nat /\ row.ttl \in Ttl
         /\ DOMAIN row.out \subseteq Output
<1>1. row.out \in StatusMap /\ row.text \in BOOLEAN
  BY RowIs
<1>2. row.out \in [DOMAIN row.out -> Status] /\ DOMAIN row.out \subseteq Output
  BY <1>1, StatusMaps
<1>3. /\ row.created \in Nat /\ row.expires \in Nat /\ row.ttl \in Ttl
      /\ row.status \in Status \cup {"synthesizing"}
  BY RowIs
<1> QED BY <1>1, <1>2, <1>3

LEMMA RefreshDrifts ==
  ASSUME NEW row \in Row, NEW t, DOMAIN row.out # {}
  PROVE  LET r == Refresh(row) IN
         /\ Drifts(r, row, t) /\ Leaves(r, row, t)
         /\ r.out = row.out
         /\ r.status = "synthesizing" => States(row) \cap {"accepted", "dispatching"} # {}
         /\ r.status # "accepted"
<1> DEFINE r == Refresh(row)
           a == Aggregate(States(row))
           b == row.text /\ States(row) \cap {"ready", "accepted"} # {}
<1>1. States(row) \in SUBSET Status /\ States(row) # {}
  <2>1. row.out \in [DOMAIN row.out -> Status]
    BY RowFields
  <2>2. States(row) = {row.out[o] : o \in DOMAIN row.out}
    BY DEF States, Range
  <2> QED BY <2>1, <2>2
<1>2. \/ a \in States(row) \ {"accepted", "dispatching"}
      \/ a = "synthesizing" /\ States(row) \cap {"accepted", "dispatching"} # {}
  BY <1>1, AggregateIsOne
<1>3. a \in (Status \cup {"synthesizing"}) \ {"accepted"} /\ b \in BOOLEAN
  BY <1>1, <1>2, RowFields
<1>4. r = [row EXCEPT !.status = a, !.text = b]
  BY DEF Refresh
<1> HIDE DEF a, r
<1>5. b = (row.text /\ States(row) \cap {"ready", "accepted"} # {})
  OBVIOUS
<1> HIDE DEF b
<1>6. /\ r \in Row /\ SameJob(r, row)
      /\ r.out = row.out /\ r.status = a /\ r.text = b
  <2>1. r \in Row
    BY <1>3, <1>4, RowIs
  <2>2. r.out = row.out /\ r.status = a
    BY <1>4, RowIs
  <2>3. r.text = b
    BY <1>4, RowIs
  <2>4. /\ r.caller = row.caller /\ r.key = row.key /\ r.ttl = row.ttl
        /\ r.created = row.created /\ r.expires = row.expires
    BY <1>4, RowIs
  <2> QED BY <2>1, <2>2, <2>3, <2>4 DEF SameJob
<1>7. States(r) = States(row)
  BY <1>6 DEF States
<1>8. Sound(row, t) => Sound(r, t)
  BY <1>2, <1>5, <1>6, <1>7 DEF Sound, SameJob
<1>9. Keeps(r, row) /\ Leaves(r, row, t)
  BY <1>6 DEF Keeps, Leaves, Untouched, SameJob
<1>10. "synthesizing" \notin Status
  BY StatusNames
<1> QED BY <1>1, <1>2, <1>3, <1>6, <1>8, <1>9, <1>10 DEF Drifts, r

\* Other statuses for the deliveries, and nothing else.
LEMMA OutEdited ==
  ASSUME NEW row \in Row, NEW f, f \in [DOMAIN row.out -> Status],
         NEW r, r = [row EXCEPT !.out = f]
  PROVE  /\ r \in Row /\ SameJob(r, row) /\ r.out = f
         /\ r.status = row.status /\ r.text = row.text /\ r.gets = row.gets
<1>1. row.out \in StatusMap
  BY RowIs
<1>2. f \in StatusMap /\ DOMAIN f = DOMAIN row.out
  BY <1>1, StatusMaps
<1>3. r \in Row
  BY <1>2, RowIs
<1>4. r.out = f /\ r.status = row.status /\ r.text = row.text /\ r.gets = row.gets
  BY RowIs
<1>5. /\ r.caller = row.caller /\ r.key = row.key /\ r.ttl = row.ttl
      /\ r.created = row.created /\ r.expires = row.expires
  BY RowIs
<1> QED BY <1>2, <1>3, <1>4, <1>5 DEF SameJob

\* Deliveries that none of the others are to follow move to another status.
LEMMA TurnDrifts ==
  ASSUME NEW row \in Row, NEW t \in Nat,
         NEW from \in Status \ SettledStatus,
         NEW to \in Status \ {"accepted", "ready", "dispatching"},
         to \in LaneStatus => from \in LaneStatus, from \in SentStatus => to \in SentStatus
  PROVE  LET r == Turn(row, from, to) IN
         /\ Drifts(r, row, t)
         /\ r.status = row.status /\ r.text = row.text
         /\ \A o \in DOMAIN row.out : r.out[o] = IF row.out[o] = from THEN to ELSE row.out[o]
         /\ \/ from \notin {"accepted", "expired"}
            \/ to = "expired" /\ row.expires <= t
            => Leaves(r, row, t)
<1> DEFINE r == Turn(row, from, to)
           f == [o \in DOMAIN row.out |-> IF row.out[o] = from THEN to ELSE row.out[o]]
<1>1. f \in [DOMAIN row.out -> Status]
  BY RowFields
<1>2. r = [row EXCEPT !.out = f]
  BY DEF Turn
<1>3. \A o \in DOMAIN row.out : f[o] = IF row.out[o] = from THEN to ELSE row.out[o]
  OBVIOUS
<1> HIDE DEF f, r
<1>4. /\ r \in Row /\ SameJob(r, row)
      /\ r.out = f /\ r.status = row.status /\ r.text = row.text
  BY <1>1, <1>2, OutEdited
<1>5. DOMAIN f = DOMAIN row.out
  BY <1>1
<1>6. Keeps(r, row)
  BY <1>3, <1>4, <1>5 DEF Keeps
<1>7. Sound(row, t) => Sound(r, t)
  <2>1. \A s \in {"ready", "accepted"} : s \in States(r) => s \in States(row)
    BY <1>3, <1>4, <1>5, StatesAre
  <2>2. States(r) = {"accepted"} => States(row) = {"accepted"}
    BY <1>3, <1>4, <1>5, OnlyAccepted
  <2> QED BY <1>4, <2>1, <2>2 DEF Sound, SameJob
<1>8. (from \notin {"accepted", "expired"} \/ (to = "expired" /\ row.expires <= t))
      => Leaves(r, row, t)
  BY <1>3, <1>4, <1>5 DEF Leaves, Untouched, SameJob
<1> QED BY <1>3, <1>4, <1>6, <1>7, <1>8 DEF Drifts, r

\* One delivery gets another status.
LEMMA SetFields ==
  ASSUME NEW row \in Row, NEW o \in DOMAIN row.out, NEW status \in Status
  PROVE  LET r == Set(row, o, status) IN
         /\ r \in Row /\ SameJob(r, row) /\ r.status = row.status /\ r.text = row.text
         /\ r.gets = row.gets
         /\ \A p \in DOMAIN row.out : r.out[p] = IF p = o THEN status ELSE row.out[p]
<1> DEFINE r == Set(row, o, status)
           f == [row.out EXCEPT ![o] = status]
<1>1. f \in [DOMAIN row.out -> Status]
      /\ \A p \in DOMAIN row.out : f[p] = IF p = o THEN status ELSE row.out[p]
  BY RowFields
<1>2. r = [row EXCEPT !.out = f]
  BY DEF Set
<1> HIDE DEF f, r
<1>3. r \in Row /\ SameJob(r, row) /\ r.out = f /\ r.status = row.status
      /\ r.text = row.text /\ r.gets = row.gets
  BY <1>1, <1>2, OutEdited
<1> QED BY <1>1, <1>3 DEF r

LEMMA SetDrifts ==
  ASSUME NEW row \in Row, NEW t, NEW o \in DOMAIN row.out,
         NEW status \in Status \ {"accepted", "ready", "dispatching"},
         row.out[o] \in SettledStatus => row.out[o] = status,
         status \in LaneStatus => row.out[o] \in LaneStatus,
         o \notin Native /\ row.out[o] \in SentStatus => status \in SentStatus
  PROVE  /\ Drifts(Set(row, o, status), row, t)
         /\ row.out[o] \notin {"accepted", "expired"} => Leaves(Set(row, o, status), row, t)
<1> DEFINE r == Set(row, o, status)
<1>1. /\ r \in Row /\ SameJob(r, row) /\ r.status = row.status /\ r.text = row.text
      /\ \A p \in DOMAIN row.out : r.out[p] = IF p = o THEN status ELSE row.out[p]
  BY SetFields
<1> HIDE DEF r
<1>2. DOMAIN r.out = DOMAIN row.out /\ r.expires = row.expires
  BY <1>1 DEF SameJob
<1>3. Keeps(r, row)
  BY <1>1 DEF Keeps
<1>4. Sound(row, t) => Sound(r, t)
  <2>1. \A s \in {"ready", "accepted"} : s \in States(r) => s \in States(row)
    BY <1>1, <1>2, StatesAre
  <2>2. States(r) # {"accepted"}
    BY <1>1, <1>2, OnlyAccepted
  <2> QED BY <1>1, <2>1, <2>2 DEF Sound, SameJob
<1>5. row.out[o] \notin {"accepted", "expired"} => Leaves(r, row, t)
  BY <1>1, <1>2 DEF Leaves, Untouched
<1> QED BY <1>1, <1>3, <1>4, <1>5 DEF Drifts, r

\* A calm job stays calm when deliveries that do not wait move on.
LEMMA TurnCalm ==
  ASSUME NEW row \in Row, NEW t \in Nat,
         NEW from \in Status \ {"accepted"},
         NEW to \in Status \ {"accepted", "dispatching"},
         NEW r, DOMAIN r.out = DOMAIN row.out, r.status = row.status,
         r.expires = row.expires,
         \A o \in DOMAIN row.out : r.out[o] = IF row.out[o] = from THEN to ELSE row.out[o]
  PROVE  Calm(row, t) => Calm(r, t)
<1>1. "dispatching" \in States(r) => "dispatching" \in States(row)
  BY StatesAre
<1>2. "accepted" \in States(row) => "accepted" \in States(r)
  BY StatesAre
<1>3. States(r) = {"accepted"} <=> States(row) = {"accepted"}
  BY OnlyAccepted
<1> QED BY <1>1, <1>2, <1>3 DEF Calm

\* A refresh leaves a job calm, unless it waits or is being dispatched.
LEMMA RefreshCalm ==
  ASSUME NEW row \in Row, NEW t, DOMAIN row.out # {},
         "dispatching" \notin States(row), States(row) # {"accepted"}
  PROVE  Calm(Refresh(row), t)
<1> DEFINE r == Refresh(row)
<1>1. /\ r.out = row.out /\ r.status # "accepted"
      /\ r.status = "synthesizing" => States(row) \cap {"accepted", "dispatching"} # {}
  BY RefreshDrifts
<1>2. States(r) = States(row)
  BY <1>1 DEF States
<1> HIDE DEF r
<1> QED BY <1>1, <1>2 DEF Calm, r

\* The last step of a sweep.
LEMMA ExpireRests ==
  ASSUME NEW row \in Row, NEW t \in Nat, "accepted" \notin States(row), row.expires <= t
  PROVE  LET r == [row EXCEPT !.status = "expired", !.text = FALSE] IN
         /\ Drifts(r, row, t) /\ Leaves(r, row, t) /\ r.out = row.out
         /\ r.status = "expired"
<1> DEFINE r == [row EXCEPT !.status = "expired", !.text = FALSE]
<1>1. r \in Row
  BY RowIs, StatusNames
<1>2. r.out = row.out /\ r.status = "expired"
  BY RowIs
<1>3. /\ r.caller = row.caller /\ r.key = row.key /\ r.ttl = row.ttl
      /\ r.created = row.created /\ r.expires = row.expires
  BY RowIs
<1> HIDE DEF r
<1>4. SameJob(r, row) /\ Keeps(r, row) /\ Leaves(r, row, t)
  BY <1>2, <1>3 DEF SameJob, Keeps, Leaves, Untouched
<1>5. States(r) # {"accepted"} /\ States(r) = States(row)
  BY <1>2 DEF States
<1>6. row.created \in Nat /\ row.expires \in Nat
  BY RowFields
<1>7. Sound(row, t) => Sound(r, t)
  <2>1. ~(r.expires > t)
    BY <1>3, <1>6
  <2> QED BY <1>3, <1>5, <2>1 DEF Sound
<1> QED BY <1>1, <1>2, <1>4, <1>7 DEF Drifts, r

\* Nothing changes where no delivery is in the status that is to change.
LEMMA TurnNothing ==
  ASSUME NEW row \in Row, NEW from, NEW to, \A o \in DOMAIN row.out : row.out[o] # from
  PROVE  Turn(row, from, to) = row
<1> DEFINE f == [o \in DOMAIN row.out |-> IF row.out[o] = from THEN to ELSE row.out[o]]
<1>1. row.out \in StatusMap
  BY RowIs
<1>2. f = row.out
  BY <1>1, StatusMaps
<1>3. Turn(row, from, to) = [row EXCEPT !.out = f]
  BY DEF Turn
<1> HIDE DEF f
<1>4. [row EXCEPT !.out = row.out] = row
  BY RowIs
<1> QED BY <1>2, <1>3, <1>4

LEMMA TurnRests ==
  ASSUME NEW row \in Row, NEW t \in Nat,
         NEW from \in Status \ (SettledStatus \cup {"accepted", "expired"}),
         NEW to \in Status \ {"accepted", "ready", "dispatching"},
         to \in LaneStatus => from \in LaneStatus, from \in SentStatus => to \in SentStatus
  PROVE  LET r == Turn(row, from, to) IN
         /\ Rests(r, row, t) /\ Leaves(r, row, t)
         /\ States(r) = {"accepted"} => r = row
<1> DEFINE r == Turn(row, from, to)
<1>1. from \in Status \ SettledStatus /\ from \notin {"accepted", "expired"}
  OBVIOUS
<1>2. /\ Drifts(r, row, t) /\ r.status = row.status /\ Leaves(r, row, t)
      /\ \A o \in DOMAIN row.out : r.out[o] = IF row.out[o] = from THEN to ELSE row.out[o]
  BY <1>1, TurnDrifts
<1>3. (\A o \in DOMAIN row.out : row.out[o] # from) => r = row
  BY TurnNothing
<1> HIDE DEF r
<1>4. DOMAIN r.out = DOMAIN row.out /\ r.expires = row.expires
  BY <1>2 DEF Drifts, SameJob
<1>5. Calm(row, t) => Calm(r, t)
  BY <1>2, <1>4, TurnCalm
<1>6. States(r) = {"accepted"} => \A o \in DOMAIN row.out : row.out[o] # from
  BY <1>2, <1>4, OnlyAccepted
<1> QED BY <1>2, <1>3, <1>5, <1>6 DEF Rests, r

\* A sweep settles what it ends, and afterwards no job waits past its deadline.
LEMMA SweepRests ==
  ASSUME NEW row \in Row, NEW t \in Nat, DOMAIN row.out # {}
  PROVE  /\ Rests(Sweep(row, t), row, t) /\ Leaves(Sweep(row, t), row, t)
         /\ Sweep(row, t).status = "accepted" => ~(row.expires <= t)
<1> DEFINE due == row.expires <= t
           lost == row.expires + LaneGuard <= t
           polled == IF due THEN Turn(row, "ready", "expired") ELSE row
           seen == IF lost THEN Turn(polled, "claimed", "uncertain") ELSE polled
           fresh == IF seen = row THEN row ELSE Refresh(seen)
           swept == IF due THEN Turn(fresh, "accepted", "expired") ELSE fresh
           last == IF due /\ swept.status = "accepted"
                   THEN [swept EXCEPT !.status = "expired", !.text = FALSE] ELSE swept
<1>1. Sweep(row, t) = last
  BY DEF Sweep
<1>2. /\ Rests(polled, row, t) /\ Leaves(polled, row, t)
      /\ States(polled) = {"accepted"} => polled = row
  BY TurnRests, RestsItself, StatusNames DEF SettledStatus, LaneStatus, SentStatus
<1>3. polled \in Row /\ polled.expires = row.expires /\ DOMAIN polled.out = DOMAIN row.out
  BY <1>2 DEF Rests, Drifts, SameJob
<1> HIDE DEF polled
<1>4. /\ Rests(seen, polled, t) /\ Leaves(seen, polled, t)
      /\ States(seen) = {"accepted"} => seen = polled
  BY <1>3, TurnRests, RestsItself, StatusNames DEF SettledStatus, LaneStatus, SentStatus
<1>5. Rests(seen, row, t) /\ Leaves(seen, row, t)
  BY <1>2, <1>4, RestsOn
<1>6. States(seen) = {"accepted"} => seen = row
  BY <1>2, <1>4
<1>7. seen \in Row /\ seen.expires = row.expires /\ DOMAIN seen.out = DOMAIN row.out
  BY <1>5 DEF Rests, Drifts, SameJob
<1> HIDE DEF seen
<1>8. Rests(fresh, row, t) /\ Leaves(fresh, row, t)
  <2>1. CASE seen = row
    BY <2>1, RestsItself
  <2>2. CASE seen # row
    <3>1. Drifts(Refresh(seen), seen, t) /\ Leaves(Refresh(seen), seen, t)
      BY <1>7, RefreshDrifts
    <3>2. Calm(seen, t) => Calm(Refresh(seen), t)
      BY <1>6, <1>7, <2>2, RefreshCalm DEF Calm
    <3>3. Rests(Refresh(seen), seen, t)
      BY <3>1, <3>2 DEF Rests
    <3> QED BY <1>5, <2>2, <3>1, <3>3, RestsOn
  <2> QED BY <2>1, <2>2
<1>9. fresh \in Row /\ fresh.expires = row.expires /\ DOMAIN fresh.out = DOMAIN row.out
  BY <1>8 DEF Rests, Drifts, SameJob
<1> HIDE DEF fresh, last
<1>10. CASE ~due
  BY <1>1, <1>8, <1>10 DEF last
<1>11. CASE due
  <2>1. swept = Turn(fresh, "accepted", "expired")
    BY <1>11
  <2> HIDE DEF swept
  <2>2. /\ Drifts(swept, fresh, t) /\ Leaves(swept, fresh, t) /\ swept.status = fresh.status
        /\ \A o \in DOMAIN fresh.out :
             swept.out[o] = IF fresh.out[o] = "accepted" THEN "expired" ELSE fresh.out[o]
    <3>1. /\ "accepted" \in Status \ SettledStatus
          /\ "expired" \in Status \ {"accepted", "ready", "dispatching"}
          /\ "expired" \notin LaneStatus /\ "accepted" \notin SentStatus
      BY StatusNames DEF SettledStatus, LaneStatus, SentStatus
    <3>2. fresh.expires <= t
      BY <1>9, <1>11
    <3> QED BY <1>9, <2>1, <3>1, <3>2, TurnDrifts
  <2>3. swept \in Row /\ DOMAIN swept.out = DOMAIN fresh.out /\ swept.expires = row.expires
    BY <1>9, <2>2 DEF Drifts, SameJob
  <2>4. "accepted" \notin States(swept) /\ States(swept) # {"accepted"}
    BY <2>2, <2>3, StatesAre
  <2>5. "dispatching" \in States(swept) => "dispatching" \in States(fresh)
    BY <2>2, <2>3, StatesAre
  <2>6. CASE swept.status = "accepted"
    <3>1. last = [swept EXCEPT !.status = "expired", !.text = FALSE]
      BY <1>11, <2>6 DEF last
    <3>2. /\ Drifts(last, swept, t) /\ Leaves(last, swept, t) /\ last.out = swept.out
          /\ last.status = "expired"
      BY <1>11, <2>3, <2>4, <3>1, ExpireRests
    <3>3. Drifts(last, fresh, t) /\ Leaves(last, fresh, t)
      BY <2>2, <3>2, DriftsOn
    <3>4. Calm(fresh, t) => Calm(last, t)
      BY <2>4, <2>5, <3>2 DEF Calm, States
    <3>5. Rests(last, row, t) /\ Leaves(last, row, t)
      BY <1>8, <3>3, <3>4, RestsOn DEF Rests
    <3> QED BY <1>1, <3>2, <3>5
  <2>7. CASE swept.status # "accepted"
    <3>1. last = swept
      BY <2>7 DEF last
    <3>2. Calm(fresh, t) => Calm(swept, t)
      BY <1>11, <2>3, <2>4, <2>5, <2>7 DEF Calm
    <3>3. Rests(swept, row, t) /\ Leaves(swept, row, t)
      BY <1>8, <2>2, <3>2, RestsOn DEF Rests
    <3> QED BY <1>1, <2>7, <3>1, <3>3
  <2> QED BY <2>6, <2>7
<1> QED BY <1>10, <1>11

\* A delivery that neither waits nor expired gets an outcome.
LEMMA MarkRests ==
  ASSUME NEW row \in Row, NEW t \in Nat, NEW o \in DOMAIN row.out,
         NEW status \in Status \ {"accepted", "ready", "dispatching"},
         row.out[o] \in SettledStatus => row.out[o] = status,
         status \in LaneStatus => row.out[o] \in LaneStatus,
         o \notin Native /\ row.out[o] \in SentStatus => status \in SentStatus
  PROVE  /\ Rests(Refresh(Set(row, o, status)), row, t)
         /\ row.out[o] \notin {"accepted", "expired"}
              => Leaves(Refresh(Set(row, o, status)), row, t)
<1> DEFINE r == Set(row, o, status)
<1>1. /\ Drifts(r, row, t)
      /\ row.out[o] \notin {"accepted", "expired"} => Leaves(r, row, t)
      /\ \A p \in DOMAIN row.out : r.out[p] = IF p = o THEN status ELSE row.out[p]
  BY SetDrifts, SetFields
<1> HIDE DEF r
<1>2. r \in Row /\ DOMAIN r.out = DOMAIN row.out /\ DOMAIN r.out # {}
  BY <1>1 DEF Drifts, SameJob
<1>3. Drifts(Refresh(r), r, t) /\ Leaves(Refresh(r), r, t)
  BY <1>2, RefreshDrifts
<1>4. Calm(row, t) => Calm(Refresh(r), t)
  <2>1. "dispatching" \in States(r) => "dispatching" \in States(row)
    BY <1>1, <1>2, StatesAre
  <2>2. States(r) # {"accepted"}
    BY <1>1, <1>2, OnlyAccepted
  <2> QED BY <1>2, <2>1, <2>2, RefreshCalm DEF Calm
<1> QED BY <1>1, <1>3, <1>4, DriftsOn DEF Rests, r

\* What waits ends, in the hands of Pick, Recover and Fail.
LEMMA EndWaiting ==
  ASSUME NEW row \in Row, NEW t \in Nat, NEW to \in {"failed", "expired"}
  PROVE  LET r == Turn(row, "accepted", to) IN
         /\ Drifts(r, row, t) /\ r.status = row.status
         /\ "accepted" \notin States(r)
         /\ "dispatching" \in States(r) => "dispatching" \in States(row)
<1> DEFINE r == Turn(row, "accepted", to)
<1>1. /\ "accepted" \in Status \ SettledStatus
      /\ to \in Status \ {"accepted", "ready", "dispatching"}
      /\ to \notin LaneStatus /\ "accepted" \notin SentStatus
  BY StatusNames DEF SettledStatus, LaneStatus, SentStatus
<1>2. /\ Drifts(r, row, t) /\ r.status = row.status
      /\ \A o \in DOMAIN row.out : r.out[o] = IF row.out[o] = "accepted" THEN to ELSE row.out[o]
  BY <1>1, TurnDrifts
<1> HIDE DEF r
<1>3. DOMAIN r.out = DOMAIN row.out
  BY <1>2 DEF Drifts, SameJob
<1>4. "accepted" \notin States(r) /\ ("dispatching" \in States(r) => "dispatching" \in States(row))
  BY <1>2, <1>3, StatesAre
<1> QED BY <1>2, <1>4 DEF r

\* What is being dispatched becomes uncertain.
LEMMA EndDispatching ==
  ASSUME NEW row \in Row, NEW t \in Nat
  PROVE  LET r == Turn(row, "dispatching", "uncertain") IN
         /\ Rests(r, row, t) /\ r.status = row.status
         /\ "dispatching" \notin States(r)
         /\ "accepted" \in States(r) <=> "accepted" \in States(row)
         /\ States(r) = {"accepted"} <=> States(row) = {"accepted"}
<1> DEFINE r == Turn(row, "dispatching", "uncertain")
<1>1. /\ "dispatching" \in Status \ (SettledStatus \cup {"accepted", "expired"})
      /\ "uncertain" \in Status \ {"accepted", "ready", "dispatching"}
      /\ "dispatching" \in LaneStatus /\ "uncertain" \in SentStatus
  BY StatusNames DEF SettledStatus, LaneStatus, SentStatus
<1>2. /\ r.status = row.status
      /\ \A o \in DOMAIN row.out :
           r.out[o] = IF row.out[o] = "dispatching" THEN "uncertain" ELSE row.out[o]
  BY <1>1, TurnDrifts
<1>3. Rests(r, row, t)
  BY <1>1, TurnRests
<1> HIDE DEF r
<1>4. DOMAIN r.out = DOMAIN row.out
  BY <1>3 DEF Rests, Drifts, SameJob
<1>5. "dispatching" \notin States(r) /\ ("accepted" \in States(r) <=> "accepted" \in States(row))
  BY <1>2, <1>4, StatesAre
<1>6. States(r) = {"accepted"} <=> States(row) = {"accepted"}
  BY <1>2, <1>4, OnlyAccepted
<1> QED BY <1>2, <1>3, <1>5, <1>6 DEF r

\* Pick gives up a job whose caller or outputs are no longer allowed.
LEMMA RefuseRests ==
  ASSUME NEW row \in Row, NEW t \in Nat, DOMAIN row.out # {}
  PROVE  Rests(Refresh(Turn(row, "accepted", "failed")), row, t)
<1> DEFINE r == Turn(row, "accepted", "failed")
<1>1. /\ Drifts(r, row, t) /\ "accepted" \notin States(r)
      /\ "dispatching" \in States(r) => "dispatching" \in States(row)
  BY EndWaiting
<1> HIDE DEF r
<1>2. r \in Row /\ DOMAIN r.out # {}
  BY <1>1 DEF Drifts, SameJob
<1>3. Drifts(Refresh(r), row, t)
  BY <1>1, <1>2, RefreshDrifts, DriftsOn
<1>4. Calm(row, t) => Calm(Refresh(r), t)
  BY <1>1, <1>2, RefreshCalm DEF Calm
<1> QED BY <1>3, <1>4 DEF Rests, r

\* After deliver failed, nothing waits or is being dispatched.
LEMMA FailDrifts ==
  ASSUME NEW row \in Row, NEW t \in Nat, NEW to \in {"failed", "expired"}
  PROVE  LET r == Turn(Turn(row, "accepted", to), "dispatching", "uncertain") IN
         /\ Drifts(r, row, t)
         /\ \A o \in DOMAIN r.out : r.out[o] \notin {"accepted", "dispatching"}
<1> DEFINE first == Turn(row, "accepted", to)
           r == Turn(first, "dispatching", "uncertain")
<1>1. Drifts(first, row, t) /\ "accepted" \notin States(first)
  BY EndWaiting
<1>2. first \in Row
  BY <1>1 DEF Drifts
<1> HIDE DEF first
<1>3. Rests(r, first, t) /\ "accepted" \notin States(r) /\ "dispatching" \notin States(r)
  BY <1>1, <1>2, EndDispatching
<1> HIDE DEF r
<1>4. Drifts(r, row, t)
  BY <1>1, <1>3, DriftsOn DEF Rests
<1>5. \A o \in DOMAIN r.out : r.out[o] \notin {"accepted", "dispatching"}
  BY <1>3, StatesAre
<1> QED BY <1>4, <1>5 DEF first, r

\* The recovery leaves every job calm.
LEMMA RecoverDrifts ==
  ASSUME NEW row, Proper(row), NEW t \in Nat
  PROVE  Drifts(Recover(row), row, t) /\ (Sound(row, t) => Calm(Recover(row), t))
<1> DEFINE known == Turn(row, "dispatching", "uncertain")
           over == Turn(known, "accepted", "failed")
<1>1. row \in Row /\ DOMAIN row.out # {}
  BY DEF Proper
<1>2. /\ Rests(known, row, t) /\ known.status = row.status /\ "dispatching" \notin States(known)
      /\ States(known) = {"accepted"} <=> States(row) = {"accepted"}
  BY <1>1, EndDispatching
<1>3. Recover(row) = IF row.status = "synthesizing" THEN Refresh(over) ELSE known
  BY DEF Recover
<1> HIDE DEF known
<1>4. known \in Row /\ DOMAIN known.out = DOMAIN row.out
  BY <1>2 DEF Rests, Drifts, SameJob
<1>5. CASE row.status = "synthesizing"
  <2>1. Drifts(over, known, t) /\ "accepted" \notin States(over)
        /\ "dispatching" \notin States(over)
    BY <1>2, <1>4, EndWaiting
  <2> HIDE DEF over
  <2>2. over \in Row /\ DOMAIN over.out # {}
    BY <1>1, <1>4, <2>1 DEF Drifts, SameJob
  <2>3. Drifts(Refresh(over), over, t) /\ Calm(Refresh(over), t)
    BY <2>1, <2>2, RefreshDrifts, RefreshCalm
  <2>4. Drifts(over, row, t)
    BY <1>2, <2>1, DriftsOn DEF Rests
  <2>5. Drifts(Refresh(over), row, t)
    BY <2>3, <2>4, DriftsOn
  <2> QED BY <1>3, <1>5, <2>3, <2>5
<1>6. CASE row.status # "synthesizing"
  <2>1. row.status = "accepted" => States(row) = {"accepted"}
    BY OnlyAccepted DEF Proper
  <2>2. Sound(row, t) => Calm(known, t)
    BY <1>2, <1>6, <2>1 DEF Sound, Calm
  <2> QED BY <1>2, <1>3, <1>6, <2>2 DEF Rests
<1> QED BY <1>5, <1>6

\* The job in hand is called synthesizing.
LEMMA StartDrifts ==
  ASSUME NEW row \in Row, NEW t \in Nat
  PROVE  LET r == [row EXCEPT !.status = "synthesizing"] IN
         Drifts(r, row, t) /\ r.out = row.out
<1> DEFINE r == [row EXCEPT !.status = "synthesizing"]
<1>1. r \in Row
  BY RowIs
<1>2. r.out = row.out /\ r.status = "synthesizing" /\ r.text = row.text
  BY RowIs
<1>3. SameJob(r, row)
  BY <1>2, RowIs DEF SameJob
<1> HIDE DEF r
<1>4. Keeps(r, row) /\ States(r) = States(row)
  BY <1>2 DEF Keeps, States
<1>5. Sound(row, t) => Sound(r, t)
  BY <1>2, <1>3, <1>4 DEF Sound, SameJob
<1> QED BY <1>1, <1>2, <1>3, <1>4, <1>5 DEF Drifts, r

\* One more fetch is counted.
LEMMA FetchRests ==
  ASSUME NEW row, Proper(row), NEW o, NEW t \in Nat, row.gets[o] < MediaLimit
  PROVE  LET r == [row EXCEPT !.gets[o] = @ + 1] IN
         Rests(r, row, t) /\ Leaves(r, row, t)
<1> DEFINE g == [row.gets EXCEPT ![o] = @ + 1]
           r == [row EXCEPT !.gets = g]
<1>1. row \in Row
  BY DEF Proper
<1>2. r \in Row
  BY FetchFollows DEF Follows, Proper
<1> HIDE DEF g
<1>3. r.out = row.out /\ r.status = row.status /\ r.text = row.text
  BY <1>1, RowIs
<1>4. SameJob(r, row)
  BY <1>1, <1>3, RowIs DEF SameJob
<1> HIDE DEF r
<1>5. Keeps(r, row) /\ States(r) = States(row)
  BY <1>3 DEF Keeps, States
<1>6. (Sound(row, t) => Sound(r, t)) /\ (Calm(row, t) => Calm(r, t)) /\ Leaves(r, row, t)
  BY <1>3, <1>4, <1>5 DEF Sound, Calm, SameJob, Leaves, Untouched
<1> QED BY <1>2, <1>4, <1>5, <1>6 DEF Rests, Drifts, r, g

-----------------------------------------------------------------------------
(* What becomes of deliveries that nobody gives away or reports on *)

\* What waits or is on offer ends; what may have left becomes uncertain.
Fades(new, old) ==
  \/ new = old
  \/ old \in {"accepted", "ready"} /\ new \in {"expired", "failed"}
  \/ old \in {"claimed", "dispatching"} /\ new = "uncertain"

Winds(new, old) ==
  /\ new \in Row /\ DOMAIN new.out = DOMAIN old.out
  /\ \A o \in DOMAIN old.out : Fades(new.out[o], old.out[o])

LEMMA WindsItself == \A row \in Row : Winds(row, row)
BY DEF Winds, Fades

LEMMA WindsOn ==
  ASSUME NEW a, NEW b, NEW c, Winds(b, a), Winds(c, b)
  PROVE  Winds(c, a)
BY DEF Winds, Fades

LEMMA TurnWinds ==
  ASSUME NEW row \in Row, NEW from, NEW to \in Status,
         \/ from \in {"accepted", "ready"} /\ to \in {"expired", "failed"}
         \/ from \in {"claimed", "dispatching"} /\ to = "uncertain"
  PROVE  Winds(Turn(row, from, to), row)
<1> DEFINE r == Turn(row, from, to)
           f == [o \in DOMAIN row.out |-> IF row.out[o] = from THEN to ELSE row.out[o]]
<1>1. f \in [DOMAIN row.out -> Status]
  BY RowFields
<1>2. r = [row EXCEPT !.out = f]
  BY DEF Turn
<1>3. DOMAIN f = DOMAIN row.out
      /\ \A o \in DOMAIN row.out : f[o] = IF row.out[o] = from THEN to ELSE row.out[o]
  OBVIOUS
<1> HIDE DEF f, r
<1>4. r \in Row /\ r.out = f
  BY <1>1, <1>2, OutEdited
<1>5. Winds(r, row)
  BY <1>3, <1>4 DEF Winds, Fades
<1> QED BY <1>5 DEF r

LEMMA RefreshWinds ==
  ASSUME NEW row \in Row, DOMAIN row.out # {}
  PROVE  Winds(Refresh(row), row)
BY RefreshDrifts DEF Winds, Fades, Drifts

LEMMA SweepWinds ==
  ASSUME NEW row \in Row, NEW t \in Nat, DOMAIN row.out # {}
  PROVE  Winds(Sweep(row, t), row)
<1> DEFINE due == row.expires <= t
           lost == row.expires + LaneGuard <= t
           polled == IF due THEN Turn(row, "ready", "expired") ELSE row
           seen == IF lost THEN Turn(polled, "claimed", "uncertain") ELSE polled
           fresh == IF seen = row THEN row ELSE Refresh(seen)
           swept == IF due THEN Turn(fresh, "accepted", "expired") ELSE fresh
           last == IF due /\ swept.status = "accepted"
                   THEN [swept EXCEPT !.status = "expired", !.text = FALSE] ELSE swept
<1>1. Sweep(row, t) = last
  BY DEF Sweep
<1>2. Winds(polled, row) /\ polled \in Row
  BY TurnWinds, WindsItself, StatusNames DEF Winds
<1> HIDE DEF polled
<1>3. Winds(seen, polled)
  BY <1>2, TurnWinds, WindsItself, StatusNames
<1> HIDE DEF seen
<1>4. Winds(seen, row)
  BY <1>2, <1>3, WindsOn
<1>5. seen \in Row /\ DOMAIN seen.out # {}
  BY <1>4 DEF Winds
<1>6. Winds(fresh, row) /\ fresh \in Row
  BY <1>4, <1>5, RefreshWinds, WindsItself, WindsOn DEF Winds
<1> HIDE DEF fresh
<1>7. Winds(swept, fresh)
  BY <1>6, TurnWinds, WindsItself, StatusNames
<1> HIDE DEF swept
<1>8. Winds(swept, row) /\ swept \in Row
  BY <1>6, <1>7, WindsOn DEF Winds
<1>9. Winds(last, swept)
  <2> DEFINE r == [swept EXCEPT !.status = "expired", !.text = FALSE]
  <2>1. r \in Row /\ r.out = swept.out
    BY <1>8, RowIs, StatusNames
  <2> HIDE DEF r
  <2>2. Winds(r, swept)
    BY <2>1 DEF Winds, Fades
  <2> QED BY <1>8, <2>2, WindsItself DEF r
<1> HIDE DEF last
<1> QED BY <1>1, <1>8, <1>9, WindsOn

LEMMA RecoverWinds ==
  ASSUME NEW row, Proper(row)
  PROVE  Winds(Recover(row), row)
<1> DEFINE known == Turn(row, "dispatching", "uncertain")
           over == Turn(known, "accepted", "failed")
<1>1. row \in Row /\ DOMAIN row.out # {}
  BY DEF Proper
<1>2. Recover(row) = IF row.status = "synthesizing" THEN Refresh(over) ELSE known
  BY DEF Recover
<1>3. Winds(known, row)
  BY <1>1, TurnWinds, StatusNames
<1> HIDE DEF known
<1>4. Winds(over, known) /\ over \in Row
  BY <1>3, TurnWinds, StatusNames DEF Winds
<1> HIDE DEF over
<1>5. Winds(over, row) /\ DOMAIN over.out # {}
  BY <1>1, <1>3, <1>4, WindsOn DEF Winds
<1> QED BY <1>2, <1>3, <1>4, <1>5, RefreshWinds, WindsOn

LEMMA FailWinds ==
  ASSUME NEW row \in Row, NEW to \in {"failed", "expired"}
  PROVE  Winds(Turn(Turn(row, "accepted", to), "dispatching", "uncertain"), row)
<1> DEFINE first == Turn(row, "accepted", to)
<1>1. Winds(first, row) /\ first \in Row
  BY TurnWinds, StatusNames DEF Winds
<1> HIDE DEF first
<1>2. Winds(Turn(first, "dispatching", "uncertain"), first)
  BY <1>1, TurnWinds, StatusNames
<1>3. Winds(Turn(first, "dispatching", "uncertain"), row)
  BY <1>1, <1>2, WindsOn
<1> QED BY <1>3 DEF first
===============================================================================
