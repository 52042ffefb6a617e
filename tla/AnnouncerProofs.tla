--------------------------- MODULE AnnouncerProofs ---------------------------
(***************************************************************************)
(* Theorems about the announcement service, for any callers, outputs,      *)
(* configurations, limits and bounds.                                      *)
(***************************************************************************)
EXTENDS Announcer, WellFoundedInduction, TLAPS

-----------------------------------------------------------------------------
(* Rows of the ledger *)

\* The status of each delivery of a job, and how often its clip was fetched.
StatusMap == UNION {[S -> Status] : S \in SUBSET Output}
CountMap == UNION {[S -> 0 .. MediaLimit] : S \in SUBSET Output}

LEMMA RowIs ==
  Row = [caller : Caller, key : Key, ttl : Ttl, created : Nat, expires : Nat,
         status : Status \cup {"synthesizing"}, text : BOOLEAN,
         out : StatusMap, gets : CountMap]
BY DEF Row, StatusMap, CountMap

LEMMA StatusMaps ==
  /\ \A f \in StatusMap :
       /\ DOMAIN f \subseteq Output /\ f = [o \in DOMAIN f |-> f[o]]
       /\ \A o \in DOMAIN f : f[o] \in Status
  /\ \A S \in SUBSET Output : [S -> Status] \subseteq StatusMap
BY DEF StatusMap

LEMMA CountMaps ==
  /\ \A f \in CountMap :
       /\ DOMAIN f \subseteq Output /\ f = [o \in DOMAIN f |-> f[o]]
       /\ \A o \in DOMAIN f : f[o] \in 0 .. MediaLimit
  /\ \A S \in SUBSET Output : [S -> 0 .. MediaLimit] \subseteq CountMap
BY DEF CountMap

\* A row as the ledger keeps it: a job waits only while all its deliveries do.
Proper(row) ==
  /\ row \in Row
  /\ DOMAIN row.out = DOMAIN row.gets /\ DOMAIN row.out # {}
  /\ row.status = "accepted" => \A o \in DOMAIN row.out : row.out[o] = "accepted"

\* What became of a row without a delivery being made ready, or a job waiting again.
Follows(new, old) ==
  /\ Proper(new)
  /\ DOMAIN new.out = DOMAIN old.out
  /\ \A o \in DOMAIN new.out : new.out[o] = "ready" => old.out[o] = "ready"
  /\ new.status = "accepted" => old.status = "accepted"

LEMMA FollowsItself == \A row : Proper(row) => Follows(row, row)
BY DEF Follows

LEMMA FollowsOn == \A a, b, c : Follows(a, b) /\ Follows(b, c) => Follows(a, c)
BY DEF Follows

\* The statuses by name.
LEMMA StatusNames ==
  Status = {"uncertain", "dispatching", "accepted", "ready", "claimed", "failed",
            "expired", "interrupted", "dismissed", "published_unconfirmed",
            "media_fetched_unconfirmed", "completed_unconfirmed"}
<1>1. DOMAIN StatusPriority = 1 .. 12
  BY DEF StatusPriority
<1>2. 1 .. 12 = {1, 2, 3, 4, 5, 6, 7, 8, 9, 10, 11, 12}
  OBVIOUS
<1> QED BY <1>1, <1>2 DEF Status, StatusPriority, Range

\* The status that stands for a job is never "accepted".
LEMMA AggregateIsStatus ==
  ASSUME NEW S \in SUBSET Status, S # {}
  PROVE  Aggregate(S) \in (Status \cup {"synthesizing"}) \ {"accepted"}
<1> DEFINE I == {i \in DOMAIN StatusPriority : StatusPriority[i] \in S}
<1>1. DOMAIN StatusPriority = 1 .. 12
  BY DEF StatusPriority
<1>2. I # {} /\ I \subseteq Nat
  BY <1>1 DEF Status, Range
<1>3. PICK k \in I : \A y \in I : ~(<<y, k>> \in OpToRel(<, Nat))
  <2>1. IsWellFoundedOn(OpToRel(<, Nat), Nat)
    BY NatLessThanWellFounded
  <2> HIDE DEF I
  <2> QED BY <1>2, <2>1, WFMin
<1>4. \A y \in I : ~(y < k)
  BY <1>2, <1>3 DEF OpToRel
<1>5. \E x \in I : \A y \in I : x <= y
  BY <1>2, <1>4
<1>6. Min(I) \in I
  BY <1>5 DEF Min
<1> HIDE DEF I
<1> DEFINE worst == StatusPriority[Min(I)]
<1>7. worst \in Status
  BY <1>6 DEF I
<1>8. Aggregate(S) = IF worst \in {"dispatching", "accepted"} THEN "synthesizing" ELSE worst
  BY DEF Aggregate, I
<1> HIDE DEF worst
<1> QED BY <1>7, <1>8

\* A refresh changes the status and the text only.
LEMMA RefreshFollows ==
  ASSUME NEW row, Proper(row)
  PROVE  /\ Follows(Refresh(row), row)
         /\ Refresh(row).out = row.out /\ Refresh(row).status # "accepted"
<1> DEFINE r == Refresh(row)
           a == Aggregate(States(row))
           b == row.text /\ States(row) \cap {"ready", "accepted"} # {}
<1>1. row.out \in StatusMap /\ row \in Row
  BY RowIs DEF Proper
<1>2. States(row) \in SUBSET Status /\ States(row) # {}
  BY <1>1, StatusMaps DEF States, Range, Proper
<1>3. a \in (Status \cup {"synthesizing"}) \ {"accepted"}
  BY <1>2, AggregateIsStatus
<1>4. b \in BOOLEAN
  BY <1>1, RowIs
<1>5. r = [row EXCEPT !.status = a, !.text = b]
  BY DEF Refresh
<1> HIDE DEF a, b, r
<1>6. r \in Row
  BY <1>1, <1>3, <1>4, <1>5, RowIs
<1>7. r.out = row.out /\ r.gets = row.gets /\ r.status = a
  BY <1>1, <1>5, RowIs
<1>8. r.status # "accepted"
  BY <1>3, <1>7
<1>9. Follows(r, row)
  BY <1>6, <1>7, <1>8 DEF Follows, Proper
<1> QED BY <1>7, <1>8, <1>9 DEF r

\* Other statuses for the deliveries make a row, unless the job is to wait.
LEMMA NewOut ==
  ASSUME NEW row, Proper(row), NEW f, f \in [DOMAIN row.out -> Status],
         \A o \in DOMAIN row.out : f[o] = "ready" => row.out[o] = "ready",
         row.status = "accepted" => \A o \in DOMAIN row.out : f[o] = "accepted"
  PROVE  Follows([row EXCEPT !.out = f], row) /\ [row EXCEPT !.out = f].out = f
<1> DEFINE r == [row EXCEPT !.out = f]
<1>1. row \in Row /\ row.out \in StatusMap
  BY RowIs DEF Proper
<1>2. f \in StatusMap
  BY <1>1, StatusMaps
<1>3. r \in Row
  BY <1>1, <1>2, RowIs
<1>4. r.out = f /\ r.gets = row.gets /\ r.status = row.status
  BY <1>1, RowIs
<1> HIDE DEF r
<1>5. Follows(r, row)
  BY <1>3, <1>4 DEF Follows, Proper
<1> QED BY <1>4, <1>5 DEF r

\* Moving deliveries from one status to another makes none ready, and no job wait.
LEMMA TurnFollows ==
  ASSUME NEW row, Proper(row), NEW from \in Status \ {"accepted"},
         NEW to \in Status \ {"ready"}
  PROVE  Follows(Turn(row, from, to), row)
<1> DEFINE f == [o \in DOMAIN row.out |-> IF row.out[o] = from THEN to ELSE row.out[o]]
<1>1. row.out \in StatusMap
  BY RowIs DEF Proper
<1>2. f \in [DOMAIN row.out -> Status]
  BY <1>1, StatusMaps
<1>3. /\ \A o \in DOMAIN row.out : f[o] = "ready" => row.out[o] = "ready"
      /\ row.status = "accepted" => \A o \in DOMAIN row.out : f[o] = "accepted"
  BY DEF Proper
<1>4. Turn(row, from, to) = [row EXCEPT !.out = f]
  BY DEF Turn
<1> HIDE DEF f
<1> QED BY <1>2, <1>3, <1>4, NewOut

\* Waiting deliveries may only move when their job no longer waits, or with it.
LEMMA TurnAccepted ==
  ASSUME NEW row, Proper(row), NEW to \in Status \ {"ready"}
  PROVE  LET r == Turn(row, "accepted", to) IN
         /\ row.status # "accepted" => Follows(r, row)
         /\ r.status = row.status /\ r.text = row.text
         /\ Follows(Refresh(r), row)
         /\ Follows([r EXCEPT !.status = "expired", !.text = FALSE], row)
<1> DEFINE f == [o \in DOMAIN row.out |-> IF row.out[o] = "accepted" THEN to ELSE row.out[o]]
           r == Turn(row, "accepted", to)
           x == [row EXCEPT !.status = "expired"]
<1>1. row \in Row /\ row.out \in StatusMap
  BY RowIs DEF Proper
<1>2. f \in [DOMAIN row.out -> Status]
  BY <1>1, StatusMaps, StatusNames
<1>3. \A o \in DOMAIN row.out : f[o] = "ready" => row.out[o] = "ready"
  OBVIOUS
<1>4. r = [row EXCEPT !.out = f]
  BY DEF Turn
<1> HIDE DEF f, r
<1>5. row.status # "accepted" => Follows(r, row)
  BY <1>2, <1>3, <1>4, NewOut
<1>6. r.status = row.status /\ r.text = row.text /\ r.out = f
  BY <1>1, <1>4, RowIs
<1>7. x \in Row /\ x.out = row.out /\ x.gets = row.gets /\ x.status = "expired"
  BY <1>1, RowIs, StatusNames
<1> HIDE DEF x
<1>8. Proper(x)
  BY <1>7 DEF Proper
<1> DEFINE y == [x EXCEPT !.out = f]
<1>9. Follows(y, x)
  BY <1>2, <1>3, <1>7, <1>8, NewOut
<1>10. f \in StatusMap
  BY <1>1, <1>2, StatusMaps
<1>11. r \in Row /\ r.gets = row.gets
  BY <1>1, <1>4, <1>10, RowIs
<1>12. Follows([r EXCEPT !.status = "expired", !.text = FALSE], row)
  <2> DEFINE z == [r EXCEPT !.status = "expired", !.text = FALSE]
  <2>1. z \in Row
    BY <1>11, RowIs, StatusNames
  <2>2. z.out = f /\ z.gets = row.gets /\ z.status = "expired"
    BY <1>6, <1>11, RowIs
  <2> HIDE DEF z
  <2> QED BY <1>2, <1>3, <2>1, <2>2 DEF Follows, Proper, z
<1>13. Follows(Refresh(r), row)
  <2> DEFINE a == Aggregate(States(r))
             b == r.text /\ States(r) \cap {"ready", "accepted"} # {}
             z == Refresh(r)
  <2>1. States(r) \in SUBSET Status /\ States(r) # {}
    BY <1>2, <1>6 DEF States, Range, Proper
  <2>2. a \in (Status \cup {"synthesizing"}) \ {"accepted"}
    BY <2>1, AggregateIsStatus
  <2>3. b \in BOOLEAN
    BY <1>11, RowIs
  <2>4. z = [r EXCEPT !.status = a, !.text = b]
    BY DEF Refresh
  <2> HIDE DEF a, b, z
  <2>5. z \in Row /\ z.out = f /\ z.gets = row.gets /\ z.status = a
    BY <1>6, <1>11, <2>2, <2>3, <2>4, RowIs
  <2> QED BY <1>2, <1>3, <2>2, <2>5 DEF Follows, Proper, z
<1> QED BY <1>5, <1>6, <1>12, <1>13 DEF r

\* A new status for one delivery of a job that does not wait.
LEMMA SetFollows ==
  ASSUME NEW row, Proper(row), NEW o, NEW status \in Status \ {"ready"}
  PROVE  /\ row.status # "accepted" => Follows(Set(row, o, status), row)
         /\ Follows(Refresh(Set(row, o, status)), row)
         /\ Refresh(Set(row, o, status)).status # "accepted"
         /\ o \in DOMAIN row.out => Refresh(Set(row, o, status)).out[o] = status
<1> DEFINE f == [row.out EXCEPT ![o] = status]
           r == Set(row, o, status)
           a == Aggregate(States(r))
           b == r.text /\ States(r) \cap {"ready", "accepted"} # {}
           z == Refresh(r)
<1>1. row \in Row /\ row.out \in StatusMap
  BY RowIs DEF Proper
<1>2. f \in [DOMAIN row.out -> Status]
  BY <1>1, StatusMaps
<1>3. \A p \in DOMAIN row.out : f[p] = "ready" => row.out[p] = "ready"
  BY <1>1, StatusMaps
<1>4. r = [row EXCEPT !.out = f]
  BY DEF Set
<1>5. o \in DOMAIN row.out => f[o] = status
  BY <1>1, StatusMaps
<1> HIDE DEF f, r
<1>6. row.status # "accepted" => Follows(r, row)
  BY <1>2, <1>3, <1>4, NewOut
<1>7. f \in StatusMap
  BY <1>1, <1>2, StatusMaps
<1>8. r \in Row /\ r.gets = row.gets /\ r.out = f
  BY <1>1, <1>4, <1>7, RowIs
<1>9. States(r) \in SUBSET Status /\ States(r) # {}
  BY <1>2, <1>8 DEF States, Range, Proper
<1>10. a \in (Status \cup {"synthesizing"}) \ {"accepted"}
  BY <1>9, AggregateIsStatus
<1>11. b \in BOOLEAN
  BY <1>8, RowIs
<1>12. z = [r EXCEPT !.status = a, !.text = b]
  BY DEF Refresh
<1> HIDE DEF a, b, z
<1>13. z \in Row /\ z.out = f /\ z.gets = row.gets /\ z.status = a
  BY <1>8, <1>10, <1>11, <1>12, RowIs
<1>14. Follows(z, row)
  BY <1>2, <1>3, <1>10, <1>13 DEF Follows, Proper
<1> QED BY <1>5, <1>6, <1>10, <1>13, <1>14 DEF r, z

\* A sweep makes nothing ready and no job wait.
LEMMA SweepFollows ==
  ASSUME NEW row, Proper(row), NEW t
  PROVE  Follows(Sweep(row, t), row)
<1> DEFINE due == row.expires <= t
           lost == row.expires + LaneGuard <= t
           polled == IF due THEN Turn(row, "ready", "expired") ELSE row
           seen == IF lost THEN Turn(polled, "claimed", "uncertain") ELSE polled
           fresh == IF seen = row THEN row ELSE Refresh(seen)
           swept == IF due THEN Turn(fresh, "accepted", "expired") ELSE fresh
           last == IF due /\ swept.status = "accepted"
                   THEN [swept EXCEPT !.status = "expired", !.text = FALSE] ELSE swept
<1>1. Follows(polled, row)
  BY TurnFollows, FollowsItself, StatusNames
<1>2. Follows(seen, polled)
  <2>1. Proper(polled)
    BY <1>1 DEF Follows
  <2> HIDE DEF polled
  <2> QED BY <2>1, TurnFollows, FollowsItself, StatusNames
<1> HIDE DEF seen, polled
<1>3. Follows(fresh, row)
  <2>1. Follows(seen, row)
    BY <1>1, <1>2, FollowsOn
  <2>2. Proper(seen)
    BY <2>1 DEF Follows
  <2> QED BY <2>1, <2>2, RefreshFollows, FollowsOn, FollowsItself
<1>4. Proper(fresh)
  BY <1>3 DEF Follows
<1> HIDE DEF fresh, due
<1>5. Follows(last, fresh)
  <2>1. CASE ~due
    BY <1>4, <2>1, FollowsItself
  <2>2. CASE due
    <3>1. swept = Turn(fresh, "accepted", "expired") /\ "expired" \in Status \ {"ready"}
      BY <2>2, StatusNames
    <3>2. swept.status = fresh.status
      BY <1>4, <3>1, TurnAccepted
    <3>3. CASE swept.status = "accepted"
      <4>1. last = [swept EXCEPT !.status = "expired", !.text = FALSE]
        BY <2>2, <3>3
      <4> HIDE DEF swept, last
      <4> QED BY <1>4, <3>1, <4>1, TurnAccepted
    <3>4. CASE swept.status # "accepted"
      <4>1. last = swept
        BY <3>4
      <4> HIDE DEF swept, last
      <4> QED BY <1>4, <3>1, <3>2, <3>4, <4>1, TurnAccepted
    <3> QED BY <3>3, <3>4
  <2> QED BY <2>1, <2>2
<1>6. Sweep(row, t) = last
  BY DEF Sweep, due, polled, seen, fresh
<1> HIDE DEF last
<1> QED BY <1>3, <1>5, <1>6, FollowsOn

\* Nor does the recovery of a new process.
LEMMA RecoverFollows ==
  ASSUME NEW row, Proper(row)
  PROVE  Follows(Recover(row), row)
<1> DEFINE known == Turn(row, "dispatching", "uncertain")
<1>1. Follows(known, row)
  BY TurnFollows, StatusNames
<1>2. Proper(known)
  BY <1>1 DEF Follows
<1>3. Recover(row) = IF row.status = "synthesizing"
                     THEN Refresh(Turn(known, "accepted", "failed")) ELSE known
  BY DEF Recover
<1>4. "failed" \in Status \ {"ready"}
  BY StatusNames
<1> HIDE DEF known
<1>5. Follows(Refresh(Turn(known, "accepted", "failed")), known)
  BY <1>2, <1>4, TurnAccepted
<1> QED BY <1>1, <1>3, <1>5, FollowsOn

\* Another fetch of a clip leaves the statuses alone.
LEMMA FetchFollows ==
  ASSUME NEW row, Proper(row), NEW o, row.gets[o] < MediaLimit
  PROVE  Follows([row EXCEPT !.gets[o] = @ + 1], row)
<1> DEFINE g == [row.gets EXCEPT ![o] = @ + 1]
           r == [row EXCEPT !.gets = g]
<1>1. row \in Row /\ row.gets \in CountMap /\ row.out \in StatusMap
  BY RowIs DEF Proper
<1>2. MediaLimit \in Nat
  BY ConstantsAssumption
<1>3. g \in [DOMAIN row.gets -> 0 .. MediaLimit]
  <2>1. \A p \in DOMAIN row.gets : row.gets[p] \in 0 .. MediaLimit
    BY <1>1, CountMaps
  <2>2. o \in DOMAIN row.gets => row.gets[o] + 1 \in 0 .. MediaLimit
    BY <1>2, <2>1
  <2>3. g = [p \in DOMAIN row.gets |-> IF p = o THEN row.gets[o] + 1 ELSE row.gets[p]]
    OBVIOUS
  <2> HIDE DEF g
  <2> QED BY <2>1, <2>2, <2>3
<1>4. g \in CountMap /\ DOMAIN g = DOMAIN row.gets
  BY <1>1, <1>3, CountMaps
<1> HIDE DEF g
<1>5. r \in Row /\ r.out = row.out /\ r.gets = g /\ r.status = row.status
  BY <1>1, <1>4, RowIs
<1> HIDE DEF r
<1>6. Follows(r, row)
  BY <1>4, <1>5 DEF Follows, Proper
<1> QED BY <1>6 DEF r, g

\* The job that the worker starts waits no longer.
LEMMA StartFollows ==
  ASSUME NEW row, Proper(row)
  PROVE  Follows([row EXCEPT !.status = "synthesizing"], row)
<1> DEFINE r == [row EXCEPT !.status = "synthesizing"]
<1>1. row \in Row
  BY DEF Proper
<1>2. r \in Row /\ r.out = row.out /\ r.gets = row.gets /\ r.status = "synthesizing"
  BY <1>1, RowIs
<1> HIDE DEF r
<1>3. Follows(r, row)
  BY <1>2 DEF Follows, Proper
<1> QED BY <1>3 DEF r

\* The worker makes one delivery ready, and no other.
LEMMA ReadyRow ==
  ASSUME NEW row, Proper(row), row.status # "accepted", NEW o
  PROVE  LET r == Set(row, o, "ready") IN
         /\ Proper(r) /\ DOMAIN r.out = DOMAIN row.out /\ r.status # "accepted"
         /\ \A p \in DOMAIN r.out : r.out[p] = "ready" => p = o \/ row.out[p] = "ready"
<1> DEFINE f == [row.out EXCEPT ![o] = "ready"]
           r == Set(row, o, "ready")
<1>1. row \in Row /\ row.out \in StatusMap
  BY RowIs DEF Proper
<1>2. f \in [DOMAIN row.out -> Status]
  BY <1>1, StatusMaps, StatusNames
<1>3. \A p \in DOMAIN row.out : f[p] = "ready" => p = o \/ row.out[p] = "ready"
  OBVIOUS
<1>4. r = [row EXCEPT !.out = f]
  BY DEF Set
<1>5. f \in StatusMap
  BY <1>1, <1>2, StatusMaps
<1> HIDE DEF f, r
<1>6. r \in Row /\ r.out = f /\ r.gets = row.gets /\ r.status = row.status
  BY <1>1, <1>4, <1>5, RowIs
<1> QED BY <1>2, <1>3, <1>6 DEF Proper, r

\* A job that was just accepted.
LEMMA NewRowProper ==
  ASSUME NEW c \in Caller, NEW k \in Key, NEW ttl \in Ttl, NEW t \in Nat,
         config \in Configs, config.outputs # {}
  PROVE  /\ Proper(NewRow(c, k, ttl, t)) /\ DOMAIN NewRow(c, k, ttl, t).out = config.outputs
         /\ \A o \in config.outputs : NewRow(c, k, ttl, t).out[o] = "accepted"
<1> DEFINE f == [o \in config.outputs |-> "accepted"]
           g == [o \in config.outputs |-> 0]
           r == NewRow(c, k, ttl, t)
<1>1. config.outputs \subseteq Output /\ ttl \in Nat /\ MediaLimit \in Nat
  BY ConstantsAssumption
<1>2. f \in StatusMap
  <2>1. f \in [config.outputs -> Status]
    BY StatusNames
  <2> QED BY <1>1, <2>1, StatusMaps
<1>3. g \in CountMap
  <2>1. g \in [config.outputs -> 0 .. MediaLimit]
    BY <1>1
  <2> QED BY <1>1, <2>1, CountMaps
<1>4. /\ DOMAIN f = config.outputs /\ DOMAIN g = config.outputs
      /\ \A o \in config.outputs : f[o] = "accepted"
  OBVIOUS
<1>5. r = [caller |-> c, key |-> k, ttl |-> ttl, created |-> t, expires |-> t + ttl,
           status |-> "accepted", text |-> TRUE, out |-> f, gets |-> g]
  BY DEF NewRow
<1> HIDE DEF f, g, r
<1>6. r \in Row
  BY <1>1, <1>2, <1>3, <1>5, RowIs, StatusNames
<1> QED BY <1>4, <1>5, <1>6 DEF Proper, r

-----------------------------------------------------------------------------
(* Ledgers *)

\* A ledger that follows from the present one, row by row.
Along(rows) ==
  \A j \in DOMAIN rows : j \in DOMAIN ledger /\ Follows(rows[j], ledger[j])

ProperRows(rows) == \A j \in DOMAIN rows : Proper(rows[j])

LEMMA EditAlong ==
  ASSUME NEW rows, Along(rows), NEW j, NEW row, j \in DOMAIN rows => Follows(row, rows[j])
  PROVE  Along([rows EXCEPT ![j] = row])
<1> SUFFICES ASSUME NEW i \in DOMAIN rows
             PROVE  /\ i \in DOMAIN ledger
                    /\ Follows([rows EXCEPT ![j] = row][i], ledger[i])
  BY DEF Along
<1>1. i \in DOMAIN ledger /\ Follows(rows[i], ledger[i])
  BY DEF Along
<1>2. CASE i = j
  BY <1>1, <1>2, FollowsOn
<1>3. CASE i # j
  BY <1>1, <1>3
<1> QED BY <1>2, <1>3

LEMMA LedgerAlong == ProperRows(ledger) => Along(ledger)
BY FollowsItself DEF ProperRows, Along

LEMMA AlongProper == \A rows : Along(rows) => ProperRows(rows)
BY DEF Along, ProperRows, Follows

LEMMA CleanupAlong ==
  ASSUME NEW rows, Along(rows)
  PROVE  Along(CleanupOf(rows))
<1> SUFFICES ASSUME NEW j \in DOMAIN CleanupOf(rows)
             PROVE  j \in DOMAIN ledger /\ Follows(CleanupOf(rows)[j], ledger[j])
  BY DEF Along
<1>1. j \in DOMAIN rows /\ CleanupOf(rows)[j] = Sweep(rows[j], now)
  BY DEF CleanupOf
<1>2. j \in DOMAIN ledger /\ Follows(rows[j], ledger[j])
  BY <1>1 DEF Along
<1>3. Follows(Sweep(rows[j], now), rows[j])
  BY <1>2, SweepFollows DEF Follows
<1> QED BY <1>1, <1>2, <1>3, FollowsOn

LEMMA CleanedAlong == ProperRows(ledger) => Along(Cleaned)
BY LedgerAlong, CleanupAlong DEF Cleaned

LEMMA MarkAlong ==
  ASSUME NEW rows, Along(rows), NEW j, NEW o, NEW status \in Status \ {"ready"}
  PROVE  Along(Mark(rows, j, o, status))
<1>1. j \in DOMAIN rows => Follows(Refresh(Set(rows[j], o, status)), rows[j])
  BY SetFollows, AlongProper DEF ProperRows
<1> QED BY <1>1, EditAlong DEF Mark

-----------------------------------------------------------------------------
(* The invariant *)

\* Nothing was sent for a delivery, and no response to its app is on its way.
Fresh(j, o) == sent[<<j, o>>] = 0 /\ (o \in Native => <<j, o>> \notin inflight)

\* A delivery of the job in hand that the worker has yet to come to.
Pristine(o) ==
  /\ Fresh(worker.job, o)
  /\ worker.job \in DOMAIN ledger =>
       (o \in DOMAIN ledger[worker.job].out => ledger[worker.job].out[o] # "ready")

Typed ==
  /\ now \in Nat /\ config \in Configs
  /\ issued \in 0 .. MaxJobs /\ DOMAIN ledger \subseteq 1 .. issued
  /\ ProperRows(ledger)
  /\ inflight \subseteq Delivery /\ sent \in [Delivery -> {0, 1}]

\* A response on its way to an app is the first; jobs to come, jobs that wait and
\* deliveries that are ready have had none.
LedgerFresh ==
  /\ \A j \in JobId, o \in Native : <<j, o>> \in inflight => sent[<<j, o>>] = 0
  /\ \A j \in JobId, o \in Output : j > issued => Fresh(j, o)
  /\ \A j \in DOMAIN ledger, o \in Output : ledger[j].status = "accepted" => Fresh(j, o)
  /\ \A j \in DOMAIN ledger : \A o \in DOMAIN ledger[j].out :
       o \in Native /\ ledger[j].out[o] = "ready" => Fresh(j, o)

Active == {"picked", "synthesizing", "validating", "sending", "dispatching",
           "publishing", "transmitting", "awaiting", "recording", "failing", "closing"}

WorkerTyped ==
  /\ worker = [step |-> worker.step, job |-> worker.job, todo |-> worker.todo,
               output |-> worker.output, state |-> worker.state]
  /\ worker.step \in Active => worker.job \in 1 .. issued
  /\ worker.step \in Active \ {"picked"} =>
       (worker.job \in DOMAIN ledger => ledger[worker.job].status # "accepted")

\* What the worker has yet to send was not sent.
WorkerFresh ==
  /\ worker.step \in {"picked", "synthesizing", "validating"} => \A o \in Output : Pristine(o)
  /\ worker.step \in {"sending", "dispatching", "publishing", "transmitting", "awaiting",
                       "recording"} =>
       \A o \in Output \cap worker.todo : Pristine(o)
  /\ worker.step \in {"dispatching", "publishing", "transmitting", "awaiting", "recording"} =>
       worker.output \in Output \ worker.todo
  /\ worker.step \in {"dispatching", "publishing", "transmitting"} =>
       worker.output \notin Native /\ sent[<<worker.job, worker.output>>] = 0
  /\ worker.step \in {"awaiting"} => worker.output \notin Native
  /\ worker.step = "recording" =>
       /\ worker.state \in Status
       /\ worker.state = "ready" =>
            worker.output \in Native /\ Pristine(worker.output)

SendInv == Typed /\ LedgerFresh /\ WorkerTyped /\ WorkerFresh

-----------------------------------------------------------------------------
(* Steps that send nothing and make nothing ready *)

Quiet ==
  /\ now' \in Nat /\ config' \in Configs /\ issued' = issued
  /\ Along(ledger')
  /\ sent' = sent /\ inflight' \subseteq Delivery
  /\ \A j, o : o \in Native /\ <<j, o>> \in inflight' => <<j, o>> \in inflight

LEMMA FreshStays ==
  ASSUME Quiet, NEW j, NEW o, Fresh(j, o)
  PROVE  Fresh(j, o)'
BY DEF Quiet, Fresh

LEMMA PristineStays ==
  ASSUME Quiet, worker'.job = worker.job, NEW o, Pristine(o)
  PROVE  Pristine(o)'
<1> DEFINE j == worker.job
<1>1. Fresh(j, o)'
  BY FreshStays DEF Pristine
<1>2. ASSUME j \in DOMAIN ledger', o \in DOMAIN ledger'[j].out
      PROVE  ledger'[j].out[o] # "ready"
  BY <1>2 DEF Quiet, Along, Follows, Pristine
<1> QED BY <1>1, <1>2 DEF Pristine, Fresh

LEMMA QuietLedger ==
  ASSUME Typed, LedgerFresh, Quiet
  PROVE  Typed' /\ LedgerFresh'
<1>1. \A j, o : Fresh(j, o) => Fresh(j, o)'
  BY FreshStays
<1>2. Typed'
  BY AlongProper DEF Typed, Quiet, Along, ProperRows, Follows
<1>3. \A j \in JobId, o \in Native : <<j, o>> \in inflight' => sent'[<<j, o>>] = 0
  BY DEF LedgerFresh, Quiet
<1>4. \A j \in JobId, o \in Output : j > issued' => Fresh(j, o)'
  BY <1>1 DEF LedgerFresh, Quiet
<1>5. \A j \in DOMAIN ledger', o \in Output : ledger'[j].status = "accepted" => Fresh(j, o)'
  BY <1>1 DEF LedgerFresh, Quiet, Along, Follows
<1>6. \A j \in DOMAIN ledger' : \A o \in DOMAIN ledger'[j].out :
        o \in Native /\ ledger'[j].out[o] = "ready" => Fresh(j, o)'
  BY <1>1 DEF LedgerFresh, Quiet, Along, Follows
<1> QED BY <1>2, <1>3, <1>4, <1>5, <1>6 DEF LedgerFresh, Fresh

\* The job in hand does not wait again.
LEMMA HeldStays ==
  ASSUME Quiet,
         worker.job \in DOMAIN ledger => ledger[worker.job].status # "accepted",
         worker'.job = worker.job
  PROVE  worker'.job \in DOMAIN ledger' => ledger'[worker'.job].status # "accepted"
BY DEF Quiet, Along, Follows

LEMMA QuietStep ==
  ASSUME SendInv, Quiet, worker' = worker
  PROVE  SendInv'
<1>1. Typed' /\ LedgerFresh'
  BY QuietLedger DEF SendInv
<1>2. WorkerTyped'
  BY HeldStays DEF SendInv, WorkerTyped, Quiet
<1>3. \A o : Pristine(o) => Pristine(o)'
  BY PristineStays
<1>4. WorkerFresh'
  BY <1>3 DEF SendInv, WorkerFresh, Quiet
<1> QED BY <1>1, <1>2, <1>4 DEF SendInv

\* The worker lets go of its job.
LEMMA RestStep ==
  ASSUME SendInv, Quiet, NEW step \in {"waiting", "dead"},
         worker' = [Idle EXCEPT !.step = step]
  PROVE  SendInv'
<1>1. Typed' /\ LedgerFresh'
  BY QuietLedger DEF SendInv
<1>2. WorkerTyped' /\ WorkerFresh'
  BY DEF Idle, WorkerTyped, WorkerFresh, Active
<1> QED BY <1>1, <1>2 DEF SendInv

LEMMA IdleIs == Idle = [Idle EXCEPT !.step = "waiting"]
BY DEF Idle

\* The worker goes on with its job.
LEMMA GoOn ==
  ASSUME SendInv, Quiet, worker.step \in Active, worker'.job = worker.job,
         worker' = [step |-> worker'.step, job |-> worker'.job, todo |-> worker'.todo,
                    output |-> worker'.output, state |-> worker'.state],
         \/ worker.step # "picked"
         \/ worker.job \in DOMAIN ledger' => ledger'[worker.job].status # "accepted",
         WorkerFresh'
  PROVE  SendInv'
<1>1. Typed' /\ LedgerFresh'
  BY QuietLedger DEF SendInv
<1>2. worker'.job \in 1 .. issued'
  BY DEF SendInv, WorkerTyped, Quiet
<1>3. worker'.job \in DOMAIN ledger' => ledger'[worker'.job].status # "accepted"
  BY HeldStays DEF SendInv, WorkerTyped
<1>4. WorkerTyped'
  BY <1>2, <1>3 DEF WorkerTyped
<1> QED BY <1>1, <1>4 DEF SendInv

LEMMA QuietCommit ==
  ASSUME Typed, NEW rows, Along(rows), ledger' = rows \/ ledger' = ledger
  PROVE  Along(ledger')
BY LedgerAlong DEF Typed

-----------------------------------------------------------------------------
(* The requests *)

LEMMA ReadableIsNat == ASSUME now \in Nat, NEW t \in Readable PROVE t \in Nat
<1>1. MaxTime \in Nat
  BY ConstantsAssumption
<1> QED BY <1>1 DEF Readable

LEMMA AcceptStep ==
  ASSUME SendInv, NEW c \in Caller, NEW k \in Key, NEW ttl \in Ttl, Accept(c, k, ttl)
  PROVE  SendInv'
<1> DEFINE same == {j \in DOMAIN Cleaned : Cleaned[j].caller = c /\ Cleaned[j].key = k}
           new == [j \in DOMAIN Cleaned \cup {issued'} |->
                     IF j = issued' THEN NewRow(c, k, ttl, now') ELSE Cleaned[j]]
<1>1. Typed /\ LedgerFresh /\ WorkerTyped /\ WorkerFresh
  BY DEF SendInv
<1>2. Along(Cleaned)
  BY <1>1, CleanedAlong DEF Typed
<1>3. now' \in Nat /\ config' = config /\ worker' = worker /\ sent' = sent /\ inflight' = inflight
  BY <1>1, ReadableIsNat DEF Accept, Typed, process, outside
<1>4. CASE issued' = issued /\ (ledger' = Cleaned \/ ledger' = ledger)
  <2>1. Along(ledger')
    BY <1>1, <1>2, <1>4, QuietCommit
  <2>2. Quiet
    BY <1>1, <1>3, <1>4, <2>1 DEF Quiet, Typed
  <2> QED BY <1>3, <2>2, QuietStep
<1>5. CASE issued' = issued + 1 /\ issued < MaxJobs /\ config.outputs # {} /\ ledger' = new
  <2> DEFINE i == issued'
             r == NewRow(c, k, ttl, now')
  <2>1. MaxJobs \in Nat /\ config.outputs \subseteq Output
    BY <1>1, ConstantsAssumption DEF Typed
  <2>2. i \in JobId /\ i > issued /\ i \notin DOMAIN ledger /\ i = issued + 1
    BY <1>1, <1>5, <2>1 DEF Typed, JobId
  <2>3. i \notin DOMAIN Cleaned
    BY <1>2, <2>2 DEF Along
  <2>4. DOMAIN ledger' = DOMAIN Cleaned \cup {i} /\ ledger'[i] = r
        /\ \A j \in DOMAIN Cleaned : ledger'[j] = Cleaned[j]
    BY <1>5, <2>3
  <2>5. Proper(r) /\ DOMAIN r.out = config.outputs
        /\ \A o \in config.outputs : r.out[o] = "accepted"
    BY <1>1, <1>3, <1>5, NewRowProper DEF Typed
  <2>6. \A j, o : Fresh(j, o) <=> Fresh(j, o)'
    BY <1>3 DEF Fresh
  <2>7. \A o \in Output : Fresh(i, o)
    BY <1>1, <2>2 DEF LedgerFresh
  <2> HIDE DEF r, i, new
  <2>8. Typed'
    <3>1. issued' \in 0 .. MaxJobs
      BY <1>1, <1>5, <2>1 DEF Typed
    <3>2. DOMAIN ledger' \subseteq 1 .. issued'
      BY <1>1, <1>2, <1>5, <2>1, <2>2, <2>4 DEF Typed, Along, i
    <3>3. ProperRows(ledger')
      BY <1>2, <2>4, <2>5 DEF ProperRows, Along, Follows
    <3> QED BY <1>1, <1>3, <3>1, <3>2, <3>3 DEF Typed, ProperRows
  <2>9. LedgerFresh'
    <3>1. \A j \in JobId, o \in Native : <<j, o>> \in inflight' => sent'[<<j, o>>] = 0
      BY <1>1, <1>3 DEF LedgerFresh
    <3>2. \A j \in JobId, o \in Output : j > issued' => Fresh(j, o)'
      BY <1>1, <1>5, <2>6 DEF LedgerFresh, Typed, JobId
    <3>3. \A j \in DOMAIN ledger', o \in Output : ledger'[j].status = "accepted" => Fresh(j, o)'
      BY <1>1, <1>2, <2>4, <2>6, <2>7 DEF LedgerFresh, Along, Follows
    <3>4. \A j \in DOMAIN ledger' : \A o \in DOMAIN ledger'[j].out :
            o \in Native /\ ledger'[j].out[o] = "ready" => Fresh(j, o)'
      BY <1>1, <1>2, <2>4, <2>5, <2>6 DEF LedgerFresh, Along, Follows
    <3> QED BY <3>1, <3>2, <3>3, <3>4 DEF LedgerFresh, Fresh
  <2>10. worker.step \in Active => worker.job \in 1 .. issued /\ worker.job # i
    BY <1>1, <2>2 DEF WorkerTyped, Typed
  <2>11. WorkerTyped'
    <3>1. worker.step \in Active => worker.job \in 1 .. issued'
      BY <1>1, <1>5, <2>10 DEF Typed
    <3>2. ASSUME worker.step \in Active \ {"picked"}, worker.job \in DOMAIN ledger'
          PROVE  ledger'[worker.job].status # "accepted"
      BY <1>1, <1>2, <2>4, <2>10, <3>2 DEF WorkerTyped, Along, Follows
    <3> QED BY <1>1, <1>3, <3>1, <3>2 DEF WorkerTyped
  <2>12. \A o : worker.step \in Active /\ Pristine(o) => Pristine(o)'
    BY <1>2, <1>3, <2>4, <2>6, <2>10 DEF Pristine, Along, Follows, Fresh
  <2>13. WorkerFresh'
    BY <1>1, <1>3, <2>12 DEF WorkerFresh, Active
  <2> QED BY <2>8, <2>9, <2>11, <2>13 DEF SendInv
<1> QED BY <1>4, <1>5 DEF Accept, Commit, RollBack

LEMMA LookStep == ASSUME SendInv, Look PROVE SendInv'
<1>1. Typed
  BY DEF SendInv
<1>2. Along(ledger')
  BY <1>1, CleanedAlong, QuietCommit DEF Look, Commit, RollBack, Typed
<1>3. Quiet /\ worker' = worker
  BY <1>1, <1>2 DEF Look, Quiet, Typed, process, outside
<1> QED BY <1>3, QuietStep

LEMMA DropStep ==
  ASSUME SendInv, NEW j \in JobId, NEW o \in Output, Drop(j, o)
  PROVE  SendInv'
<1>1. Typed
  BY DEF SendInv
<1>2. Quiet /\ worker' = worker
  BY <1>1, LedgerAlong DEF Drop, Quiet, Typed, process
<1> QED BY <1>2, QuietStep

LEMMA ReportStep ==
  ASSUME SendInv, NEW o \in Output, NEW j \in JobId, NEW status \in AppResult,
         Report(o, j, status)
  PROVE  SendInv'
<1>1. Typed
  BY DEF SendInv
<1>2. Along(Cleaned)
  BY <1>1, CleanedAlong DEF Typed
<1>3. status \in Status \ {"ready"}
  BY ConstantsAssumption, StatusNames
<1>4. Along(Mark(Cleaned, j, o, status))
  BY <1>2, <1>3, MarkAlong
<1>5. ledger' \in {Cleaned, ledger, Mark(Cleaned, j, o, status)}
  BY DEF Report, Commit, RollBack
<1>6. Along(ledger')
  BY <1>1, <1>2, <1>4, <1>5, LedgerAlong DEF Typed
<1>7. Quiet /\ worker' = worker
  BY <1>1, <1>6 DEF Report, Quiet, Typed, process, outside
<1> QED BY <1>7, QuietStep

LEMMA GetStep ==
  ASSUME SendInv, NEW j \in JobId, NEW o \in Output, Get(j, o)
  PROVE  SendInv'
<1>1. Typed
  BY DEF SendInv
<1>2. Along(ledger)
  BY <1>1, LedgerAlong DEF Typed
<1>3. j \in DOMAIN ledger /\ ledger[j].gets[o] < MediaLimit /\ Proper(ledger[j])
  BY <1>1 DEF Get, MayFetch, Typed, ProperRows
<1>4. Along(ledger')
  <2>1. Follows([ledger[j] EXCEPT !.gets[o] = @ + 1], ledger[j])
    BY <1>3, FetchFollows
  <2>2. ledger' = [ledger EXCEPT ![j] = [ledger[j] EXCEPT !.gets[o] = @ + 1]]
    BY DEF Get
  <2> QED BY <1>2, <2>1, <2>2, EditAlong
<1>5. inflight' = inflight \cup {<<j, o>>} /\ o \notin Native /\ <<j, o>> \in Delivery
  BY DEF Get, Delivery
<1>6. Quiet /\ worker' = worker
  BY <1>1, <1>4, <1>5 DEF Get, Quiet, Typed, process
<1> QED BY <1>6, QuietStep

LEMMA FetchedStep ==
  ASSUME SendInv, NEW j \in JobId, NEW o \in Output, Fetched(j, o)
  PROVE  SendInv'
<1>1. Typed
  BY DEF SendInv
<1>2. "media_fetched_unconfirmed" \in Status \ {"ready"}
  BY StatusNames
<1>3. Along(ledger')
  BY <1>1, <1>2, LedgerAlong, MarkAlong DEF Fetched, Typed
<1>4. Quiet /\ worker' = worker
  BY <1>1, <1>3 DEF Fetched, Quiet, Typed, process
<1> QED BY <1>4, QuietStep

LEMMA ClaimStep ==
  ASSUME SendInv, NEW o \in Output, Claim(o)
  PROVE  SendInv'
<1>1. Typed /\ LedgerFresh /\ WorkerTyped /\ WorkerFresh
  BY DEF SendInv
<1>2. Along(Cleaned)
  BY <1>1, CleanedAlong DEF Typed
<1>3. /\ now' \in Nat /\ config' = config /\ worker' = worker /\ sent' = sent
      /\ issued' = issued /\ o \in Native
  BY <1>1, ReadableIsNat DEF Claim, Typed, process
<1>4. CASE inflight' = inflight /\ Along(ledger')
  <2>1. Quiet
    BY <1>1, <1>3, <1>4 DEF Quiet, Typed
  <2> QED BY <1>3, <2>1, QuietStep
<1>5. ASSUME NEW j \in Pollable(Cleaned, o), ledger' = Mark(Cleaned, j, o, "claimed"),
             inflight' = inflight \cup {<<j, o>>}
      PROVE  SendInv'
  <2>1. j \in DOMAIN Cleaned /\ o \in DOMAIN Cleaned[j].out /\ Cleaned[j].out[o] = "ready"
    BY DEF Pollable
  <2>2. j \in DOMAIN ledger /\ o \in DOMAIN ledger[j].out /\ ledger[j].out[o] = "ready"
    BY <1>2, <2>1 DEF Along, Follows
  <2>3. Fresh(j, o) /\ j \in JobId /\ j \in Nat /\ issued \in Nat
    <3>1. Fresh(j, o)
      BY <1>1, <1>3, <2>2 DEF LedgerFresh
    <3>2. MaxJobs \in Nat
      BY ConstantsAssumption
    <3> QED BY <1>1, <2>2, <3>1, <3>2 DEF Typed, JobId
  <2>4. "claimed" \in Status \ {"ready"} /\ "claimed" # "ready"
    BY StatusNames
  <2>5. Along(ledger')
    BY <1>2, <1>5, <2>4, MarkAlong
  <2>6. ledger'[j] = Refresh(Set(Cleaned[j], o, "claimed"))
    BY <1>5, <2>1 DEF Mark
  <2>7. ledger'[j].out[o] = "claimed" /\ ledger'[j].status # "accepted"
    BY <1>2, <2>1, <2>4, <2>6, AlongProper, SetFollows DEF ProperRows
  <2>8. \A i, p : <<i, p>> # <<j, o>> /\ Fresh(i, p) => Fresh(i, p)'
    BY <1>3, <1>5 DEF Fresh
  <2>9. Typed'
    <3>1. ProperRows(ledger') /\ DOMAIN ledger' \subseteq DOMAIN ledger
      BY <2>5 DEF Along, ProperRows, Follows
    <3>2. inflight' \subseteq Delivery
      BY <1>1, <1>5, <2>3 DEF Typed, Delivery
    <3> QED BY <1>1, <1>3, <3>1, <3>2 DEF Typed, ProperRows
  <2>10. LedgerFresh'
    <3>1. \A i \in JobId, p \in Native : <<i, p>> \in inflight' => sent'[<<i, p>>] = 0
      BY <1>1, <1>3, <1>5, <2>3 DEF LedgerFresh, Fresh
    <3>2. \A i \in JobId, p \in Output : i > issued' => Fresh(i, p)'
      <4>1. j <= issued
        BY <1>1, <2>2 DEF Typed
      <4>2. \A i \in JobId : i > issued => i # j
        BY <2>3, <4>1
      <4> QED BY <1>1, <1>3, <2>8, <4>2 DEF LedgerFresh
    <3>3. \A i \in DOMAIN ledger', p \in Output : ledger'[i].status = "accepted" => Fresh(i, p)'
      BY <1>1, <2>5, <2>7, <2>8 DEF LedgerFresh, Along, Follows
    <3>4. \A i \in DOMAIN ledger' : \A p \in DOMAIN ledger'[i].out :
            p \in Native /\ ledger'[i].out[p] = "ready" => Fresh(i, p)'
      BY <1>1, <2>4, <2>5, <2>7, <2>8 DEF LedgerFresh, Along, Follows
    <3> QED BY <3>1, <3>2, <3>3, <3>4 DEF LedgerFresh, Fresh
  <2>11. WorkerTyped'
    BY <1>1, <1>3, <2>5 DEF WorkerTyped, Along, Follows
  <2>12. \A p : Pristine(p) => Pristine(p)'
    <3> SUFFICES ASSUME NEW p, Pristine(p) PROVE Pristine(p)'
      OBVIOUS
    <3>1. <<worker.job, p>> # <<j, o>>
      BY <2>2 DEF Pristine
    <3>2. Fresh(worker.job, p)'
      BY <1>3, <2>8, <3>1 DEF Pristine, Fresh
    <3>3. ASSUME worker.job \in DOMAIN ledger', p \in DOMAIN ledger'[worker.job].out
          PROVE  ledger'[worker.job].out[p] # "ready"
      BY <2>5, <3>3 DEF Pristine, Along, Follows
    <3> QED BY <1>3, <3>2, <3>3 DEF Pristine, Fresh
  <2>13. WorkerFresh'
    BY <1>1, <1>3, <2>12 DEF WorkerFresh
  <2> QED BY <2>9, <2>10, <2>11, <2>13 DEF SendInv
<1>6. \A j : Along(Mark(Cleaned, j, o, "failed"))
  BY <1>2, MarkAlong, StatusNames
<1> QED BY <1>2, <1>4, <1>5, <1>6 DEF Claim, Commit, Earliest

LEMMA RespondStep ==
  ASSUME SendInv, NEW j \in JobId, NEW o \in Output, Respond(j, o)
  PROVE  SendInv'
<1>1. Typed /\ LedgerFresh /\ WorkerTyped /\ WorkerFresh
  BY DEF SendInv
<1>2. /\ now' = now /\ config' = config /\ worker' = worker /\ ledger' = ledger
      /\ issued' = issued /\ o \in Native /\ <<j, o>> \in inflight
      /\ inflight' = inflight \ {<<j, o>>}
      /\ sent' = [sent EXCEPT ![<<j, o>>] = @ + 1]
  BY DEF Respond, process
<1>3. sent[<<j, o>>] = 0 /\ ~Fresh(j, o) /\ <<j, o>> \in Delivery
  BY <1>1, <1>2 DEF LedgerFresh, Fresh, Delivery
<1>4. sent' \in [Delivery -> {0, 1}] /\ \A d : d # <<j, o>> => sent'[d] = sent[d]
  BY <1>1, <1>2, <1>3 DEF Typed
<1>5. \A i, p : Fresh(i, p) => Fresh(i, p)'
  <2> SUFFICES ASSUME NEW i, NEW p, Fresh(i, p) PROVE Fresh(i, p)'
    OBVIOUS
  <2>1. <<i, p>> # <<j, o>>
    BY <1>3
  <2> QED BY <1>2, <1>4, <2>1 DEF Fresh
<1>6. Typed'
  BY <1>1, <1>2, <1>4 DEF Typed, ProperRows
<1>7. LedgerFresh'
  <2>1. \A i \in JobId, p \in Native : <<i, p>> \in inflight' => sent'[<<i, p>>] = 0
    BY <1>1, <1>2, <1>4 DEF LedgerFresh
  <2> QED BY <1>1, <1>2, <1>5, <2>1 DEF LedgerFresh, Fresh
<1>8. WorkerTyped'
  BY <1>1, <1>2 DEF WorkerTyped
<1>9. \A p : Pristine(p) => Pristine(p)'
  BY <1>2, <1>5 DEF Pristine, Fresh
<1>10. WorkerFresh'
  <2>1. worker.step \in {"dispatching", "publishing", "transmitting"} =>
          worker.output \notin Native /\ sent'[<<worker.job, worker.output>>] = 0
    BY <1>1, <1>2, <1>4 DEF WorkerFresh
  <2> QED BY <1>1, <1>2, <1>9, <2>1 DEF WorkerFresh
<1> QED BY <1>6, <1>7, <1>8, <1>10 DEF SendInv

-----------------------------------------------------------------------------
(* The process *)

\* Steps of the process and of time: only the new process touches the ledger.
LEMMA ProcessStep ==
  ASSUME SendInv, Stop \/ Supervise \/ CloseServers \/ Exit \/ Crash \/ Startup \/ Tick
  PROVE  SendInv'
<1>1. Typed
  BY DEF SendInv
<1>2. Along(ledger)
  BY <1>1, LedgerAlong DEF Typed
<1>3. CASE Stop \/ Supervise \/ CloseServers \/ Tick
  <2>1. Quiet /\ worker' = worker
    BY <1>1, <1>2, <1>3 DEF Stop, Supervise, CloseServers, Tick, Quiet, Typed, process, outside
  <2> QED BY <2>1, QuietStep
<1>4. CASE Exit \/ Crash
  <2>1. Quiet /\ worker' = Idle
    BY <1>1, <1>2, <1>4 DEF Exit, Crash, Quiet, Typed, process, outside
  <2> QED BY <2>1, IdleIs, RestStep
<1>5. CASE Startup
  <2> DEFINE rows == [j \in DOMAIN ledger |-> Recover(ledger[j])]
  <2>1. Along(rows)
    BY <1>1, RecoverFollows DEF Along, Typed, ProperRows
  <2> HIDE DEF rows
  <2>2. Along(CleanupOf(rows))
    BY <2>1, CleanupAlong
  <2>3. Along(ledger')
    BY <1>5, <2>2 DEF Startup, Commit, rows
  <2>4. Quiet /\ worker' = worker
    BY <1>1, <1>5, <2>3 DEF Startup, Quiet, Typed, outside
  <2> QED BY <2>4, QuietStep
<1> QED BY <1>3, <1>4, <1>5

-----------------------------------------------------------------------------
(* The worker *)

\* The worker keeps its job and goes on with these locals.
Moves(step, todo, output, state) ==
  worker' = [step |-> step, job |-> worker.job, todo |-> todo, output |-> output,
             state |-> state]

LEMMA MovesFields ==
  ASSUME NEW step, NEW todo, NEW output, NEW state, Moves(step, todo, output, state)
  PROVE  /\ worker'.step = step /\ worker'.job = worker.job /\ worker'.todo = todo
         /\ worker'.output = output /\ worker'.state = state
         /\ worker' = [step |-> worker'.step, job |-> worker'.job, todo |-> worker'.todo,
                       output |-> worker'.output, state |-> worker'.state]
BY DEF Moves

LEMMA WorkerEdits ==
  ASSUME WorkerTyped
  PROVE  /\ \A s : Goto(s) => Moves(s, worker.todo, worker.output, worker.state)
         /\ \A o, x : Conclude(o, x) => Moves("recording", worker.todo, o, x)
         /\ Proceed => Moves(IF worker.todo = {} THEN "closing" ELSE "sending",
                             worker.todo, NoOutput, "none")
         /\ \A s, t : worker' = [worker EXCEPT !.step = s, !.todo = t]
                      => Moves(s, t, worker.output, worker.state)
BY DEF WorkerTyped, Goto, Conclude, Proceed, Moves

LEMMA PickStep == ASSUME SendInv, Pick PROVE SendInv'
<1>1. Typed /\ LedgerFresh
  BY DEF SendInv
<1>2. Along(Cleaned)
  BY <1>1, CleanedAlong DEF Typed
<1>3. /\ now' \in Nat /\ config' = config /\ issued' = issued /\ sent' = sent
      /\ inflight' = inflight
  BY <1>1, ReadableIsNat DEF Pick, Typed, process, outside
<1>4. CASE worker' = worker /\ Along(ledger')
  <2>1. Quiet
    BY <1>1, <1>3, <1>4 DEF Quiet, Typed
  <2> QED BY <1>4, <2>1, QuietStep
<1>5. ASSUME NEW j \in WaitingJobs(Cleaned), ledger' = Cleaned,
             worker' = [Idle EXCEPT !.step = "picked", !.job = j]
      PROVE  SendInv'
  <2>1. Quiet
    BY <1>1, <1>2, <1>3, <1>5 DEF Quiet, Typed
  <2>2. worker'.step = "picked" /\ worker'.job = j /\ worker'.todo = {}
        /\ worker' = [step |-> worker'.step, job |-> worker'.job, todo |-> worker'.todo,
                      output |-> worker'.output, state |-> worker'.state]
    BY <1>5 DEF Idle
  <2>3. j \in DOMAIN Cleaned /\ Cleaned[j].status = "accepted"
    BY DEF WaitingJobs
  <2>4. j \in DOMAIN ledger /\ ledger[j].status = "accepted" /\ Proper(Cleaned[j])
    BY <1>2, <2>3 DEF Along, Follows
  <2>5. \A o \in Output : Fresh(j, o)'
    BY <1>1, <2>1, <2>4, FreshStays DEF LedgerFresh
  <2>6. \A o \in DOMAIN ledger'[j].out : ledger'[j].out[o] = "accepted"
    BY <1>5, <2>3, <2>4 DEF Proper
  <2>7. \A o \in Output : Pristine(o)'
    BY <2>2, <2>5, <2>6 DEF Pristine, Fresh
  <2>8. WorkerTyped' /\ WorkerFresh'
    BY <1>1, <1>3, <2>2, <2>4, <2>7 DEF WorkerTyped, WorkerFresh, Typed
  <2> QED BY <1>1, <2>1, <2>8, QuietLedger DEF SendInv
<1>6. \A j \in DOMAIN Cleaned :
        Along([Cleaned EXCEPT ![j] = Refresh(Turn(@, "accepted", "failed"))])
  <2> TAKE j \in DOMAIN Cleaned
  <2>1. Follows(Refresh(Turn(Cleaned[j], "accepted", "failed")), Cleaned[j])
    BY <1>2, AlongProper, TurnAccepted, StatusNames DEF ProperRows
  <2> QED BY <1>2, <2>1, EditAlong
<1> QED BY <1>2, <1>4, <1>5, <1>6 DEF Pick, Commit, Earliest, WaitingJobs

\* The ledger stays, or only the row of the job in hand changes.
LEMMA InHandAlong ==
  ASSUME SendInv, NEW row,
         worker.job \in DOMAIN ledger /\ Proper(ledger[worker.job])
           => Follows(row, ledger[worker.job])
  PROVE  Along([ledger EXCEPT ![worker.job] = row]) /\ Along(ledger)
<1>1. Along(ledger) /\ ProperRows(ledger)
  BY LedgerAlong DEF SendInv, Typed
<1>2. worker.job \in DOMAIN ledger => Follows(row, ledger[worker.job])
  BY <1>1 DEF ProperRows
<1> QED BY <1>1, <1>2, EditAlong

LEMMA PostponeStep == ASSUME SendInv, Postpone PROVE SendInv'
<1>1. Typed /\ Along(ledger)
  BY LedgerAlong DEF SendInv, Typed
<1>2. Quiet /\ worker' = Idle
  BY <1>1 DEF Postpone, Quiet, Typed, process, outside
<1> QED BY <1>2, IdleIs, RestStep

LEMMA StartStep == ASSUME SendInv, Start PROVE SendInv'
<1>1. Typed /\ WorkerTyped /\ WorkerFresh
  BY DEF SendInv
<1> DEFINE row == [ledger[worker.job] EXCEPT !.status = "synthesizing"]
<1>2. ledger' = [ledger EXCEPT ![worker.job] = row]
  BY DEF Start
<1>3. Proper(ledger[worker.job]) => Follows(row, ledger[worker.job])
  BY StartFollows
<1>4. worker.job \in DOMAIN ledger => row.status # "accepted"
  BY <1>1, RowIs DEF Typed, ProperRows, Proper
<1> HIDE DEF row
<1>5. Quiet
  <2>1. Along(ledger')
    BY <1>2, <1>3, InHandAlong
  <2> QED BY <1>1, <2>1 DEF Start, Quiet, Typed, process, outside
<1>6. worker.step = "picked" /\ Moves("synthesizing", worker.todo, worker.output, worker.state)
  BY <1>1, WorkerEdits DEF Start, At
<1>7. \A o \in Output : Pristine(o)'
  BY <1>1, <1>5, <1>6, MovesFields, PristineStays DEF WorkerFresh
<1>8. WorkerFresh'
  BY <1>6, <1>7, MovesFields DEF WorkerFresh
<1>9. worker.job \in DOMAIN ledger' => ledger'[worker.job].status # "accepted"
  BY <1>2, <1>4
<1> QED BY <1>5, <1>6, <1>8, <1>9, MovesFields, GoOn DEF Active

LEMMA SynthesizeStep == ASSUME SendInv, Synthesize PROVE SendInv'
<1>1. Typed /\ WorkerTyped /\ WorkerFresh /\ Along(ledger)
  BY LedgerAlong DEF SendInv, Typed
<1>2. Quiet
  BY <1>1 DEF Synthesize, Quiet, Typed, process, outside
<1>3. PICK step \in {"validating", "failing"} :
        Moves(step, worker.todo, worker.output, worker.state)
  BY <1>1, WorkerEdits DEF Synthesize
<1>4. worker.step = "synthesizing"
  BY DEF Synthesize, At
<1>5. \A o \in Output : Pristine(o)'
  BY <1>1, <1>2, <1>3, <1>4, MovesFields, PristineStays DEF WorkerFresh
<1>6. WorkerFresh'
  BY <1>3, <1>5, MovesFields DEF WorkerFresh
<1> QED BY <1>2, <1>3, <1>4, <1>6, MovesFields, GoOn DEF Active

LEMMA ValidateStep == ASSUME SendInv, Validate PROVE SendInv'
<1>1. Typed /\ WorkerTyped /\ WorkerFresh /\ Along(ledger)
  BY LedgerAlong DEF SendInv, Typed
<1>2. Quiet
  BY <1>1 DEF Validate, Quiet, Typed, process, outside
<1>3. PICK step \in {"sending", "failing"}, todo \in {worker.todo, DOMAIN Job.out} :
        Moves(step, todo, worker.output, worker.state)
  BY <1>1, WorkerEdits DEF Validate
<1>4. worker.step = "validating"
  BY DEF Validate, At
<1>5. \A o \in Output : Pristine(o)'
  BY <1>1, <1>2, <1>3, <1>4, MovesFields, PristineStays DEF WorkerFresh
<1>6. WorkerFresh'
  BY <1>3, <1>5, MovesFields DEF WorkerFresh
<1> QED BY <1>2, <1>3, <1>4, <1>6, MovesFields, GoOn DEF Active

LEMMA ChooseStep == ASSUME SendInv, NEW o \in Output, Choose(o) PROVE SendInv'
<1>1. Typed /\ WorkerTyped /\ WorkerFresh /\ Along(ledger)
  BY LedgerAlong DEF SendInv, Typed
<1>2. Quiet
  BY <1>1 DEF Choose, Quiet, Typed, process, outside
<1>3. worker.step = "sending" /\ o \in worker.todo
  BY DEF Choose, At
<1>4. \A p \in Output \cap worker.todo : Pristine(p)
  BY <1>1, <1>3 DEF WorkerFresh
<1>5. CASE \E state \in {"expired", "failed", "ready"} :
             /\ Moves("recording", worker.todo \ {o}, o, state)
             /\ state = "ready" => o \in Native
  <2>1. PICK state \in {"expired", "failed", "ready"} :
          /\ Moves("recording", worker.todo \ {o}, o, state)
          /\ state = "ready" => o \in Native
    BY <1>5
  <2>2. \A p \in Output \cap worker.todo : Pristine(p)'
    BY <1>2, <1>4, <2>1, MovesFields, PristineStays
  <2>3. state \in Status
    BY StatusNames
  <2>4. WorkerFresh'
    BY <1>3, <2>1, <2>2, <2>3, MovesFields DEF WorkerFresh
  <2> QED BY <1>2, <1>3, <2>1, <2>4, MovesFields, GoOn DEF Active
<1>6. CASE o \notin Native /\ Moves("dispatching", worker.todo \ {o}, o, worker.state)
  <2>1. \A p \in Output \cap worker.todo : Pristine(p)'
    BY <1>2, <1>4, <1>6, MovesFields, PristineStays
  <2>2. sent'[<<worker.job, o>>] = 0
    BY <1>2, <1>3, <1>4 DEF Pristine, Fresh, Quiet
  <2>3. WorkerFresh'
    BY <1>3, <1>6, <2>1, <2>2, MovesFields DEF WorkerFresh
  <2> QED BY <1>2, <1>3, <1>6, <2>3, MovesFields, GoOn DEF Active
<1>7. \A s, x :
        worker' = [[worker EXCEPT !.todo = @ \ {o}, !.output = o]
                     EXCEPT !.step = s, !.state = x]
        => Moves(s, worker.todo \ {o}, o, x)
  BY <1>1 DEF WorkerTyped, Moves
<1>8. worker' = [[worker EXCEPT !.todo = @ \ {o}, !.output = o] EXCEPT !.step = "dispatching"]
      => Moves("dispatching", worker.todo \ {o}, o, worker.state)
  BY <1>1 DEF WorkerTyped, Moves
<1> QED BY <1>5, <1>6, <1>7, <1>8 DEF Choose

LEMMA CommitIntentStep == ASSUME SendInv, CommitIntent PROVE SendInv'
<1>1. Typed /\ WorkerTyped /\ WorkerFresh
  BY DEF SendInv
<1>2. worker.step = "dispatching"
      /\ ledger' = [ledger EXCEPT ![worker.job] =
                      Set(ledger[worker.job], worker.output, "dispatching")]
  BY DEF CommitIntent, At
<1>3. worker.job \in DOMAIN ledger => ledger[worker.job].status # "accepted"
  BY <1>1, <1>2 DEF WorkerTyped, Active
<1>4. Along(ledger')
  BY <1>2, <1>3, InHandAlong, SetFollows, StatusNames
<1>5. Quiet
  BY <1>1, <1>4 DEF CommitIntent, Quiet, Typed, process, outside
<1>6. Moves("publishing", worker.todo, worker.output, worker.state)
  BY <1>1, WorkerEdits DEF CommitIntent
<1>7. \A p \in Output \cap worker.todo : Pristine(p)'
  BY <1>1, <1>2, <1>5, <1>6, MovesFields, PristineStays DEF WorkerFresh
<1>8. WorkerFresh'
  <2>1. worker.output \notin Native /\ sent'[<<worker.job, worker.output>>] = 0
        /\ worker.output \in Output \ worker.todo
    BY <1>1, <1>2, <1>5 DEF WorkerFresh, Quiet
  <2> QED BY <1>6, <1>7, <2>1, MovesFields DEF WorkerFresh
<1> QED BY <1>2, <1>5, <1>6, <1>8, MovesFields, GoOn DEF Active

\* The outcome of a notification, none of which makes the delivery ready.
LEMMA ConcludeStep ==
  ASSUME SendInv, worker.step \in {"publishing", "transmitting", "awaiting"},
         UNCHANGED <<now, process, ledger, issued, outside>>,
         NEW state \in Status \ {"ready"}, Conclude(worker.output, state)
  PROVE  SendInv'
<1>1. Typed /\ WorkerTyped /\ WorkerFresh /\ Along(ledger)
  BY LedgerAlong DEF SendInv, Typed
<1>2. Quiet
  BY <1>1 DEF Quiet, Typed, process, outside
<1>3. Moves("recording", worker.todo, worker.output, state)
  BY <1>1, WorkerEdits
<1>4. \A p \in Output \cap worker.todo : Pristine(p)'
  BY <1>1, <1>2, <1>3, MovesFields, PristineStays DEF WorkerFresh
<1>5. WorkerFresh'
  BY <1>1, <1>3, <1>4, MovesFields DEF WorkerFresh
<1> QED BY <1>2, <1>3, <1>5, MovesFields, GoOn DEF Active

\* The step at which the deadline is checked for the last time.
LEMMA PublishStep == ASSUME SendInv, Publish PROVE SendInv'
<1>1. Typed /\ WorkerTyped /\ WorkerFresh
  BY DEF SendInv
<1>2. worker.step = "publishing" /\ UNCHANGED <<now, process, ledger, issued, clips, outside>>
  BY DEF Publish, At
<1>3. CASE \E state \in {"failed", "expired"} : Conclude(worker.output, state)
  BY <1>2, <1>3, ConcludeStep, StatusNames
<1>4. Quiet
  BY <1>1, <1>2, LedgerAlong DEF Quiet, Typed, process, outside
<1>5. CASE Goto("failing")
  <2>1. Moves("failing", worker.todo, worker.output, worker.state)
    BY <1>1, <1>5, WorkerEdits
  <2>2. WorkerFresh'
    BY <2>1, MovesFields DEF WorkerFresh
  <2> QED BY <1>2, <1>4, <2>1, <2>2, MovesFields, GoOn DEF Active
<1>6. CASE Goto("transmitting")
  <2>1. Moves("transmitting", worker.todo, worker.output, worker.state)
    BY <1>1, <1>6, WorkerEdits
  <2>2. \A p \in Output \cap worker.todo : Pristine(p)'
    BY <1>1, <1>2, <1>4, <2>1, MovesFields, PristineStays DEF WorkerFresh
  <2>3. /\ worker.output \notin Native /\ sent'[<<worker.job, worker.output>>] = 0
        /\ worker.output \in Output \ worker.todo
    BY <1>1, <1>2 DEF WorkerFresh, outside
  <2>4. WorkerFresh'
    BY <2>1, <2>2, <2>3, MovesFields DEF WorkerFresh
  <2> QED BY <1>2, <1>4, <2>1, <2>4, MovesFields, GoOn DEF Active
<1> QED BY <1>3, <1>5, <1>6 DEF Publish

\* The step at which a notification leaves.
LEMMA TransmitStep == ASSUME SendInv, Transmit PROVE SendInv'
<1>1. Typed /\ LedgerFresh /\ WorkerTyped /\ WorkerFresh
  BY DEF SendInv
<1>2. worker.step = "transmitting" /\ UNCHANGED <<now, process, ledger, issued, clips>>
  BY DEF Transmit, At
<1>3. CASE Conclude(worker.output, "uncertain") /\ UNCHANGED outside
  BY <1>2, <1>3, ConcludeStep, StatusNames
<1>5. CASE /\ Goto("awaiting") /\ inflight' = inflight
           /\ sent' = [sent EXCEPT ![<<worker.job, worker.output>>] = @ + 1]
  <2> DEFINE d == <<worker.job, worker.output>>
  <2>1. worker.output \in Output \ worker.todo /\ worker.output \notin Native /\ sent[d] = 0
    BY <1>1, <1>2 DEF WorkerFresh
  <2>2. worker.job \in JobId /\ worker.job <= issued /\ worker.job \in Nat /\ issued \in Nat
    <3>1. worker.job \in 1 .. issued /\ issued \in 0 .. MaxJobs /\ MaxJobs \in Nat
      BY <1>1, <1>2, ConstantsAssumption DEF WorkerTyped, Active, Typed
    <3> QED BY <3>1 DEF JobId
  <2>3. d \in Delivery
    BY <2>1, <2>2 DEF Delivery
  <2>4. sent' \in [Delivery -> {0, 1}] /\ \A e : e # d => sent'[e] = sent[e]
    BY <1>1, <1>5, <2>1, <2>3 DEF Typed
  <2>5. \A i, p : <<i, p>> # d /\ Fresh(i, p) => Fresh(i, p)'
    BY <1>5, <2>4 DEF Fresh
  <2>6. worker.job \in DOMAIN ledger => ledger[worker.job].status # "accepted"
    BY <1>1, <1>2 DEF WorkerTyped, Active
  <2>7. Typed'
    BY <1>1, <1>2, <1>5, <2>4 DEF Typed, ProperRows, process
  <2>8. LedgerFresh'
    <3>1. \A i \in JobId, p \in Native : <<i, p>> \in inflight' => sent'[<<i, p>>] = 0
      BY <1>1, <1>5, <2>1, <2>4 DEF LedgerFresh
    <3>2. \A i \in JobId, p \in Output : i > issued' => Fresh(i, p)'
      <4>1. \A i \in JobId : i > issued => i # worker.job
        BY <2>2
      <4>2. \A i \in JobId, p \in Output : i > issued => <<i, p>> # d /\ Fresh(i, p)
        BY <1>1, <4>1 DEF LedgerFresh
      <4> HIDE DEF d
      <4> QED BY <1>2, <2>5, <4>2
    <3>3. \A i \in DOMAIN ledger', p \in Output : ledger'[i].status = "accepted" => Fresh(i, p)'
      BY <1>1, <1>2, <2>5, <2>6 DEF LedgerFresh
    <3>4. \A i \in DOMAIN ledger' : \A p \in DOMAIN ledger'[i].out :
            p \in Native /\ ledger'[i].out[p] = "ready" => Fresh(i, p)'
      BY <1>1, <1>2, <2>1, <2>5 DEF LedgerFresh
    <3> QED BY <3>1, <3>2, <3>3, <3>4 DEF LedgerFresh, Fresh
  <2>9. Moves("awaiting", worker.todo, worker.output, worker.state)
    BY <1>1, <1>5, WorkerEdits
  <2>10. WorkerTyped'
    BY <1>1, <1>2, <2>9, MovesFields DEF WorkerTyped, Active
  <2>11. \A p \in Output \cap worker.todo : Pristine(p)'
    <3> TAKE p \in Output \cap worker.todo
    <3>1. Pristine(p) /\ <<worker.job, p>> # d
      BY <1>1, <1>2, <2>1 DEF WorkerFresh
    <3>2. worker'.job = worker.job /\ ledger' = ledger
      BY <1>2, <2>9, MovesFields
    <3>3. sent'[<<worker.job, p>>] = sent[<<worker.job, p>>]
      BY <2>4, <3>1
    <3> QED BY <1>5, <3>1, <3>2, <3>3 DEF Pristine, Fresh
  <2>12. WorkerFresh'
    BY <2>1, <2>9, <2>11, MovesFields DEF WorkerFresh
  <2> QED BY <2>7, <2>8, <2>10, <2>12 DEF SendInv
<1> QED BY <1>3, <1>5 DEF Transmit

LEMMA AwaitStep == ASSUME SendInv, Await PROVE SendInv'
<1>1. worker.step = "awaiting" /\ UNCHANGED <<now, process, ledger, issued, outside>>
  BY DEF Await, At
<1>2. \E state \in {"uncertain", "published_unconfirmed", "failed"} :
        Conclude(worker.output, state)
  BY DEF Await
<1> QED BY <1>1, <1>2, ConcludeStep, StatusNames

\* The step at which a delivery becomes ready for its app.
LEMMA RecordStep == ASSUME SendInv, Record PROVE SendInv'
<1>1. Typed /\ LedgerFresh /\ WorkerTyped /\ WorkerFresh
  BY DEF SendInv
<1>2. /\ worker.step = "recording"
      /\ now' = now /\ config' = config /\ issued' = issued
      /\ inflight' = inflight /\ sent' = sent
  BY DEF Record, At, process, outside
<1> DEFINE step == IF worker.todo = {} THEN "closing" ELSE "sending"
           row == Set(ledger[worker.job], worker.output, worker.state)
<1>3. Moves(step, worker.todo, NoOutput, "none") /\ step \in {"closing", "sending"}
  BY <1>1, WorkerEdits DEF Record
<1>4. worker.job \in DOMAIN ledger =>
        Proper(ledger[worker.job]) /\ ledger[worker.job].status # "accepted"
  BY <1>1, <1>2 DEF WorkerTyped, Active, Typed, ProperRows
<1>5. ledger' = ledger \/ ledger' = [ledger EXCEPT ![worker.job] = row]
  BY DEF Record, Job
<1> HIDE DEF step
<1>6. CASE worker.state # "ready" \/ ledger' = ledger
  <2>1. worker.state \in Status
    BY <1>1, <1>2 DEF WorkerFresh
  <2>2. Along(ledger)
    BY <1>1, LedgerAlong DEF Typed
  <2>3. ASSUME worker.state # "ready"
        PROVE  Along([ledger EXCEPT ![worker.job] = row])
    BY <1>4, <2>1, <2>3, InHandAlong, SetFollows
  <2>4. Along(ledger')
    BY <1>5, <1>6, <2>2, <2>3
  <2>5. Quiet
    BY <1>1, <1>2, <2>4 DEF Quiet, Typed
  <2>6. \A p \in Output \cap worker.todo : Pristine(p)'
    BY <1>1, <1>2, <1>3, <2>5, MovesFields, PristineStays DEF WorkerFresh
  <2>7. WorkerFresh'
    BY <1>3, <2>6, MovesFields DEF WorkerFresh
  <2> QED BY <1>2, <1>3, <2>5, <2>7, MovesFields, GoOn DEF Active
<1>7. CASE worker.state = "ready" /\ ledger' = [ledger EXCEPT ![worker.job] = row]
  <2> DEFINE j == worker.job
             o == worker.output
  <2>1. o \in Output \ worker.todo /\ Fresh(j, o)
        /\ \A p \in Output \cap worker.todo : Pristine(p)
    BY <1>1, <1>2, <1>7 DEF WorkerFresh, Pristine
  <2>2. /\ DOMAIN ledger' = DOMAIN ledger
        /\ \A i \in DOMAIN ledger : i # j => ledger'[i] = ledger[i]
    BY <1>7
  <2>3. j \in DOMAIN ledger =>
          /\ Proper(ledger'[j]) /\ ledger'[j].status # "accepted"
          /\ DOMAIN ledger'[j].out = DOMAIN ledger[j].out
          /\ \A p \in DOMAIN ledger'[j].out :
               ledger'[j].out[p] = "ready" => p = o \/ ledger[j].out[p] = "ready"
    BY <1>4, <1>7, ReadyRow
  <2>4. \A i, p : Fresh(i, p) <=> Fresh(i, p)'
    BY <1>2 DEF Fresh
  <2> HIDE DEF row
  <2>5. Typed'
    BY <1>1, <1>2, <2>2, <2>3 DEF Typed, ProperRows
  <2>6. LedgerFresh'
    <3>1. \A i \in JobId, p \in Output : i > issued' => Fresh(i, p)'
      BY <1>1, <1>2, <2>4 DEF LedgerFresh
    <3>2. \A i \in DOMAIN ledger', p \in Output : ledger'[i].status = "accepted" => Fresh(i, p)'
      BY <1>1, <2>2, <2>3, <2>4 DEF LedgerFresh
    <3>3. \A i \in DOMAIN ledger' : \A p \in DOMAIN ledger'[i].out :
            p \in Native /\ ledger'[i].out[p] = "ready" => Fresh(i, p)
      <4> SUFFICES ASSUME NEW i \in DOMAIN ledger', NEW p \in DOMAIN ledger'[i].out,
                          p \in Native, ledger'[i].out[p] = "ready"
                   PROVE  Fresh(i, p)
        OBVIOUS
      <4>1. CASE i = j /\ p = o
        BY <2>1, <4>1
      <4>2. CASE ~(i = j /\ p = o)
        BY <1>1, <2>2, <2>3, <4>2 DEF LedgerFresh
      <4> QED BY <4>1, <4>2
    <3> QED BY <1>1, <1>2, <2>4, <3>1, <3>2, <3>3 DEF LedgerFresh, Fresh
  <2>7. /\ worker'.job = j
        /\ worker'.step \in {"closing", "sending"} /\ worker'.todo = worker.todo
    BY <1>3, MovesFields
  <2>8. WorkerTyped'
    <3>1. j \in 1 .. issued'
      BY <1>1, <1>2 DEF WorkerTyped, Active
    <3>2. j \in DOMAIN ledger' => ledger'[j].status # "accepted"
      BY <2>2, <2>3
    <3> QED BY <1>3, <2>7, <3>1, <3>2, MovesFields DEF WorkerTyped
  <2>9. \A p \in Output \cap worker.todo : Pristine(p)'
    <3> TAKE p \in Output \cap worker.todo
    <3>1. Pristine(p) /\ p # o
      BY <2>1
    <3>2. Fresh(j, p) /\ worker'.job = j
      BY <2>7, <3>1 DEF Pristine
    <3>3. ASSUME j \in DOMAIN ledger', p \in DOMAIN ledger'[j].out
          PROVE  ledger'[j].out[p] # "ready"
      BY <2>2, <2>3, <3>1, <3>3 DEF Pristine
    <3> QED BY <1>2, <3>2, <3>3 DEF Pristine, Fresh
  <2>10. WorkerFresh'
    BY <2>7, <2>9 DEF WorkerFresh
  <2> QED BY <2>5, <2>6, <2>8, <2>10 DEF SendInv
<1> QED BY <1>5, <1>6, <1>7

LEMMA FailStep == ASSUME SendInv, Fail PROVE SendInv'
<1>1. Typed /\ WorkerTyped
  BY DEF SendInv
<1> DEFINE to == IF Overdue THEN "expired" ELSE "failed"
           first == Turn(ledger[worker.job], "accepted", to)
           row == Turn(first, "dispatching", "uncertain")
<1>2. worker.step = "failing" /\ ledger' = [ledger EXCEPT ![worker.job] = row]
  BY DEF Fail, At
<1>3. worker.job \in DOMAIN ledger => ledger[worker.job].status # "accepted"
  BY <1>1, <1>2 DEF WorkerTyped, Active
<1>4. worker.job \in DOMAIN ledger /\ Proper(ledger[worker.job])
      => Follows(row, ledger[worker.job])
  <2> SUFFICES ASSUME worker.job \in DOMAIN ledger, Proper(ledger[worker.job])
               PROVE  Follows(row, ledger[worker.job])
    OBVIOUS
  <2>1. to \in Status \ {"ready"}
    BY StatusNames
  <2> HIDE DEF to
  <2>2. Follows(first, ledger[worker.job])
    BY <1>3, <2>1, TurnAccepted
  <2>3. Proper(first)
    BY <2>2 DEF Follows
  <2> HIDE DEF first
  <2>4. Follows(row, first)
    BY <2>3, TurnFollows, StatusNames
  <2> HIDE DEF row
  <2> QED BY <2>2, <2>4, FollowsOn
<1> HIDE DEF row
<1>5. Quiet
  <2>1. Along(ledger')
    BY <1>2, <1>4, InHandAlong
  <2> QED BY <1>1, <2>1 DEF Fail, Quiet, Typed, process, outside
<1>6. Moves("closing", {}, NoOutput, "none")
  BY DEF Fail, Idle, Moves
<1>7. WorkerFresh'
  BY <1>6, MovesFields DEF WorkerFresh
<1> QED BY <1>2, <1>5, <1>6, <1>7, MovesFields, GoOn DEF Active

LEMMA CloseStep == ASSUME SendInv, Close \/ Die PROVE SendInv'
<1>1. Typed
  BY DEF SendInv
<1>2. Along([ledger EXCEPT ![worker.job] = Refresh(ledger[worker.job])]) /\ Along(ledger)
  BY InHandAlong, RefreshFollows
<1>3. Along(ledger')
  BY <1>2 DEF Close, Die, RollBack
<1>4. CASE Close
  <2>1. Quiet /\ worker' = Idle
    BY <1>1, <1>3, <1>4 DEF Close, Quiet, Typed, process, outside
  <2> QED BY <2>1, IdleIs, RestStep
<1>5. CASE Die
  <2>1. Quiet
    BY <1>1, <1>3, <1>5 DEF Die, Quiet, Typed, outside
  <2>2. worker' = [Idle EXCEPT !.step = "dead"]
    BY <1>5 DEF Die
  <2> QED BY <2>1, <2>2, RestStep
<1> QED BY <1>4, <1>5

-----------------------------------------------------------------------------
(* Deliveries are sent at most once *)

LEMMA SendInvInit == Init => SendInv
<1> SUFFICES ASSUME Init PROVE SendInv
  OBVIOUS
<1>1. DOMAIN ledger = {}
  BY DEF Init
<1>2. worker.step = "waiting"
      /\ worker = [step |-> worker.step, job |-> worker.job, todo |-> worker.todo,
                   output |-> worker.output, state |-> worker.state]
  BY DEF Init, Idle
<1>3. MaxJobs \in Nat /\ Native \subseteq Output
  BY ConstantsAssumption
<1>4. Typed
  BY <1>1, <1>3 DEF Init, Typed, ProperRows
<1>5. LedgerFresh
  BY <1>1, <1>3 DEF Init, LedgerFresh, Fresh, Delivery
<1>6. WorkerTyped /\ WorkerFresh
  BY <1>2 DEF WorkerTyped, WorkerFresh, Active
<1> QED BY <1>4, <1>5, <1>6 DEF SendInv

LEMMA SendInvStep == SendInv /\ [Next]_vars => SendInv'
<1> SUFFICES ASSUME SendInv, [Next]_vars PROVE SendInv'
  OBVIOUS
<1>1. CASE \E c \in Caller, k \in Key, ttl \in Ttl : Accept(c, k, ttl)
  BY <1>1, AcceptStep
<1>2. CASE Look
  BY <1>2, LookStep
<1>3. CASE \E o \in Output : Claim(o)
  BY <1>3, ClaimStep
<1>4. CASE \E o \in Output, j \in JobId :
             Respond(j, o) \/ Drop(j, o) \/ Get(j, o) \/ Fetched(j, o)
  BY <1>4, RespondStep, DropStep, GetStep, FetchedStep
<1>5. CASE \E o \in Output, j \in JobId, status \in AppResult : Report(o, j, status)
  BY <1>5, ReportStep
<1>6. CASE Work \/ Die
  BY <1>6, PickStep, PostponeStep, StartStep, SynthesizeStep, ValidateStep, ChooseStep,
     CommitIntentStep, PublishStep, TransmitStep, AwaitStep, RecordStep, FailStep, CloseStep
     DEF Work
<1>7. CASE Stop \/ Supervise \/ CloseServers \/ Exit \/ Crash \/ Startup \/ Tick
  BY <1>7, ProcessStep
<1>8. CASE UNCHANGED vars
  <2>1. Quiet /\ worker' = worker
    BY <1>8, LedgerAlong DEF SendInv, Typed, Quiet, vars, process, outside
  <2> QED BY <2>1, QuietStep
<1> QED BY <1>1, <1>2, <1>3, <1>4, <1>5, <1>6, <1>7, <1>8 DEF Next

\* For any callers, outputs, configurations, times and numbers of restarts: a clip
\* or a notification leaves at most once for each delivery of a job (service.py:
\* claim consumes a delivery before the response, deliver commits its intent
\* before a packet, and neither recovery nor a sweep makes a delivery ready again).
THEOREM SentAtMostOnce == Spec => []AtMostOnce
<1>1. SendInv => AtMostOnce
  BY DEF SendInv, Typed, AtMostOnce
<1> QED BY <1>1, SendInvInit, SendInvStep, PTL DEF Spec
=============================================================================
