---------------------------- MODULE EventStream ----------------------------
(***************************************************************************)
(* The event stream of the route authority: emit (route-authority/src/     *)
(* lib.rs) numbers and broadcasts an event for every commit, the events    *)
(* handler (route-authority/src/api.rs) forwards them to subscribers, and  *)
(* a subscriber that fell out of the buffer gets a gap event and refetches *)
(* the snapshot.  A target's commits and events happen under its own state *)
(* mutex, so those of one target are ordered and those of two are not: the *)
(* number is drawn in one step, the event sent in a later one.             *)
(*                                                                         *)
(* The consumer is external.  route-authority/README.md asks it to refetch *)
(* the snapshot at a gap.  That it also subscribes before its first        *)
(* snapshot and keeps the newer of two versions is an assumption of this   *)
(* model: a consumer that does neither may stay behind.                    *)
(***************************************************************************)
EXTENDS Integers, Sequences

CONSTANTS
  Target, Reader,
  Capacity,       \* 256 in the code
  MaxEvents       \* bound: after so many ids no section emits another event

ASSUME ConstantsAssumption ==
  /\ Capacity \in Nat \ {0}
  /\ MaxEvents \in Nat

VARIABLES
  version,    \* TargetState.version
  section,    \* where the holder of the target's mutex is
  drawn,      \* the event id drawn in that section
  nextEvent,  \* Authority.next_event
  sent,       \* every event broadcast; the channel retains the last Capacity
  cursor,     \* the position a subscription reads next, 0 without one
  fetching,   \* the targets a reader's snapshot has not visited yet
  view        \* the newest version a reader knows, -1 for none

targetVars == <<version, section, drawn, nextEvent>>
readerVars == <<cursor, fetching, view>>
vars == <<targetVars, sent, readerVars>>

Event == [id : Nat, target : Target, version : Nat]

\* free, then for each event: its id is drawn, it is sent.  A restoration is a
\* second event of the commit before it.
Section == {"free", "commit", "committed", "restore", "restored"}

Nothing == [t \in Target |-> -1]
Newer(v, w) == IF v < w THEN w ELSE v

\* The oldest position the channel retains.
Oldest == Len(sent) - Capacity + 1

TypeOK ==
  /\ version \in [Target -> Nat]
  /\ section \in [Target -> Section]
  /\ drawn \in [Target -> Nat]
  /\ nextEvent \in Nat
  /\ sent \in Seq(Event)
  /\ cursor \in [Reader -> 0 .. Len(sent) + 1]
  /\ fetching \in [Reader -> SUBSET Target]
  /\ view \in [Reader -> [Target -> Nat \cup {-1}]]

Init ==
  /\ version = [t \in Target |-> 0]
  /\ section = [t \in Target |-> "free"]
  /\ drawn = [t \in Target |-> 0]
  /\ nextEvent = 1
  /\ sent = <<>>
  /\ cursor = [r \in Reader |-> 0]
  /\ fetching = [r \in Reader |-> {}]
  /\ view = [r \in Reader |-> Nothing]

-----------------------------------------------------------------------------
(* The targets *)

\* Mutation: the counter is read and written back in two steps.
DrawReadOnly(t) ==
  /\ drawn' = [drawn EXCEPT ![t] = Len(sent) + 1]
  /\ nextEvent' = Len(sent) + 2

\* fetch_add: the id is unique, and drawn before the event is sent.
Draw(t) ==
  /\ drawn' = [drawn EXCEPT ![t] = nextEvent]
  /\ nextEvent' = nextEvent + 1

\* A commit: a request, a snapshot or the worker takes the mutex (or goes on in
\* its section, as an expiry precedes the request that found it).
Commit(t) ==
  /\ section[t] \in {"free", "committed", "restored"}
  /\ nextEvent <= MaxEvents
  /\ version' = [version EXCEPT ![t] = @ + 1]
  /\ section' = [section EXCEPT ![t] = "commit"]
  /\ Draw(t)
  /\ UNCHANGED <<sent, readerVars>>

\* emit_transition: an expiry that restored a lease has a second event.
Restore(t) ==
  /\ section[t] = "committed"
  /\ nextEvent <= MaxEvents
  /\ section' = [section EXCEPT ![t] = "restore"]
  /\ Draw(t)
  /\ UNCHANGED <<version, sent, readerVars>>

Send(t) ==
  /\ section[t] \in {"commit", "restore"}
  /\ sent' = Append(sent, [id |-> drawn[t], target |-> t, version |-> version[t]])
  /\ section' = [section EXCEPT ![t] = IF @ = "commit" THEN "committed" ELSE "restored"]
  /\ UNCHANGED <<version, drawn, nextEvent, readerVars>>

\* The mutex is released.
Leave(t) ==
  /\ section[t] \in {"committed", "restored"}
  /\ section' = [section EXCEPT ![t] = "free"]
  /\ UNCHANGED <<version, drawn, nextEvent, sent, readerVars>>

-----------------------------------------------------------------------------
(* The subscribers *)

\* Mutation: the reader subscribes and takes no snapshot.
OpenOnly(r) ==
  /\ cursor[r] = 0
  /\ cursor' = [cursor EXCEPT ![r] = Len(sent) + 1]
  /\ UNCHANGED <<targetVars, sent, fetching, view>>

\* The events handler subscribes; the reader then asks for the snapshot.
Open(r) ==
  /\ cursor[r] = 0
  /\ cursor' = [cursor EXCEPT ![r] = Len(sent) + 1]
  /\ fetching' = [fetching EXCEPT ![r] = Target]
  /\ UNCHANGED <<targetVars, sent, view>>

\* snapshot_all visits one target after another, each under its own mutex.
Fetch(r, t) ==
  /\ t \in fetching[r]
  /\ section[t] = "free"
  /\ fetching' = [fetching EXCEPT ![r] = @ \ {t}]
  /\ view' = [view EXCEPT ![r][t] = Newer(@, version[t])]
  /\ UNCHANGED <<targetVars, sent, cursor>>

Lagging(r) == cursor[r] < Oldest

\* Mutation: a lagging receiver resumes and says nothing.
ReceiveGapSilent(r) ==
  /\ cursor[r] # 0 /\ Lagging(r)
  /\ cursor' = [cursor EXCEPT ![r] = Oldest]
  /\ UNCHANGED <<targetVars, sent, fetching, view>>

\* Mutation: a lagging receiver is put behind the newest event.
ReceiveGapPastEnd(r) ==
  /\ cursor[r] # 0 /\ Lagging(r)
  /\ cursor' = [cursor EXCEPT ![r] = Oldest + Capacity + 1]
  /\ fetching' = [fetching EXCEPT ![r] = Target]
  /\ UNCHANGED <<targetVars, sent, view>>

\* Lagged: the receiver resumes at the oldest event retained, and a gap event
\* makes the reader fetch everything again.
ReceiveGap(r) ==
  /\ cursor[r] # 0 /\ Lagging(r)
  /\ cursor' = [cursor EXCEPT ![r] = Oldest]
  /\ fetching' = [fetching EXCEPT ![r] = Target]
  /\ UNCHANGED <<targetVars, sent, view>>

\* Mutation: the reader believes every event, also one older than its snapshot.
ReceiveEventBlindly(r) ==
  /\ cursor[r] # 0 /\ ~Lagging(r) /\ cursor[r] <= Len(sent)
  /\ LET e == sent[cursor[r]] IN view' = [view EXCEPT ![r][e.target] = e.version]
  /\ cursor' = [cursor EXCEPT ![r] = @ + 1]
  /\ UNCHANGED <<targetVars, sent, fetching>>

ReceiveEvent(r) ==
  /\ cursor[r] # 0 /\ ~Lagging(r) /\ cursor[r] <= Len(sent)
  /\ LET e == sent[cursor[r]] IN view' = [view EXCEPT ![r][e.target] = Newer(@, e.version)]
  /\ cursor' = [cursor EXCEPT ![r] = @ + 1]
  /\ UNCHANGED <<targetVars, sent, fetching>>

\* The client goes away, or the stream ends at shutdown.
Close(r) ==
  /\ cursor[r] # 0
  /\ cursor' = [cursor EXCEPT ![r] = 0]
  /\ fetching' = [fetching EXCEPT ![r] = {}]
  /\ view' = [view EXCEPT ![r] = Nothing]
  /\ UNCHANGED <<targetVars, sent>>

-----------------------------------------------------------------------------
Emit(t) == Restore(t) \/ Send(t) \/ Leave(t)
Receive(r) == ReceiveGap(r) \/ ReceiveEvent(r)

Next ==
  \/ \E t \in Target : Commit(t) \/ Emit(t)
  \/ \E r \in Reader : Open(r) \/ Receive(r) \/ Close(r)
  \/ \E r \in Reader, t \in Target : Fetch(r, t)

Spec == Init /\ [][Next]_vars

\* A section is left (it awaits nothing), a connected reader keeps reading, and
\* its snapshot request is served.
Fairness ==
  /\ \A t \in Target : WF_vars(Send(t)) /\ WF_vars(Leave(t))
  /\ \A r \in Reader : WF_vars(Receive(r)) /\ \A t \in Target : SF_vars(Fetch(r, t))

FairSpec == Spec /\ Fairness

-----------------------------------------------------------------------------
(* Properties *)

\* Ids name events: no two events share one, and those of one target are sent in
\* the order of their ids and of their versions, although ids are drawn before the
\* events are sent and the targets do not wait for each other.
EventsInOrder ==
  \A i, j \in DOMAIN sent : i < j =>
    /\ sent[i].id # sent[j].id
    /\ sent[i].target = sent[j].target =>
         /\ sent[i].id < sent[j].id
         /\ sent[i].version <= sent[j].version

\* Whenever a connected reader of the assumed kind knows an older version of a
\* target than the current one, something will tell it: its snapshot has yet to visit the target,
\* a gap comes next, or the event of the current version is unsent or unread and
\* still retained.
Announced(r, t) ==
  \/ t \in fetching[r]
  \/ Lagging(r)
  \/ section[t] = "commit"
  \/ \E p \in cursor[r] .. Len(sent) :
       sent[p].target = t /\ sent[p].version = version[t]

NeverSilentlyStale ==
  \A r \in Reader, t \in Target :
    cursor[r] # 0 /\ view[r][t] < version[t] => Announced(r, t)

\* The stream with its gaps and snapshots keeps the promise of StateFeed: what a
\* reader knows only grows, is never ahead, and catches up.
Joined == {r \in Reader : cursor[r] # 0}
Feed == INSTANCE StateFeed WITH joined <- Joined
ImplementsFeed == Feed!FairSpec
=============================================================================
