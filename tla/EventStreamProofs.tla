-------------------------- MODULE EventStreamProofs -------------------------
(***************************************************************************)
(* Theorems about the event stream, for any targets, readers and buffer    *)
(* size and any number of events: variables keep their types, ids order    *)
(* the events of a target, a reader that is behind has been or will be     *)
(* told, and what readers know moves as StateFeed allows.                  *)
(***************************************************************************)
EXTENDS EventStream, TLAPS

Pending(t) == section[t] \in {"commit", "restore"}

\* Ids come from a counter that stays ahead of them; the ids drawn and not yet
\* sent are new, and higher than all that their target has sent.
SentInv ==
  \A i \in DOMAIN sent : /\ sent[i].id < nextEvent
                         /\ sent[i].version <= version[sent[i].target]

DrawnInv ==
  /\ \A t \in Target : Pending(t) => drawn[t] < nextEvent
  /\ \A t \in Target : Pending(t) =>
       \A i \in DOMAIN sent : /\ sent[i].id # drawn[t]
                              /\ sent[i].target = t => sent[i].id < drawn[t]
  /\ \A t, u \in Target : Pending(t) /\ Pending(u) /\ t # u => drawn[t] # drawn[u]

IdsInv == SentInv /\ DrawnInv

\* Nobody knows more than there is, and nobody who left knows or fetches anything.
ViewInv ==
  \A r \in Reader : /\ \A t \in Target : view[r][t] <= version[t]
                    /\ cursor[r] = 0 => view[r] = Nothing /\ fetching[r] = {}

IInv == TypeOK /\ IdsInv /\ EventsInOrder /\ ViewInv /\ NeverSilentlyStale

\* Initially nothing was sent and nobody is connected.
LEMMA InitIInv == Init => IInv
<1> SUFFICES ASSUME Init PROVE IInv
  OBVIOUS
<1>1. TypeOK
  BY DEF Init, TypeOK, Section, Nothing, Event
<1>2. IdsInv /\ EventsInOrder /\ ViewInv /\ NeverSilentlyStale
  BY DEF Init, IdsInv, SentInv, DrawnInv, Pending, EventsInOrder, ViewInv, NeverSilentlyStale, Nothing
<1> QED BY <1>1, <1>2 DEF IInv

\* Appending the drawn event to what was sent leaves the rest in its place.
LEMMA SendAppends ==
  ASSUME TypeOK, NEW t \in Target, Send(t)
  PROVE  LET e == [id |-> drawn[t], target |-> t, version |-> version[t]]
         IN  /\ e \in Event
             /\ sent' = Append(sent, e) /\ sent' \in Seq(Event)
             /\ Len(sent') = Len(sent) + 1
             /\ DOMAIN sent = 1 .. Len(sent) /\ DOMAIN sent' = 1 .. Len(sent) + 1
             /\ sent'[Len(sent) + 1] = e
             /\ \A i \in 1 .. Len(sent) : sent'[i] = sent[i]
<1> DEFINE e == [id |-> drawn[t], target |-> t, version |-> version[t]]
<1>1. e \in Event
  BY DEF TypeOK, Event
<1>2. sent \in Seq(Event) /\ sent' = Append(sent, e)
  BY DEF TypeOK, Send
<1> HIDE DEF e
<1>3. /\ sent' \in Seq(Event) /\ Len(sent') = Len(sent) + 1
      /\ sent'[Len(sent) + 1] = e
      /\ \A i \in 1 .. Len(sent) : sent'[i] = sent[i]
  BY <1>1, <1>2
<1>4. DOMAIN sent = 1 .. Len(sent) /\ DOMAIN sent' = 1 .. Len(sent) + 1
  BY <1>2, <1>3
<1> QED BY <1>1, <1>2, <1>3, <1>4 DEF e

\* An event that was read, or is there to be read, is one.
LEMMA EventTypes ==
  ASSUME TypeOK
  PROVE  /\ Len(sent) \in Nat
         /\ DOMAIN sent = 1 .. Len(sent)
         /\ \A i \in DOMAIN sent : /\ sent[i] \in Event
                                   /\ sent[i].id \in Nat
                                   /\ sent[i].target \in Target
                                   /\ sent[i].version \in Nat
<1>1. sent \in Seq(Event)
  BY DEF TypeOK
<1>2. Len(sent) \in Nat /\ DOMAIN sent = 1 .. Len(sent) /\ \A i \in DOMAIN sent : sent[i] \in Event
  BY <1>1
<1> QED BY <1>2 DEF Event

\* Every step keeps the variables in their types.
LEMMA NextTypeOK == TypeOK /\ [Next]_vars => TypeOK'
<1> SUFFICES ASSUME TypeOK, [Next]_vars PROVE TypeOK'
  OBVIOUS
<1> USE ConstantsAssumption DEF TypeOK
<1>1. ASSUME NEW t \in Target, Commit(t) PROVE TypeOK'
  BY <1>1 DEF Commit, Draw, Section, readerVars
<1>2. ASSUME NEW t \in Target, Restore(t) PROVE TypeOK'
  BY <1>2 DEF Restore, Draw, Section, readerVars
<1>3. ASSUME NEW t \in Target, Send(t) PROVE TypeOK'
  <2>1. sent' \in Seq(Event) /\ Len(sent') = Len(sent) + 1 /\ Len(sent) \in Nat
    BY <1>3, SendAppends, EventTypes
  <2>2. cursor' \in [Reader -> 0 .. Len(sent') + 1]
    BY <1>3, <2>1 DEF Send, readerVars
  <2>3. section' \in [Target -> Section]
    BY <1>3 DEF Send, Section
  <2> QED BY <1>3, <2>1, <2>2, <2>3 DEF Send, readerVars
<1>4. ASSUME NEW t \in Target, Leave(t) PROVE TypeOK'
  BY <1>4 DEF Leave, Section, readerVars
<1>5. ASSUME NEW r \in Reader, Open(r) PROVE TypeOK'
  BY <1>5, EventTypes DEF Open, targetVars
<1>6. ASSUME NEW r \in Reader, ReceiveGap(r) PROVE TypeOK'
  <2>1. Oldest \in 0 .. Len(sent) + 1
    BY <1>6, EventTypes DEF ReceiveGap, Lagging, Oldest
  <2> QED BY <1>6, <2>1 DEF ReceiveGap, targetVars
<1>7. ASSUME NEW r \in Reader, ReceiveEvent(r) PROVE TypeOK'
  <2>1. cursor[r] \in DOMAIN sent /\ cursor[r] + 1 \in 0 .. Len(sent) + 1
    BY <1>7, EventTypes DEF ReceiveEvent
  <2>2. sent[cursor[r]].target \in Target /\ sent[cursor[r]].version \in Nat
    BY <2>1, EventTypes
  <2>3. view' \in [Reader -> [Target -> Nat \cup {-1}]]
    BY <1>7, <2>2 DEF ReceiveEvent, Newer
  <2> QED BY <1>7, <2>1, <2>3 DEF ReceiveEvent, targetVars
<1>8. ASSUME NEW r \in Reader, Close(r) PROVE TypeOK'
  BY <1>8, EventTypes DEF Close, targetVars, Nothing
<1>9. ASSUME NEW r \in Reader, NEW t \in Target, Fetch(r, t) PROVE TypeOK'
  BY <1>9 DEF Fetch, targetVars, Newer
<1>10. CASE UNCHANGED vars
  BY <1>10 DEF vars, targetVars, readerVars
<1> QED BY <1>1, <1>2, <1>3, <1>4, <1>5, <1>6, <1>7, <1>8, <1>9, <1>10 DEF Next, Emit, Receive

\* No version goes back.
LEMMA VersionsGrow ==
  ASSUME TypeOK, NEW t \in Target, Commit(t) \/ Emit(t), NEW u \in Target
  PROVE  version[u] \in Nat /\ version'[u] \in Nat /\ version[u] <= version'[u]
<1>1. version \in [Target -> Nat]
  BY DEF TypeOK
<1>2. CASE Commit(t)
  <2>1. version' = [version EXCEPT ![t] = @ + 1]
    BY <1>2 DEF Commit
  <2> QED BY <1>1, <2>1
<1>3. CASE Emit(t)
  <2>1. version' = version
    BY <1>3 DEF Emit, Restore, Send, Leave
  <2> QED BY <1>1, <2>1
<1> QED BY <1>2, <1>3

\* No step breaks the order of ids or of a target's events.
LEMMA NextIds ==
  ASSUME TypeOK, IdsInv, EventsInOrder, [Next]_vars
  PROVE  IdsInv' /\ EventsInOrder'
<1>0. Len(sent) \in Nat /\ DOMAIN sent = 1 .. Len(sent)
  BY EventTypes
<1>00. /\ nextEvent \in Nat /\ section \in [Target -> Section] /\ drawn \in [Target -> Nat]
       /\ \A t \in Target : drawn[t] \in Nat /\ version[t] \in Nat
  BY DEF TypeOK
<1>1. ASSUME NEW t \in Target, Commit(t) \/ Restore(t) PROVE IdsInv' /\ EventsInOrder'
  <2>1. /\ nextEvent' = nextEvent + 1 /\ drawn' = [drawn EXCEPT ![t] = nextEvent]
        /\ sent' = sent
        /\ \A u \in Target \ {t} : section'[u] = section[u]
    BY <1>00, <1>1 DEF Commit, Restore, Draw
  <2>0. \A u \in Target : version[u] \in Nat /\ version'[u] \in Nat /\ version[u] <= version'[u]
    BY <1>1, VersionsGrow DEF Emit
  <2>2. \A i \in DOMAIN sent : sent[i].id \in Nat /\ sent[i].version \in Nat /\ sent[i].target \in Target
    BY EventTypes
  <2>3. \A i \in DOMAIN sent : /\ sent[i].id < nextEvent + 1
                               /\ sent[i].version <= version'[sent[i].target]
    BY <1>00, <2>0, <2>2 DEF IdsInv, SentInv
  <2>4. \A u \in Target \ {t} : Pending(u)' => Pending(u)
    BY <2>1 DEF Pending
  <2>5. \A u \in Target \ {t} : drawn'[u] = drawn[u] /\ drawn'[t] = nextEvent
    BY <1>00, <2>1
  <2>6. IdsInv'
    BY <1>00, <2>1, <2>2, <2>3, <2>4, <2>5 DEF IdsInv, SentInv, DrawnInv
  <2> QED BY <2>1, <2>6 DEF EventsInOrder
<1>2. ASSUME NEW t \in Target, Send(t) PROVE IdsInv' /\ EventsInOrder'
  <2> DEFINE e == [id |-> drawn[t], target |-> t, version |-> version[t]]
  <2>1. /\ DOMAIN sent' = 1 .. Len(sent) + 1
        /\ sent'[Len(sent) + 1] = e
        /\ \A i \in 1 .. Len(sent) : sent'[i] = sent[i]
    BY <1>2, SendAppends
  <2>2. /\ Pending(t) /\ version' = version /\ drawn' = drawn /\ nextEvent' = nextEvent
        /\ \A u \in Target : Pending(u)' <=> Pending(u) /\ u # t
    BY <1>00, <1>2 DEF Send, Pending
  <2>3. e.id = drawn[t] /\ e.target = t /\ e.version = version[t]
    OBVIOUS
  <2> HIDE DEF e
  <2>4. \A i \in DOMAIN sent : sent[i].id \in Nat /\ sent[i].version \in Nat /\ sent[i].target \in Target
    BY EventTypes
  <2>5. /\ e.id < nextEvent
        /\ \A i \in DOMAIN sent : sent[i].id # e.id /\ (sent[i].target = t => sent[i].id < e.id)
        /\ \A i \in DOMAIN sent : sent[i].target = t => sent[i].version <= e.version
        /\ \A u \in Target \ {t} : Pending(u) => e.id # drawn[u]
    BY <2>2, <2>3 DEF IdsInv, SentInv, DrawnInv
  <2>6. \A i \in DOMAIN sent' : /\ sent'[i].id < nextEvent'
                                /\ sent'[i].version <= version'[sent'[i].target]
    <3>1. e.version <= version[t]
      BY <1>00, <2>3
    <3>2. \A i \in DOMAIN sent : /\ sent[i].id < nextEvent
                                 /\ sent[i].version <= version[sent[i].target]
      BY DEF IdsInv, SentInv
    <3> QED BY <1>0, <2>1, <2>2, <2>3, <2>5, <3>1, <3>2
  <2>7. \A u \in Target : Pending(u)' => drawn'[u] < nextEvent'
    BY <2>2 DEF IdsInv, DrawnInv
  <2>8. \A u \in Target : Pending(u)' =>
          \A i \in DOMAIN sent' : /\ sent'[i].id # drawn'[u]
                                  /\ sent'[i].target = u => sent'[i].id < drawn'[u]
    <3> TAKE u \in Target
    <3> HAVE Pending(u)'
    <3> TAKE i \in DOMAIN sent'
    <3>1. Pending(u) /\ u # t
      BY <2>2
    <3>2. drawn'[u] = drawn[u] /\ e.id # drawn[u] /\ e.target # u
      BY <2>2, <2>3, <2>5, <3>1
    <3>3. CASE i = Len(sent) + 1
      BY <2>1, <3>2, <3>3
    <3>4. CASE i \in DOMAIN sent
      BY <1>0, <2>1, <3>1, <3>2, <3>4 DEF IdsInv, DrawnInv
    <3> QED BY <1>0, <2>1, <3>3, <3>4
  <2>9. \A u, v \in Target : Pending(u)' /\ Pending(v)' /\ u # v => drawn'[u] # drawn'[v]
    BY <2>2 DEF IdsInv, DrawnInv
  <2>10. IdsInv'
    <3>1. SentInv'
      BY <2>6 DEF SentInv
    <3>2. DrawnInv'
      BY <2>7, <2>8, <2>9 DEF DrawnInv
    <3> QED BY <3>1, <3>2 DEF IdsInv
  <2>11. ASSUME NEW i \in DOMAIN sent', NEW j \in DOMAIN sent', i < j
         PROVE  /\ sent'[i].id # sent'[j].id
                /\ sent'[i].target = sent'[j].target =>
                     /\ sent'[i].id < sent'[j].id
                     /\ sent'[i].version <= sent'[j].version
    <3>1. i \in DOMAIN sent /\ sent'[i] = sent[i]
      BY <1>0, <2>1, <2>11
    <3>2. CASE j = Len(sent) + 1
      BY <2>1, <2>3, <2>5, <3>1, <3>2
    <3>3. CASE j # Len(sent) + 1
      <4>1. j \in DOMAIN sent /\ sent'[j] = sent[j]
        BY <1>0, <2>1, <3>3
      <4> QED BY <2>11, <3>1, <4>1 DEF EventsInOrder
    <3> QED BY <3>2, <3>3
  <2> QED BY <2>10, <2>11 DEF EventsInOrder
<1>3. ASSUME NEW t \in Target, Leave(t) PROVE IdsInv' /\ EventsInOrder'
  <2>1. \A u \in Target : Pending(u)' => Pending(u)
    BY <1>3 DEF Leave, Pending
  <2> QED BY <1>3, <2>1 DEF Leave, IdsInv, SentInv, DrawnInv, EventsInOrder
<1>4. CASE UNCHANGED <<targetVars, sent>>
  BY <1>4 DEF targetVars, IdsInv, SentInv, DrawnInv, EventsInOrder, Pending
<1> QED BY <1>1, <1>2, <1>3, <1>4
        DEF Next, Emit, Receive, Open, Fetch, ReceiveGap, ReceiveEvent, Close, vars

\* No step makes a reader know more than there is.
LEMMA NextView ==
  ASSUME TypeOK, IdsInv, ViewInv, [Next]_vars
  PROVE  ViewInv'
<1> USE DEF TypeOK
<1>1. ASSUME NEW t \in Target, Commit(t) \/ Emit(t) PROVE ViewInv'
  <2>1. cursor' = cursor /\ fetching' = fetching /\ view' = view
    BY <1>1 DEF Commit, Emit, Restore, Send, Leave, readerVars
  <2>2. \A u \in Target : /\ version[u] \in Nat /\ version'[u] \in Nat
                           /\ version[u] <= version'[u]
    BY <1>1, VersionsGrow
  <2>3. \A r \in Reader, u \in Target : view[r][u] \in Int
    OBVIOUS
  <2> QED BY <2>1, <2>2, <2>3 DEF ViewInv
<1>2. ASSUME NEW r \in Reader, Open(r) PROVE ViewInv'
  BY <1>2 DEF Open, ViewInv, targetVars
<1>3. ASSUME NEW r \in Reader, ReceiveGap(r) PROVE ViewInv'
  <2>1. Oldest # 0
    BY <1>3, EventTypes DEF ReceiveGap, Lagging, Oldest
  <2> QED BY <1>3, <2>1 DEF ReceiveGap, ViewInv, targetVars
<1>4. ASSUME NEW r \in Reader, ReceiveEvent(r) PROVE ViewInv'
  <2>1. cursor[r] \in DOMAIN sent
    BY <1>4, EventTypes DEF ReceiveEvent
  <2>2. /\ sent[cursor[r]].target \in Target /\ sent[cursor[r]].version \in Nat
        /\ sent[cursor[r]].version <= version[sent[cursor[r]].target]
    BY <2>1, EventTypes DEF IdsInv, SentInv
  <2>3. cursor'[r] # 0 /\ \A q \in Reader \ {r} : cursor'[q] = cursor[q] /\ view'[q] = view[q]
    BY <1>4 DEF ReceiveEvent
  <2>4. \A t \in Target : view'[r][t] <= version[t]
    BY <1>4, <2>2 DEF ReceiveEvent, Newer, ViewInv
  <2> QED BY <1>4, <2>3, <2>4 DEF ReceiveEvent, ViewInv, targetVars
<1>5. ASSUME NEW r \in Reader, Close(r) PROVE ViewInv'
  BY <1>5 DEF Close, ViewInv, targetVars, Nothing
<1>6. ASSUME NEW r \in Reader, NEW t \in Target, Fetch(r, t) PROVE ViewInv'
  <2>1. cursor[r] # 0
    BY <1>6 DEF Fetch, ViewInv
  <2> QED BY <1>6, <2>1 DEF Fetch, ViewInv, targetVars, Newer
<1>7. CASE UNCHANGED vars
  BY <1>7 DEF vars, targetVars, readerVars, ViewInv
<1> QED BY <1>1, <1>2, <1>3, <1>4, <1>5, <1>6, <1>7 DEF Next, Receive

\* Every step keeps the promise that a reader who is behind will be told.
LEMMA NextNeverSilent ==
  ASSUME IInv, [Next]_vars
  PROVE  NeverSilentlyStale'
<1> USE DEF IInv, TypeOK
<1>0. Len(sent) \in Nat /\ DOMAIN sent = 1 .. Len(sent)
  BY EventTypes
<1> SUFFICES ASSUME NEW r \in Reader, NEW t \in Target, cursor'[r] # 0, view'[r][t] < version'[t]
             PROVE  Announced(r, t)'
  BY DEF NeverSilentlyStale
<1>1. ASSUME NEW u \in Target, Commit(u) PROVE Announced(r, t)'
  <2>1. CASE u = t
    BY <1>1, <2>1 DEF Commit, Announced
  <2>2. CASE u # t
    <3>1. Announced(r, t)
      BY <1>1, <2>2 DEF Commit, readerVars, NeverSilentlyStale
    <3> QED BY <1>1, <2>2, <3>1 DEF Commit, readerVars, Announced, Lagging, Oldest
  <2> QED BY <2>1, <2>2
<1>2. ASSUME NEW u \in Target, Restore(u) \/ Leave(u) PROVE Announced(r, t)'
  <2>1. Announced(r, t)
    BY <1>2 DEF Restore, Leave, readerVars, NeverSilentlyStale
  <2> QED BY <1>2, <2>1 DEF Restore, Leave, readerVars, Announced, Lagging, Oldest
<1>3. ASSUME NEW u \in Target, Send(u) PROVE Announced(r, t)'
  <2> DEFINE e == [id |-> drawn[u], target |-> u, version |-> version[u]]
  <2>1. /\ Len(sent') = Len(sent) + 1 /\ sent'[Len(sent) + 1] = e
        /\ \A i \in 1 .. Len(sent) : sent'[i] = sent[i]
    BY <1>3, SendAppends
  <2>2. /\ cursor' = cursor /\ fetching' = fetching /\ view' = view /\ version' = version
        /\ cursor[r] \in 1 .. Len(sent) + 1
    BY <1>0, <1>3 DEF Send, readerVars
  <2>3. e.target = u /\ e.version = version[u]
    OBVIOUS
  <2> HIDE DEF e
  <2>4. Announced(r, t)
    BY <2>2 DEF NeverSilentlyStale
  <2>5. CASE t \in fetching[r] \/ Lagging(r)
    <3>1. Lagging(r) => Lagging(r)'
      BY <1>0, <2>1, <2>2, ConstantsAssumption DEF Lagging, Oldest
    <3> QED BY <2>2, <2>5, <3>1 DEF Announced
  <2>6. CASE section[t] = "commit"
    <3>1. CASE t = u
      <4>1. Len(sent) + 1 \in cursor'[r] .. Len(sent')
        BY <1>0, <2>1, <2>2
      <4>2. sent'[Len(sent) + 1].target = t /\ sent'[Len(sent) + 1].version = version'[t]
        BY <2>1, <2>2, <2>3, <3>1
      <4> QED BY <4>1, <4>2 DEF Announced
    <3>2. CASE t # u
      BY <1>3, <2>6, <3>2 DEF Send, Announced
    <3> QED BY <3>1, <3>2
  <2>7. ASSUME NEW p \in cursor[r] .. Len(sent), sent[p].target = t, sent[p].version = version[t]
        PROVE  Announced(r, t)'
    <3>1. p \in cursor'[r] .. Len(sent') /\ sent'[p] = sent[p]
      BY <1>0, <2>1, <2>2
    <3> QED BY <2>2, <2>7, <3>1 DEF Announced
  <2> QED BY <2>4, <2>5, <2>6, <2>7 DEF Announced
<1>4. ASSUME NEW q \in Reader, Open(q) \/ ReceiveGap(q) \/ Close(q) PROVE Announced(r, t)'
  <2>1. CASE q = r
    BY <1>4, <2>1 DEF Open, ReceiveGap, Close, Announced
  <2>2. CASE q # r
    <3>1. /\ cursor'[r] = cursor[r] /\ fetching'[r] = fetching[r] /\ view'[r] = view[r]
          /\ version' = version /\ section' = section /\ sent' = sent
      BY <1>4, <2>2 DEF Open, ReceiveGap, Close, targetVars
    <3>2. Announced(r, t)
      BY <3>1 DEF NeverSilentlyStale
    <3> QED BY <3>1, <3>2 DEF Announced, Lagging, Oldest
  <2> QED BY <2>1, <2>2
<1>5. ASSUME NEW q \in Reader, ReceiveEvent(q) PROVE Announced(r, t)'
  <2>1. version' = version /\ section' = section /\ sent' = sent /\ fetching' = fetching
    BY <1>5 DEF ReceiveEvent, targetVars
  <2>2. cursor[q] \in DOMAIN sent
    BY <1>0, <1>5 DEF ReceiveEvent
  <2>3. sent[cursor[q]].target \in Target /\ sent[cursor[q]].version \in Nat
    BY <2>2, EventTypes
  <2>4. cursor[r] # 0 /\ view[r][t] < version[t]
    BY <1>5, <2>1, <2>2, <2>3, SMTT(20) DEF ReceiveEvent, Newer
  <2>5. Announced(r, t)
    BY <2>4 DEF NeverSilentlyStale
  <2>6. CASE t \in fetching[r] \/ section[t] = "commit"
    BY <2>1, <2>6 DEF Announced
  <2>7. CASE Lagging(r)
    <3>1. cursor'[r] = cursor[r]
      BY <1>5, <2>7 DEF ReceiveEvent
    <3> QED BY <2>1, <2>7, <3>1 DEF Announced, Lagging, Oldest
  <2>8. ASSUME NEW p \in cursor[r] .. Len(sent), sent[p].target = t, sent[p].version = version[t]
        PROVE  Announced(r, t)'
    <3>1. q = r => p # cursor[r]
      BY <1>5, <2>1, <2>3, <2>8 DEF ReceiveEvent, Newer
    <3>2. p \in cursor'[r] .. Len(sent)
      BY <1>0, <1>5, <3>1 DEF ReceiveEvent
    <3> QED BY <2>1, <2>8, <3>2 DEF Announced
  <2> QED BY <2>5, <2>6, <2>7, <2>8 DEF Announced
<1>6. ASSUME NEW q \in Reader, NEW u \in Target, Fetch(q, u) PROVE Announced(r, t)'
  <2>1. /\ cursor' = cursor /\ version' = version /\ section' = section /\ sent' = sent
    BY <1>6 DEF Fetch, targetVars
  <2>2. q # r \/ u # t
    BY <1>6, <2>1 DEF Fetch, Newer
  <2>3. (t \in fetching'[r] <=> t \in fetching[r]) /\ view'[r][t] = view[r][t]
    BY <1>6, <2>2 DEF Fetch
  <2>4. Announced(r, t)
    BY <2>1, <2>3 DEF NeverSilentlyStale
  <2> QED BY <2>1, <2>3, <2>4 DEF Announced, Lagging, Oldest
<1>7. CASE UNCHANGED vars
  BY <1>7 DEF vars, targetVars, readerVars, NeverSilentlyStale, Announced, Lagging, Oldest
<1> QED BY <1>1, <1>2, <1>3, <1>4, <1>5, <1>6, <1>7 DEF Next, Emit, Receive

\* The invariant is inductive.
LEMMA Inductive == Spec => []IInv
<1>1. IInv /\ [Next]_vars => IInv'
  BY NextTypeOK, NextIds, NextView, NextNeverSilent DEF IInv
<1> QED BY InitIInv, <1>1, PTL DEF Spec

\* Type correctness of lock sections, channel, subscriptions and readers.
THEOREM TypeCorrect == Spec => []TypeOK
BY Inductive, PTL DEF IInv

\* Ids are unique and order the events and versions of each target, however the
\* lock sections of emit and fetch_add interleave.
THEOREM IdsOrderEvents == Spec => []EventsInOrder
BY Inductive, PTL DEF IInv

\* A connected reader is never behind without something on its way that tells it,
\* whatever the size of the buffer.
THEOREM StaleReadersAreTold == Spec => []NeverSilentlyStale
BY Inductive, PTL DEF IInv

\* Every step of the stream is one that StateFeed allows, or none.
LEMMA StepRefines ==
  ASSUME IInv, [Next]_vars
  PROVE  [Feed!Next]_Feed!vars
<1> USE DEF IInv, TypeOK
<1> DEFINE same == version' = version /\ Joined' = Joined /\ view' = view
<1>0. same => UNCHANGED Feed!vars
  BY DEF Feed!vars
<1>1. ASSUME NEW t \in Target, Commit(t) PROVE Feed!Change(t)
  BY <1>1 DEF Commit, readerVars, Feed!Change, Joined
<1>2. ASSUME NEW t \in Target, Emit(t) PROVE same
  BY <1>2 DEF Emit, Restore, Send, Leave, readerVars, Joined
<1>3. ASSUME NEW r \in Reader, Open(r) PROVE Feed!Join(r)
  <2>1. Joined' = Joined \cup {r}
    <3>1. Len(sent) + 1 # 0
      BY EventTypes
    <3> QED BY <1>3, <3>1 DEF Open, Joined
  <2>2. view' = [view EXCEPT ![r] = Nothing]
    BY <1>3 DEF Open, ViewInv
  <2> QED BY <1>3, <2>1, <2>2 DEF Open, targetVars, Feed!Join, Feed!Nothing, Nothing
<1>4. ASSUME NEW r \in Reader, ReceiveGap(r) PROVE same
  <2>1. Oldest # 0
    BY <1>4, EventTypes, ConstantsAssumption DEF ReceiveGap, Lagging, Oldest
  <2> QED BY <1>4, <2>1 DEF ReceiveGap, targetVars, Joined
<1>5. ASSUME NEW r \in Reader, NEW t \in Target, NEW v \in Nat, v <= version[t],
             r \in Joined, Joined' = Joined, version' = version,
             view' = [view EXCEPT ![r][t] = Newer(@, v)]
      PROVE  Feed!Learn(r) \/ same
  <2>1. CASE view[r][t] < v
    <3>1. v \in view[r][t] + 1 .. version[t]
      BY <1>5, <2>1, SMTT(20)
    <3>2. view' = [view EXCEPT ![r][t] = v]
      BY <1>5, <2>1 DEF Newer
    <3> QED BY <1>5, <3>1, <3>2 DEF Feed!Learn
  <2>2. CASE ~(view[r][t] < v)
    <3>1. view' = [view EXCEPT ![r][t] = @]
      BY <1>5, <2>2 DEF Newer
    <3>2. view' = view
      BY <3>1
    <3> QED BY <1>5, <3>2
  <2> QED BY <2>1, <2>2
<1>6. ASSUME NEW r \in Reader, ReceiveEvent(r) PROVE Feed!Learn(r) \/ same
  <2> DEFINE e == sent[cursor[r]]
  <2>1. cursor[r] \in DOMAIN sent /\ cursor[r] + 1 # 0
    BY <1>6, EventTypes DEF ReceiveEvent
  <2>2. e.target \in Target /\ e.version \in Nat /\ e.version <= version[e.target]
    BY <2>1, EventTypes DEF IdsInv, SentInv
  <2>3. view' = [view EXCEPT ![r][e.target] = Newer(@, e.version)] /\ version' = version
    BY <1>6 DEF ReceiveEvent, targetVars
  <2>4. r \in Joined /\ Joined' = Joined
    BY <1>6, <2>1 DEF ReceiveEvent, Joined
  <2> HIDE DEF e, same
  <2> QED BY <1>5, <2>2, <2>3, <2>4
<1>7. ASSUME NEW r \in Reader, Close(r) PROVE Feed!Part(r)
  BY <1>7 DEF Close, targetVars, Joined, Feed!Part, Feed!Nothing, Nothing
<1>8. ASSUME NEW r \in Reader, NEW t \in Target, Fetch(r, t) PROVE Feed!Learn(r) \/ same
  <2>1. r \in Joined /\ Joined' = Joined
    BY <1>8 DEF Fetch, Joined, ViewInv
  <2>2. view' = [view EXCEPT ![r][t] = Newer(@, version[t])] /\ version' = version
    BY <1>8 DEF Fetch, targetVars
  <2>3. version[t] \in Nat /\ version[t] <= version[t]
    OBVIOUS
  <2> HIDE DEF same
  <2> QED BY <1>5, <2>1, <2>2, <2>3
<1>9. CASE UNCHANGED vars
  BY <1>9 DEF vars, targetVars, readerVars, Joined, Feed!vars
<1> HIDE DEF same
<1> QED BY <1>0, <1>1, <1>2, <1>3, <1>4, <1>6, <1>7, <1>8, <1>9
        DEF Next, Receive, Feed!Next

\* Whatever interleaving of commits, events, gaps and snapshots, what a reader
\* knows only grows and never runs ahead: the stream implements StateFeed.  That
\* it catches up is liveness and left to TLC.
THEOREM FeedImplemented == Spec => Feed!Spec
<1>1. Init => Feed!Init
  BY DEF Init, Feed!Init, Joined, Feed!Nothing, Nothing
<1> QED BY Inductive, StepRefines, <1>1, PTL DEF Spec, Feed!Spec
=============================================================================
