----------------------------- MODULE StateFeed -----------------------------
(***************************************************************************)
(* What a consumer of /api/v1/events may rely on: while it is connected,   *)
(* the version it knows of each target never goes back, never runs ahead   *)
(* of the target's own version, and does not stay behind it for good.  How *)
(* the versions reach it (events, a gap and a snapshot, in what order) is  *)
(* left to EventStream, which implements this specification.               *)
(***************************************************************************)
EXTENDS Integers

CONSTANTS Target, Reader

VARIABLES
  version,   \* TargetState.version, by target
  joined,    \* the readers connected
  view       \* the version each reader knows of each target, -1 for none

vars == <<version, joined, view>>

Nothing == [t \in Target |-> -1]

Init ==
  /\ version = [t \in Target |-> 0]
  /\ joined = {}
  /\ view = [r \in Reader |-> Nothing]

Change(t) ==
  /\ version' = [version EXCEPT ![t] = @ + 1]
  /\ UNCHANGED <<joined, view>>

Join(r) ==
  /\ joined' = joined \cup {r}
  /\ view' = [view EXCEPT ![r] = Nothing]
  /\ UNCHANGED version

Part(r) ==
  /\ joined' = joined \ {r}
  /\ view' = [view EXCEPT ![r] = Nothing]
  /\ UNCHANGED version

\* A reader learns a newer version of one target.
Learn(r) ==
  /\ r \in joined
  /\ \E t \in Target : \E v \in view[r][t] + 1 .. version[t] :
       view' = [view EXCEPT ![r][t] = v]
  /\ UNCHANGED <<version, joined>>

Next ==
  \/ \E t \in Target : Change(t)
  \/ \E r \in Reader : Join(r) \/ Part(r) \/ Learn(r)

Spec == Init /\ [][Next]_vars

\* A reader that stays behind learns something.
FairSpec == Spec /\ \A r \in Reader : WF_vars(Learn(r))
=============================================================================
