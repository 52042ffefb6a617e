---------------------------- MODULE TargetIntent ----------------------------
(***************************************************************************)
(* What the rest of the authority may assume of one target: its versioned  *)
(* routing intent.  The reconciliation worker and the readiness flag never *)
(* look at leases; they rely on the three facts stated here:               *)
(*   - the version never decreases while the process lives;                *)
(*   - the desired route changes only together with the version;           *)
(*   - a step that may change the desired route leaves the authority not   *)
(*     ready.                                                              *)
(* LeaseAuthority implements this specification for the lease protocol,    *)
(* Reconciler implements it for every target it drives.                    *)
(***************************************************************************)
EXTENDS Integers

CONSTANTS Route, IdleRoute

VARIABLES
  version,   \* TargetState.version
  desired,   \* TargetState.desired
  ready      \* Authority.ready

vars == <<version, desired, ready>>

Init ==
  /\ version = 0
  /\ desired = IdleRoute
  /\ ready = FALSE

\* A committed decision: acquire, release, presence or an expiry.
Decide ==
  /\ version' \in Nat /\ version' > version
  /\ desired' \in Route
  /\ ready' = FALSE

\* A renewal or a stored observation: a new version of the same intent.
Touch ==
  /\ version' \in Nat /\ version' > version
  /\ UNCHANGED <<desired, ready>>

\* The worker's verdict of a whole pass, or a decision on another target.
Verdict ==
  /\ ready' \in BOOLEAN
  /\ UNCHANGED <<version, desired>>

\* Nothing is persisted: a restarted process starts from the idle intent.
Restart ==
  /\ version' = 0
  /\ desired' = IdleRoute
  /\ ready' = FALSE

Next == Decide \/ Touch \/ Verdict \/ Restart

Spec == Init /\ [][Next]_vars
=============================================================================
