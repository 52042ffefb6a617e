-------------------------- MODULE MCLeaseAuthority --------------------------
(***************************************************************************)
(* Instances of LeaseAuthority for TLC.                                    *)
(***************************************************************************)
EXTENDS LeaseAuthority

CONSTANTS radio, voice, call, alert, fm, chime, idle, id1, id2, k1

\* Adapters of three priorities.  Of the two in the middle one resumes and one does
\* not, so that leases are skipped and two that may resume can wait together; the
\* highest may only ask for short leases, and the lowest has a route of its own.
FourSources == {radio, voice, call, alert}
FourPolicies ==
  [s \in FourSources |->
     [priority |-> CASE s = radio -> 1 [] s \in {voice, call} -> 2 [] s = alert -> 3,
      resume   |-> s # voice,
      routes   |-> IF s = radio THEN {fm} ELSE {chime},
      minTtl   |-> 1, maxTtl |-> IF s = alert THEN 1 ELSE 3]]

\* Two adapters that may use the same lease ids, keys and routes, and leases
\* that expire at once.
TwoSources == {radio, voice}
TwoPolicies ==
  [s \in TwoSources |->
     [priority |-> IF s = radio THEN 1 ELSE 2, resume |-> TRUE,
      routes |-> {fm}, minTtl |-> 0, maxTtl |-> 2]]
=============================================================================
