------------------------------- MODULE OneShot -------------------------------
(***************************************************************************)
(* What may be relied on of one delivery of an announcement: by its caller,*)
(* who reads its status in the ledger, and by whoever hears the speaker.   *)
(*   - Nothing leaves before the ledger says that it may have, nor twice.  *)
(*   - The ledger calls it confirmed only when its device has it, and gives*)
(*     up a notification only if the device has nothing.                   *)
(*   - What was given to the device is never waiting or on offer again;    *)
(*     what is confirmed or failed stays so as long as it is remembered,   *)
(*     while an expiry is final only once something was sent.              *)
(* Announcer implements this specification for every delivery.             *)
(***************************************************************************)
EXTENDS Naturals

CONSTANT Polled    \* whether an app fetches it, or its device is notified

VARIABLES
  stage,   \* what the ledger makes of it: unasked, waiting, offered to its app, given,
           \* confirmed, failed, expired, forgotten
  sent,    \* how often it left
  heard    \* whether the device has it

vars == <<stage, sent, heard>>

Init == stage = "unasked" /\ sent = 0 /\ heard = FALSE

\* accept.
Ask ==
  /\ stage = "unasked"
  /\ stage' = "waiting"
  /\ UNCHANGED <<sent, heard>>

\* The clip is there for the app to claim; a sweep may have been quicker.
Offer ==
  /\ Polled /\ stage \in {"waiting", "expired"} /\ sent = 0
  /\ stage' = "offered"
  /\ UNCHANGED <<sent, heard>>

\* From here on the clip or its notification may have left: the claim, or the
\* dispatch intent.
Give ==
  /\ stage \in IF Polled THEN {"offered"} ELSE {"waiting", "expired"}
  /\ sent = 0
  /\ stage' = "given"
  /\ UNCHANGED <<sent, heard>>

\* The response reaches its app, or the PUBLISH packet leaves and may arrive.
Send ==
  /\ stage = "given" /\ sent = 0
  /\ sent' = 1
  /\ heard' \in IF Polled THEN {TRUE} ELSE BOOLEAN
  /\ UNCHANGED stage

\* The device fetched the clip, or the app says what became of it.
Confirm ==
  /\ stage = "given" /\ heard
  /\ stage' = "confirmed"
  /\ UNCHANGED <<sent, heard>>

\* It will not be played: only the app can say so of a clip it may have.
GiveUp ==
  /\ stage \in {"waiting", "offered", "given", "expired"}
  /\ heard = (Polled /\ stage = "given")
  /\ stage' \in {"failed", "expired"}
  /\ UNCHANGED <<sent, heard>>

\* The row is deleted, a day later.
Forget ==
  /\ stage' = "forgotten"
  /\ UNCHANGED <<sent, heard>>

Next == Ask \/ Offer \/ Give \/ Send \/ Confirm \/ GiveUp \/ Forget

Spec == Init /\ [][Next]_vars
=============================================================================
