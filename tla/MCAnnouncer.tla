----------------------------- MODULE MCAnnouncer -----------------------------
(* Small instances of the announcement service. *)
EXTENDS Announcer, TLC

\* Callers and keys are interchangeable in the safety runs.
Interchangeable == Permutations(Caller) \cup Permutations(Key)

\* One configuration for every process, or a second one in which the operator
\* has taken the notified output off the topic.
OneConfig == {[callers |-> Caller, outputs |-> Output]}
ShrinkingConfig == OneConfig \cup {[callers |-> Caller, outputs |-> Native]}

\* A restart may move the topic from one output to the other.
EitherOutput == {[callers |-> Caller, outputs |-> {o}] : o \in Output}
=============================================================================
