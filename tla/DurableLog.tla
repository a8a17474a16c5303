----------------------------- MODULE DurableLog -----------------------------
(***************************************************************************)
(* What the state file promises its callers (src/src/store.ts): the state  *)
(* is the sequence of changes accepted, what survives the process is one   *)
(* of the states it went through, that never goes back, and a change is    *)
(* acknowledged only once it survives.  StateFile implements it.           *)
(***************************************************************************)
EXTENDS Naturals, Sequences, SequencesExt

CONSTANT Change

VARIABLES accepted,      \* the changes made, in the order they were made
          durable,       \* the changes a restart would find
          acknowledged   \* the changes whose caller was told they are saved

vars == <<accepted, durable, acknowledged>>

Init ==
  /\ accepted = <<>>
  /\ durable = <<>>
  /\ acknowledged = {}

Accept ==
  /\ \E c \in Change : accepted' = Append(accepted, c)
  /\ UNCHANGED <<durable, acknowledged>>

\* The durable state moves forward to a state the memory has been in.
Persist ==
  /\ IsPrefix(durable, durable')
  /\ IsPrefix(durable', accepted)
  /\ UNCHANGED <<accepted, acknowledged>>

Acknowledge ==
  /\ acknowledged \subseteq acknowledged'
  /\ acknowledged' \subseteq ToSet(durable)
  /\ UNCHANGED <<accepted, durable>>

Restart ==
  /\ accepted' = durable
  /\ UNCHANGED <<durable, acknowledged>>

Next == Accept \/ Persist \/ Acknowledge \/ Restart

Spec == Init /\ [][Next]_vars
=============================================================================
