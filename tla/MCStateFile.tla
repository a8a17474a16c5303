---------------------------- MODULE MCStateFile -----------------------------
(* Two intents' lives, one other change and one lazily given epoch: enough   *)
(* for a save to find a write in flight and another one queued, for a        *)
(* failure before or after a success, and for a restart at every point.      *)
EXTENDS StateFile
=============================================================================
