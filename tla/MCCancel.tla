-------------------------------- MODULE MCCancel --------------------------------
(* A member of two households and a member of one of them. *)
EXTENDS Cancel, TLC

CONSTANTS u1, u2, h1, h2

MCHomes == u1 :> {h1, h2} @@ u2 :> {h2}

(* Bounds *)

\* One request, with a follower, asked for again or refreshed across a crash.
One == seerr[2].status = "none" /\ Cardinality(records) + crashes <= 2

\* A second request of the same household, after one that was given up; its records are settled by grants.
Two ==
  /\ crashes = 0 /\ Cardinality(records) <= 2
  /\ \A rec \in records : rec.user = u1 /\ rec.home = h1
  /\ refresh.at \notin {"read", "join"}

Explored == One \/ Two
================================================================================
