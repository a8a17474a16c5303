------------------------------ MODULE MCSeerrUsers ------------------------------
(* Two calls of one member; another whose invalidations push out the first one's. *)
EXTENDS SeerrUsers, TLC

CONSTANTS m1, m2, s1, s2, c1, c2

MCMemberOf == c1 :> m1 @@ c2 :> m1
MCFirst == s1 :> m1 @@ s2 :> Nobody

Alike == Permutations({c1, c2})
================================================================================
