--------------------------- MODULE MCFairDispatcher ---------------------------
(***************************************************************************)
(* FairDispatcher with two households: one has a call more than its lane   *)
(* holds, the other a single call at a time.                               *)
(***************************************************************************)
EXTENDS FairDispatcher, TLC

CONSTANTS h1, h2, a, b, c, d

MCLaneOf == a :> h1 @@ b :> h1 @@ c :> h1 @@ d :> h2
=============================================================================
