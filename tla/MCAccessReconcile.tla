-------------------------- MODULE MCAccessReconcile --------------------------
(* AccessReconcile with two items and two users. *)
EXTENDS AccessReconcile, TLC

Interchangeable == Permutations(Item) \cup Permutations(User)
=============================================================================
