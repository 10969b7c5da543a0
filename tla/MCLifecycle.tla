------------------------------ MODULE MCLifecycle -----------------------------
(***************************************************************************)
(* Instance of RoomLifecycle for TLC: players are interchangeable.         *)
(***************************************************************************)
EXTENDS RoomLifecycle, TLC

PlayerSymmetry == Permutations(Users)
=============================================================================
