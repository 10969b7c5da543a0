------------------------------ MODULE MCProcess ------------------------------
(***************************************************************************)
(* RoomProcess for TLC: the requests are interchangeable.                  *)
(***************************************************************************)
EXTENDS RoomProcess, TLC

Symmetry == Permutations(Handlers)
=============================================================================
