------------------------------ MODULE MCOutbox ------------------------------
(***************************************************************************)
(* Outbox for TLC.                                                         *)
(***************************************************************************)
EXTENDS Outbox, TLC

Symmetry == Permutations(Workers)
=============================================================================
