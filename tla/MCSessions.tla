----------------------------- MODULE MCSessions -----------------------------
(* Small instances of Sessions for TLC.                                     *)
EXTENDS Sessions, TLC

Symmetry == Permutations(Sids) \union Permutations(Requests) \union Permutations(Addresses)
=============================================================================
