----------------------------- MODULE MCFilePlan -----------------------------
(***************************************************************************)
(* FilePlan for TLC.                                                       *)
(***************************************************************************)
EXTENDS FilePlan, TLC

CONSTANTS d, e, a, b, c, r1, r2

TwoRequests == {r1, r2}

Symmetry == Permutations(TwoRequests)

MCPaths == {<<d, a>>, <<d, b>>, <<d, c>>, <<e, a>>, <<e, b>>}

TwoFiles == 0..1
TwoOriginals == 0 :> <<d, a>> @@ 1 :> <<d, b>>
TwoSizes == {[f \in TwoFiles |-> 7], [f \in TwoFiles |-> 7 + f]}

\* No file is ever given the name of another in the manifest.
FreshTargets == 0 :> {<<d, a>>, <<e, a>>, <<d, c>>} @@ 1 :> {<<d, b>>, <<e, b>>, <<d, c>>}

\* The theorems of FilePlanProofs speak of the run with these names.
ASSUME MCNames == Targets = FreshTargets => FreshNames /\ FoldersApart

AllTargets == [f \in TwoFiles |-> MCPaths]
=============================================================================
