--------------------------- MODULE MCJobLifecycle ---------------------------
(* Instances of JobLifecycle for TLC. *)
EXTENDS JobLifecycle, TLC

CONSTANTS c1, c2

AllFaults == FaultKinds

\* The second job goes to a provider that does not read refusals.
UnreadSecond == {c2}

Symmetry == Permutations(Uses)
=============================================================================
