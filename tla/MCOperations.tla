---------------------------- MODULE MCOperations ----------------------------
(* Model values for Operations. *)
EXTENDS Operations, TLC

CONSTANTS k1, k2, k3, web, scale, apply, r1, r2

TwoKeys == {k1, k2}
ThreeKeys == {k1, k2, k3}
TwoTasks == {r1, r2}
WebOnly == {web}
ApplyOnly == {apply}
ScaleAndApply == {scale, apply}
OnWeb == [f \in {scale, apply} |-> web]
Symmetric == Permutations(ThreeKeys) \cup Permutations(TwoTasks)
=============================================================================
