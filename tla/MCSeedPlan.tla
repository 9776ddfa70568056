----------------------------- MODULE MCSeedPlan ------------------------------
(* Symmetry for the instances of SeedPlan: invocations and configurations  *)
(* are interchangeable.                                                    *)
EXTENDS SeedPlan, TLC

Symmetry == Permutations(Procs) \cup Permutations(Configs)
=============================================================================
