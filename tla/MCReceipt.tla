------------------------------ MODULE MCReceipt ------------------------------
(* Symmetry for the instances of Receipt: invocations and bodies are       *)
(* interchangeable.                                                        *)
EXTENDS Receipt, TLC

Symmetry == Permutations(Procs) \cup Permutations(Bodies)
=============================================================================
