----------------------------- MODULE MCRunRecord -----------------------------
(* Values for the constants of RunRecord. *)
EXTENDS RunRecord, TLC

CONSTANTS b1, b2, c1, c2

\* Two bodies of two different artifact contents: a rebuild after an edit.
MCBodyContent == b1 :> c1 @@ b2 :> c2

\* Invocations, CIDs and calendars are interchangeable.
Symmetry == Permutations(Procs) \cup Permutations(Cids) \cup Permutations(Calendars)
=============================================================================
