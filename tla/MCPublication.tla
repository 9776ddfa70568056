--------------------------- MODULE MCPublication ---------------------------
(***************************************************************************)
(* Instances of Publication.  b1 and b2 share a configuration and commit   *)
(* to different plans; b3 has an empty configuration, the seed of b1 and   *)
(* no plan.                                                                *)
(***************************************************************************)
EXTENDS Publication, TLC

CONSTANTS d1, d2, b1, b2, b3, q1, q2, c1, base1, empty, i1, i2, x1, x2

TwoIndexers == Permutations({i1, i2})

\* No campaign is built while an `index` runs: it only reads what the index reads,
\* and its file is read in the first step of the next `index`.
Apart == cpc = "idle" \/ NoIndexer

\* The other scenes are nothing to the tip of a chain.
ChainScene == scene = "chain"

MCSeedOf == b1 :> 1 @@ b2 :> 2 @@ b3 :> 1
MCConfigOf == b1 :> base1 @@ b2 :> base1 @@ b3 :> empty
MCPlanOf == b1 :> q1 @@ b2 :> q2 @@ b3 :> None
MCLayouts == {d1 :> b3 @@ d2 :> b1}
MCReruns == {<<d1, b1>>, <<d1, b2>>, <<d2, b2>>}
MCRunLists == {<<d1, d2>>}
MCStageLists == {<<d1, d2>>, <<d1, d2, d1>>}
MCFileLists == {<<"artifacts">>, <<"artifacts", "manifest.json">>}
MCPaths == 1 .. 7
MCPublished == {3, 6}
MCStarts == {[p \in MCPaths |-> IF p \in {3} \cup (1 .. n \ MCPublished) THEN x1 ELSE Absent] :
               n \in {0, 6}}
=============================================================================
