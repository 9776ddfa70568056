------------------------------ MODULE TimeClaim ------------------------------
(***************************************************************************)
(* What FarmNotary promises the reader of a run directory about time,      *)
(* docs/CLAIMS.md row L0: the directory may show that a content hash       *)
(* existed by time T only when that hash is in Bitcoin.  A hash gets there *)
(* by being submitted to a calendar first, and never leaves.  The claim    *)
(* may be withdrawn at any time (an edited file, a newer anchor, a crash). *)
(***************************************************************************)
CONSTANTS Bodies, None

VARIABLES
    stage,  \* of each content hash: new, submitted or attested
    claim   \* the content hash L0 is shown for, or None

vars == <<stage, claim>>

Init ==
    /\ stage = [b \in Bodies |-> "new"]
    /\ claim = None

Submit(b) ==
    /\ stage[b] = "new"
    /\ stage' = [stage EXCEPT ![b] = "submitted"]
    /\ UNCHANGED claim

Attest(b) ==
    /\ stage[b] = "submitted"
    /\ stage' = [stage EXCEPT ![b] = "attested"]
    /\ UNCHANGED claim

Show(b) ==
    /\ stage[b] = "attested"
    /\ claim' = b
    /\ UNCHANGED stage

Withdraw == claim' = None /\ UNCHANGED stage

Next == Withdraw \/ \E b \in Bodies : Submit(b) \/ Attest(b) \/ Show(b)

Spec == Init /\ [][Next]_vars
=============================================================================
