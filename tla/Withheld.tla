------------------------------ MODULE Withheld ------------------------------
(***************************************************************************)
(* The files `manifest` does not publish: build_manifest commits to them   *)
(* with a salted Merkle root, `reveal-withheld` proves later that one of   *)
(* them is in that tree, and `reveal-withheld --verify` checks the proof.  *)
(*                                                                         *)
(* Paths are numbered in the order of their names and a class is fixed by  *)
(* the name and the patterns.  A scan and the reads after it are one step: *)
(* a file created between them could as well come later, one that is gone  *)
(* ends the command.  Stamps, which leave the commitment alone, are those  *)
(* of RunRecord.                                                           *)
(***************************************************************************)
EXTENDS Naturals, FiniteSets, Sequences, Merkle

CONSTANTS
    Paths,      \* candidate files: numbers, in the order of their names
    Published,  \* those that match a publish pattern and no private name
    Contents,   \* what a file may hold
    Starts,     \* run directories to start from
    MaxChanges, \* bound on the changes to the files
    MaxUses,    \* bound on the commands
    Absent      \* no file, no record, no reveal

ASSUME PathsOK ==
    /\ Paths \subseteq Nat /\ IsFiniteSet(Paths) /\ Published \subseteq Paths
    /\ Starts \subseteq [Paths -> Contents \cup {Absent}]
ASSUME BoundsOK == MaxChanges \in Nat /\ MaxUses \in Nat
ASSUME AbsentOK == Absent \notin Contents \cup Paths

UseSteps == {"idle", "rescan", "write", "tree", "recheck", "out", "revealed", "failed"}

VARIABLES
    dir,       \* content of each candidate of the run directory
    record,    \* what manifest.json says of the files
    reveal,    \* the reveal file, outside the run directory
    wpc,       \* the step of the command under way
    base,      \* the record it builds or has loaded
    found,     \* build: the candidates of the first scan
    want,      \* reveal: the path asked for, Absent where a reveal is verified
    read,      \* reveal: the leaves of the withheld files as they are now
    entry,     \* the reveal it makes or has loaded
    drift,     \* history: published files created or removed since the first scan
    still,     \* the files are left alone while a command runs
    changes,   \* changes left
    uses       \* commands left

local == <<base, found, want, read, entry, drift>>
dirVars == <<dir, changes>>
withheldVars == <<dirVars, record, reveal, wpc, local, still, uses>>

Present(d) == {p \in Paths : d[p] # Absent}
Kept(d) == Present(d) \ Published

\* How many of a set of paths come before p.
Rank(S, p) == Cardinality({q \in S : q < p})

\* The leaves of the withheld files, in the order of their names.
Leaves(d, salt) ==
    [i \in 1 .. Cardinality(Kept(d)) |->
        LET p == CHOOSE q \in Kept(d) : Rank(Kept(d), q) = i - 1
        IN Leaf(salt, p, d[p])]

\* withheld_root of a record.
Root(r) == MerkleRoot(r.leaves)

NoUse == /\ wpc' = "idle" /\ base' = Absent /\ found' = {} /\ want' = Absent
         /\ read' = <<>> /\ entry' = Absent /\ drift' = 0

WithheldInit ==
    /\ dir \in Starts
    /\ record = Absent /\ reveal = Absent
    /\ wpc = "idle"
    /\ base = Absent /\ found = {} /\ want = Absent
    /\ read = <<>> /\ entry = Absent /\ drift = 0
    /\ still \in BOOLEAN
    /\ changes = MaxChanges
    /\ uses = MaxUses

Use == wpc = "idle" /\ uses > 0 /\ uses' = uses - 1
-----------------------------------------------------------------------------
(* build_manifest. *)

\* The first scan: the candidates are classified, the withheld ones are read and
\* committed to under a fresh salt, for which the commands left stand.  The root is
\* kept as the leaves it is taken of.
ScanAndCommit ==
    /\ Use
    /\ found' = Present(dir)
    /\ base' = [salt |-> uses, leaves |-> Leaves(dir, uses),
                unmatched |-> Cardinality(Kept(dir)), hashes |-> <<>>]
    /\ wpc' = "rescan"
    /\ UNCHANGED <<dirVars, record, reveal, want, read, entry, drift, still>>

\* Mutant: the two scans are not compared.
RescanUnchecked ==
    LET artifacts == Present(dir) \cap Published IN
    /\ wpc = "rescan"
    /\ base' = [base EXCEPT !.hashes = [p \in artifacts |-> dir[p]]]
    /\ wpc' = "write"
    /\ UNCHANGED <<dirVars, record, reveal, found, want, read, entry, drift, still, uses>>

\* The second scan lists and hashes the artifacts; counts that do not add up end the
\* command.
Rescan ==
    LET artifacts == Present(dir) \cap Published IN
    /\ wpc = "rescan"
    /\ base.unmatched = Cardinality(found) - Cardinality(artifacts)
    /\ base' = [base EXCEPT !.hashes = [p \in artifacts |-> dir[p]]]
    /\ wpc' = "write"
    /\ UNCHANGED <<dirVars, record, reveal, found, want, read, entry, drift, still, uses>>

WriteRecord ==
    /\ wpc = "write"
    /\ record' = base
    /\ NoUse
    /\ UNCHANGED <<dirVars, reveal, still, uses>>
-----------------------------------------------------------------------------
(* `reveal-withheld`. *)

\* Nothing to reveal where nothing was withheld.
Committed(r) == r # Absent /\ r.leaves # <<>>

Reveal(p) ==
    /\ Use
    /\ Committed(record)
    /\ base' = record
    /\ want' = p
    /\ wpc' = "tree"
    /\ UNCHANGED <<dirVars, record, reveal, found, read, entry, drift, still>>

\* The tree is built again from the files as they are; a path that is not withheld
\* now ends the command.
BuildTree ==
    LET leaves == Leaves(dir, base.salt)
        index == Rank(Kept(dir), want)
    IN /\ wpc = "tree"
       /\ want \in Kept(dir)
       /\ read' = leaves
       /\ entry' = [path |-> want, leaf |-> leaves[index + 1],
                    proof |-> MerkleProof(leaves, index), edited |-> FALSE]
       /\ wpc' = "recheck"
       /\ UNCHANGED <<dirVars, record, reveal, base, found, want, drift, still, uses>>

VerifyReveal ==
    /\ Use
    /\ Committed(record) /\ reveal # Absent
    /\ base' = record
    /\ entry' = reveal
    /\ wpc' = "recheck"
    /\ UNCHANGED <<dirVars, record, reveal, found, want, read, drift, still>>

\* Mutant: the leaf is not compared with the file.
RevealHoldsUnread ==
    /\ dir[entry.path] # Absent
    /\ VerifyProof(entry.leaf, entry.proof, Root(base))

\* Mutant: the proof is not climbed.
RevealHoldsUnproved ==
    /\ dir[entry.path] # Absent
    /\ entry.leaf = Leaf(base.salt, entry.path, dir[entry.path])

\* verify_reveal: the file is read again.
RevealHolds ==
    /\ dir[entry.path] # Absent
    /\ entry.leaf = Leaf(base.salt, entry.path, dir[entry.path])
    /\ VerifyProof(entry.leaf, entry.proof, Root(base))

\* A new reveal is checked before it is written, one that was loaded is reported.
Recheck ==
    /\ wpc = "recheck"
    /\ wpc' = IF ~RevealHolds THEN "failed" ELSE IF want = Absent THEN "revealed" ELSE "out"
    /\ UNCHANGED <<dirVars, record, reveal, local, still, uses>>

WriteReveal ==
    /\ wpc = "out"
    /\ reveal' = entry
    /\ NoUse
    /\ UNCHANGED <<dirVars, record, still, uses>>

\* The command ends: with its report, an error, or killed.
EndUse ==
    /\ wpc # "idle"
    /\ NoUse
    /\ UNCHANGED <<dirVars, record, reveal, still, uses>>
-----------------------------------------------------------------------------
(* What else happens to the files. *)

Change ==
    /\ still => wpc = "idle"
    /\ changes > 0 /\ changes' = changes - 1
    /\ UNCHANGED <<record, wpc, base, found, want, read, entry, still, uses>>

\* A file is created, written or removed.
ChangeFile(p, c) ==
    /\ Change
    /\ c # dir[p]
    /\ dir' = [dir EXCEPT ![p] = c]
    /\ drift' = IF wpc = "rescan" /\ p \in Published /\ Absent \in {c, dir[p]}
                THEN drift + 1 ELSE drift
    /\ UNCHANGED reveal

\* The reveal file names another path, with the leaf of that file or not.
EditReveal(p) ==
    /\ Change
    /\ reveal # Absent /\ p # reveal.path
    /\ \/ reveal' = [reveal EXCEPT !.path = p, !.edited = TRUE]
       \/ /\ dir[p] # Absent /\ record # Absent
          /\ reveal' = [reveal EXCEPT !.path = p, !.edited = TRUE,
                                      !.leaf = Leaf(record.salt, p, dir[p])]
    /\ UNCHANGED <<dir, drift>>

WithheldCommand ==
    \/ ScanAndCommit \/ Rescan \/ WriteRecord
    \/ \E p \in Paths : Reveal(p)
    \/ BuildTree \/ VerifyReveal \/ Recheck \/ WriteReveal \/ EndUse

WithheldNext ==
    \/ \E p \in Paths, c \in Contents \cup {Absent} : ChangeFile(p, c)
    \/ \E p \in Paths : EditReveal(p)
    \/ WithheldCommand

WithheldSpec == WithheldInit /\ [][WithheldNext]_withheldVars
-----------------------------------------------------------------------------
WithheldTypeOK ==
    /\ dir \in [Paths -> Contents \cup {Absent}]
    /\ wpc \in UseSteps
    /\ found \subseteq Paths
    /\ want \in Paths \cup {Absent}
    /\ drift \in Nat
    /\ still \in BOOLEAN
    /\ changes \in Nat /\ uses \in Nat
    /\ record # Absent => DOMAIN record.hashes \subseteq Published
    /\ reveal # Absent => reveal.path \in Paths

\* The two scans of `manifest` are compared by number only, and yet one file that was
\* created or removed between them never gets a record written: its artifacts are
\* then those of the first scan.  Two that cancel out are not noticed
\* (manifest.py:673-695).
DriftCaught ==
    wpc = "write" /\ drift <= 1 => DOMAIN base.hashes = found \cap Published

\* A reveal that is written or that verifies names a file that was in the withheld
\* set when the manifest was built, and its content then: not one created later, nor
\* one that took another's place in the tree, nor one of an earlier commitment
\* (withheld.py:163-201, 287-332).
RevealSound ==
    wpc \in {"out", "revealed"} =>
        \E i \in DOMAIN base.leaves :
           /\ base.leaves[i] = entry.leaf
           /\ \E c \in Contents : entry.leaf = Leaf(base.salt, entry.path, c)

\* A reveal is refused for a cause: the withheld set is not as it was committed to
\* or, for one already written, its own file, the record or the reveal is not as it
\* was.  For every number of files and every position in the tree the proof climbs to
\* the root, and what becomes of other withheld files does not touch a reveal that
\* was made (withheld.py:148-201, 251-332).
RevealHasCause ==
    still /\ wpc = "failed" =>
        IF want # Absent THEN Leaves(dir, base.salt) # base.leaves
        ELSE \/ entry.edited
             \/ entry.leaf # Leaf(base.salt, entry.path, dir[entry.path])

\* A new reveal is only written when the whole withheld set still is as it was
\* committed to (withheld.py:261-265, cli.py:1842-1858).
RevealWhole ==
    wpc = "out" => read = base.leaves
=============================================================================
