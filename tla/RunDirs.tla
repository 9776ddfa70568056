------------------------------- MODULE RunDirs -------------------------------
(***************************************************************************)
(* The run directories that `campaign`, `index`, `chain` and `archive`     *)
(* read, and what their owner does to them meanwhile.  How one record is   *)
(* built and stamped is the subject of RunRecord; here each of these is    *)
(* one step, because the readers below load manifest.json in one read.     *)
(*                                                                         *)
(* A body stands for its content hash and fixes the configuration, seed    *)
(* and plan it records.  `files` is the body the artifacts of a directory  *)
(* would hash to now, and may differ from the one its manifest records.    *)
(***************************************************************************)
EXTENDS Naturals, Sequences

CONSTANTS
    Dirs,         \* run directories
    Bodies,       \* manifest bodies
    SeedOf,       \* the seed in the configuration of each body
    ConfigOf,     \* its configuration without the seed
    PlanOf,       \* the precommit_hash it records, or None
    Plans,        \* precommit plans, standing for their hash and fields
    Layouts,      \* what the directories hold at first
    Reruns,       \* <<d, b>>: another run may leave body b in directory d
    Cids,         \* IPFS addresses
    MaxEdits,     \* bound on what the owner does
    MaxCommands,  \* bound on the invocations that read the directories
    None, NoFile, Torn

Record == [body : Bodies, cid : Cids \cup {None}]

\* reproduction.json: the body it names and whether the re-run agreed.
Reproduction == [of : Bodies, ok : BOOLEAN]

ASSUME DirsOK ==
    /\ PlanOf \in [Bodies -> Plans \cup {None}]
    /\ Layouts \subseteq [Dirs -> Bodies] /\ Reruns \subseteq Dirs \X Bodies
    /\ MaxEdits \in Nat /\ MaxCommands \in Nat

ASSUME DirSentinels ==
    /\ NoFile # Torn
    /\ NoFile \notin Record /\ Torn \notin Record /\ NoFile \notin Reproduction
    /\ NoFile \notin Plans /\ Torn \notin Bodies
    /\ None \notin Plans \cup Cids \cup Bodies

VARIABLES
    files,     \* the body the artifacts of each directory hash to
    manifest,  \* manifest.json of each directory
    receipt,   \* reproduction.json of each directory
    plan,      \* precommit.json of each directory
    rerun,     \* bodies whose command was run again with the same result
    calm,      \* the owner leaves the directories alone while a command runs
    edits,     \* what the owner may still do
    commands   \* invocations of the program left

\* The directories and their owner.
runVars == <<files, manifest, receipt, plan, rerun, calm, edits>>

RunInit ==
    /\ files \in Layouts
    /\ manifest = [d \in Dirs |-> [body |-> files[d], cid |-> None]]
    /\ receipt = [d \in Dirs |-> NoFile]
    /\ plan = [d \in Dirs |-> IF PlanOf[files[d]] = None THEN NoFile ELSE PlanOf[files[d]]]
    /\ rerun = {}
    /\ calm \in BOOLEAN
    /\ edits = MaxEdits
    /\ commands = MaxCommands
-----------------------------------------------------------------------------
(* What the owner does. *)

Edit == edits > 0 /\ edits' = edits - 1 /\ UNCHANGED calm

\* Another run into the directory, and `manifest` after it: the stamps are
\* gone, precommit.json is replaced or left over.
Rebuild(d, b) ==
    /\ Edit /\ <<d, b>> \in Reruns
    /\ files' = [files EXCEPT ![d] = b]
    /\ manifest' = [manifest EXCEPT ![d] = [body |-> b, cid |-> None]]
    /\ plan' = [plan EXCEPT ![d] = IF PlanOf[b] = None THEN plan[d] ELSE PlanOf[b]]
    /\ UNCHANGED <<receipt, rerun>>

\* Artifacts change and the manifest does not.
EditFiles(d, b) ==
    /\ Edit /\ <<d, b>> \in Reruns
    /\ files' = [files EXCEPT ![d] = b]
    /\ UNCHANGED <<manifest, receipt, plan, rerun>>

\* `anchor --cid`: only stamp fields change.
Pin(d, c) ==
    /\ Edit
    /\ manifest[d] \in Record
    /\ manifest' = [manifest EXCEPT ![d].cid = c]
    /\ UNCHANGED <<files, receipt, plan, rerun>>

\* `reproduce`, which compares with the hashes in the manifest.
Reproduce(d, ok) ==
    /\ Edit
    /\ manifest[d] \in Record
    /\ receipt' = [receipt EXCEPT ![d] = [of |-> manifest[d].body, ok |-> ok]]
    /\ rerun' = IF ok THEN rerun \cup {manifest[d].body} ELSE rerun
    /\ UNCHANGED <<files, manifest, plan>>

\* The directory is moved away, or a kill tears its manifest.
Spoil(d, lost) ==
    /\ Edit
    /\ lost \in {NoFile, Torn}
    /\ manifest' = [manifest EXCEPT ![d] = lost]
    /\ UNCHANGED <<files, receipt, plan, rerun>>

Owner ==
    /\ \E d \in Dirs :
         \/ \E b \in Bodies : Rebuild(d, b) \/ EditFiles(d, b)
         \/ \E c \in Cids : Pin(d, c)
         \/ \E ok \in BOOLEAN : Reproduce(d, ok)
         \/ \E lost \in {NoFile, Torn} : Spoil(d, lost)
    /\ UNCHANGED commands

\* An invocation starts.
Spend == commands > 0 /\ commands' = commands - 1
-----------------------------------------------------------------------------
(* infer_claim_level of a record with body b in directory d, whose receipt *)
(* may be of an earlier record.  The suffixes for derivation rules, which  *)
(* no caller here has run, are left out.                                   *)
Levels == {"bytes", "bitwise_declared", "bitwise"}

\* Mutant: any successful receipt in the directory counts.
ClaimLevelOfAny(d, b) ==
    CASE receipt[d] = NoFile -> "bytes"
      [] receipt[d] # NoFile /\ receipt[d].ok -> "bitwise"
      [] OTHER -> "bitwise_declared"

ClaimLevel(d, b) ==
    CASE receipt[d] = NoFile -> "bytes"
      [] receipt[d] = [of |-> b, ok |-> TRUE] -> "bitwise"
      [] OTHER -> "bitwise_declared"

RunTypeOK ==
    /\ files \in [Dirs -> Bodies]
    /\ manifest \in [Dirs -> Record \cup {NoFile, Torn}]
    /\ receipt \in [Dirs -> Reproduction \cup {NoFile}]
    /\ plan \in [Dirs -> Plans \cup {NoFile}]
    /\ rerun \subseteq Bodies
    /\ calm \in BOOLEAN
    /\ edits \in Nat /\ commands \in Nat
=============================================================================
