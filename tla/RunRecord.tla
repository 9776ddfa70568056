------------------------------ MODULE RunRecord ------------------------------
(***************************************************************************)
(* One run directory and the farm-notary invocations that stamp it:        *)
(* `manifest`, `notarize_run`, `anchor`, `sign`, `upgrade` and `verify`.   *)
(*                                                                         *)
(* The directory holds three files that belong together and are written    *)
(* one at a time, with no lock and no rename: manifest.json (the record),  *)
(* manifest.ots (the proof of its content hash) and manifest.cid.ots (the  *)
(* proof that binds hash and CID).  Every invocation is a process: it      *)
(* loads what it needs, waits for the network, and writes back what it     *)
(* holds in memory.  It may stop after any step, and a file it was writing *)
(* may be left torn.                                                       *)
(*                                                                         *)
(* A manifest body stands for its own content hash: SHA-256 is taken to be *)
(* injective.  Stamp fields that no check reads (pin_service,              *)
(* cid_reachable) are left out.                                            *)
(***************************************************************************)
EXTENDS Naturals

CONSTANTS
    Procs,        \* farm-notary invocations that may run side by side
    Contents,     \* what the artifact files may hold
    Bodies,       \* manifest bodies, stamp fields excluded
    BodyContent,  \* the artifact contents each body lists the hashes of
    Cids,         \* IPFS content identifiers
    Calendars,    \* OpenTimestamps calendar servers
    MaxCommands,  \* bound on the invocations that write manifest.json
    Exclusive,    \* TRUE: the operator runs one command at a time
    None, NoFile, Torn

\* Mutant: the binding digest forgets the manifest hash.
BindCidOnly(b, c) == c

Bind(b, c) == <<b, c>>        \* cid_binding_digest: SHA-256(hash || cid)
Digests == Bodies \cup (Bodies \X Cids)

\* A proof file: the digest it commits to, and the calendars whose
\* attestation is still pending or already a Bitcoin block header.
Proof == [digest : Digests, pending : SUBSET Calendars, bitcoin : SUBSET Calendars]

\* manifest.anchor.  Backend "other" is dry-run (or EAS): no proof file.
\* `binding` says that detail names manifest.cid.ots.
AnchorRecord == [backend : {"opentimestamps", "other"}, hash : Bodies, binding : BOOLEAN]

Record == [body     : Bodies,
           cid      : Cids \cup {None},
           anchor   : AnchorRecord \cup {None},
           identity : Bodies \cup {None}]

Steps == {"idle", "publish", "submit", "proof", "bind", "save",
          "upgrade", "upgrade both", "reread", "upgrade binding",
          "verify", "card"}

ASSUME ConstantsOK ==
    /\ BodyContent \in [Bodies -> Contents]
    /\ MaxCommands \in Nat
    /\ Exclusive \in BOOLEAN

ASSUME Sentinels ==
    /\ None \notin Record /\ None \notin Proof /\ None \notin AnchorRecord
    /\ None \notin Cids /\ None \notin Bodies
    /\ NoFile \notin Record /\ NoFile \notin Proof
    /\ Torn \notin Record /\ Torn \notin Proof
    /\ NoFile # Torn
    /\ \A b \in Bodies, c \in Cids : Bind(b, c) \notin Bodies

VARIABLES
    artifacts,  \* contents of the published files
    manifest,   \* manifest.json
    ots,        \* manifest.ots
    cidOts,     \* manifest.cid.ots
    held,       \* digests each calendar accepted
    inBitcoin,  \* digests each calendar has committed to a block
    pc,         \* the step each invocation is about to take
    rec,        \* the record it holds in memory
    arg,        \* its own cid: --cid, or the result of --pin
    proof,      \* the proof it holds in memory
    budget,     \* writing invocations left
    printed     \* content hashes some `verify` printed L0 or better for

directory == <<artifacts, manifest, ots, cidOts>>
calendars == <<held, inBitcoin>>
memory == <<rec, arg, proof>>
vars == <<directory, calendars, pc, memory, budget, printed>>

\* build_manifest: a new record has no stamps.
Fresh(b) == [body |-> b, cid |-> None, anchor |-> None, identity |-> None]

\* A finished run, with a manifest or not yet, that nothing has stamped.
Init ==
    /\ artifacts \in Contents
    /\ manifest \in {NoFile} \cup {Fresh(b) : b \in {x \in Bodies : BodyContent[x] = artifacts}}
    /\ ots = NoFile /\ cidOts = NoFile
    /\ held = [c \in Calendars |-> {}]
    /\ inBitcoin = [c \in Calendars |-> {}]
    /\ pc = [p \in Procs |-> "idle"]
    /\ rec = [p \in Procs |-> None]
    /\ arg = [p \in Procs |-> None]
    /\ proof = [p \in Procs |-> None]
    /\ budget = MaxCommands
    /\ printed = {}
-----------------------------------------------------------------------------
(* Starting, moving and ending an invocation. *)

CanStart(p) ==
    /\ pc[p] = "idle"
    /\ Exclusive => \A q \in Procs : pc[q] = "idle"

Spend == budget > 0 /\ budget' = budget - 1

Goto(p, step) == pc' = [pc EXCEPT ![p] = step]

Finish(p) ==
    /\ Goto(p, "idle")
    /\ rec' = [rec EXCEPT ![p] = None]
    /\ arg' = [arg EXCEPT ![p] = None]
    /\ proof' = [proof EXCEPT ![p] = None]
-----------------------------------------------------------------------------
(* `manifest` and the build half of notarize_run: the record lists what    *)
(* the artifact files held when they were hashed.                          *)

Build(p, b) ==
    /\ CanStart(p) /\ Spend
    /\ BodyContent[b] = artifacts
    /\ rec' = [rec EXCEPT ![p] = Fresh(b)]
    /\ Goto(p, "save")
    /\ UNCHANGED <<directory, calendars, arg, proof, printed>>

Notarize(p, b, c) ==
    /\ CanStart(p) /\ Spend
    /\ BodyContent[b] = artifacts
    /\ rec' = [rec EXCEPT ![p] = Fresh(b)]
    /\ arg' = [arg EXCEPT ![p] = c]
    /\ Goto(p, "publish")
    /\ UNCHANGED <<directory, calendars, proof, printed>>

\* Mutant: rebuilding carries the old signature over.
WriteOverStamps(p) ==
    /\ pc[p] = "publish"
    /\ manifest' = IF manifest \in Record
                   THEN [rec[p] EXCEPT !.identity = manifest.identity] ELSE rec[p]
    /\ Goto(p, "submit")
    /\ UNCHANGED <<artifacts, ots, cidOts, calendars, memory, budget, printed>>

\* notarize_run writes the unstamped manifest before it pins and anchors.
WriteUnstamped(p) ==
    /\ pc[p] = "publish"
    /\ manifest' = rec[p]
    /\ Goto(p, "submit")
    /\ UNCHANGED <<artifacts, ots, cidOts, calendars, memory, budget, printed>>
-----------------------------------------------------------------------------
(* `anchor`: load, submit, write the proof, bind the CID, write back.      *)
(* A CID is the --cid argument or what IPFS returned for --pin; both reach *)
(* anchor_run as its cid.  The dirty-tree refusal, a failed pin and an     *)
(* OtsError end the process with nothing written: Stop.                    *)

Anchor(p, c) ==
    /\ CanStart(p) /\ Spend
    /\ manifest \in Record
    /\ rec' = [rec EXCEPT ![p] = manifest]
    /\ arg' = [arg EXCEPT ![p] = c]
    /\ Goto(p, "submit")
    /\ UNCHANGED <<directory, calendars, proof, printed>>

\* Mutants: the recorded CID wins over the new one, or a missing one erases it.
StampedOldCid(p, receipt) ==
    [rec[p] EXCEPT !.anchor = receipt, !.cid = IF @ # None THEN @ ELSE arg[p]]
StampedNoCid(p, receipt) == [rec[p] EXCEPT !.anchor = receipt, !.cid = arg[p]]

\* anchor_run: the cid the call was given, else the one on the record.
Stamped(p, receipt) ==
    [rec[p] EXCEPT !.anchor = receipt,
                   !.cid = IF arg[p] # None THEN arg[p] ELSE @]

\* DryRunBackend.submit: a receipt and no proof file.
SubmitDryRun(p) ==
    /\ pc[p] = "submit"
    /\ rec' = [rec EXCEPT ![p] = Stamped(p,
           [backend |-> "other", hash |-> rec[p].body, binding |-> FALSE])]
    /\ Goto(p, "save")
    /\ UNCHANGED <<directory, calendars, arg, proof, budget, printed>>

\* stamp_digest: at least one calendar must accept, the others may fail.
Accept(accepted, digest) ==
    held' = [c \in Calendars |-> IF c \in accepted THEN held[c] \cup {digest} ELSE held[c]]

Pending(accepted, digest) == [digest |-> digest, pending |-> accepted, bitcoin |-> {}]

\* Mutants: an outage of every calendar passes for a stamp, or the record is
\* saved before its proof is written.
SubmitDespiteOutage(p, accepted) ==
    /\ pc[p] = "submit"
    /\ Accept(accepted, rec[p].body)
    /\ proof' = [proof EXCEPT ![p] = Pending(accepted, rec[p].body)]
    /\ rec' = [rec EXCEPT ![p] = Stamped(p,
           [backend |-> "opentimestamps", hash |-> rec[p].body, binding |-> FALSE])]
    /\ Goto(p, "proof")
    /\ UNCHANGED <<directory, inBitcoin, arg, budget, printed>>
SubmitSavingFirst(p, accepted) ==
    /\ pc[p] = "submit"
    /\ accepted # {}
    /\ Accept(accepted, rec[p].body)
    /\ proof' = [proof EXCEPT ![p] = Pending(accepted, rec[p].body)]
    /\ rec' = [rec EXCEPT ![p] = Stamped(p,
           [backend |-> "opentimestamps", hash |-> rec[p].body, binding |-> FALSE])]
    /\ manifest' = rec'[p]
    /\ Goto(p, "proof")
    /\ UNCHANGED <<artifacts, ots, cidOts, inBitcoin, arg, budget, printed>>

SubmitOts(p, accepted) ==
    /\ pc[p] = "submit"
    /\ accepted # {}
    /\ Accept(accepted, rec[p].body)
    /\ proof' = [proof EXCEPT ![p] = Pending(accepted, rec[p].body)]
    /\ rec' = [rec EXCEPT ![p] = Stamped(p,
           [backend |-> "opentimestamps", hash |-> rec[p].body, binding |-> FALSE])]
    /\ Goto(p, "proof")
    /\ UNCHANGED <<directory, inBitcoin, arg, budget, printed>>

WriteProof(p) ==
    /\ pc[p] = "proof"
    /\ ots' = proof[p]
    /\ Goto(p, IF arg[p] # None THEN "bind" ELSE "save")
    /\ UNCHANGED <<artifacts, manifest, cidOts, calendars, memory, budget, printed>>

\* write_cid_binding_proof asks the calendars that took the main digest.
BindCid(p, accepted) ==
    /\ pc[p] = "bind"
    /\ accepted # {} /\ accepted \subseteq proof[p].pending
    /\ Accept(accepted, Bind(rec[p].body, arg[p]))
    /\ cidOts' = Pending(accepted, Bind(rec[p].body, arg[p]))
    /\ rec' = [rec EXCEPT ![p].anchor.binding = TRUE]
    /\ Goto(p, "save")
    /\ UNCHANGED <<artifacts, manifest, ots, inBitcoin, arg, proof, budget, printed>>

\* Every calendar refused: the error is printed and swallowed.
BindFails(p) ==
    /\ pc[p] = "bind"
    /\ Goto(p, "save")
    /\ UNCHANGED <<directory, calendars, memory, budget, printed>>

SaveManifest(p) ==
    /\ pc[p] = "save"
    /\ manifest' = rec[p]
    /\ Finish(p)
    /\ UNCHANGED <<artifacts, ots, cidOts, calendars, budget, printed>>
-----------------------------------------------------------------------------
(* `sign`: load the record, sign its content hash, write it back. *)

Sign(p) ==
    /\ CanStart(p) /\ Spend
    /\ manifest \in Record
    /\ rec' = [rec EXCEPT ![p] = [manifest EXCEPT !.identity = manifest.body]]
    /\ Goto(p, "save")
    /\ UNCHANGED <<directory, calendars, arg, proof, printed>>
-----------------------------------------------------------------------------
(* `upgrade`: read a proof, ask each pending calendar, write it back; then *)
(* the same for manifest.cid.ots if it was there when the command started. *)
(* `done` is the set of calendars that answered with a Bitcoin path: a     *)
(* calendar that has not committed the digest cannot, one that has may     *)
(* still be unreachable.                                                   *)

\* Mutants: any answer counts as a Bitcoin path; a new attestation replaces
\* the earlier ones; the merge is forgotten.
ReadyAtOnce(f) == f.pending
UpgradedReplacing(f, done) == [f EXCEPT !.pending = @ \ done, !.bitcoin = done]
UpgradedForgetting(f, done) == f

Ready(f) == {c \in f.pending : f.digest \in inBitcoin[c]}

Upgraded(f, done) == [f EXCEPT !.pending = @ \ done, !.bitcoin = @ \cup done]

UpgradeRead(p) ==
    /\ CanStart(p)
    /\ ots \in Proof
    /\ proof' = [proof EXCEPT ![p] = ots]
    /\ Goto(p, IF cidOts = NoFile THEN "upgrade" ELSE "upgrade both")
    /\ UNCHANGED <<directory, calendars, rec, arg, budget, printed>>

UpgradeStore(p, done) ==
    /\ pc[p] \in {"upgrade", "upgrade both"}
    /\ done \subseteq Ready(proof[p])
    /\ ots' = Upgraded(proof[p], done)
    /\ IF pc[p] = "upgrade" THEN Finish(p)
       ELSE Goto(p, "reread") /\ UNCHANGED memory
    /\ UNCHANGED <<artifacts, manifest, cidOts, calendars, budget, printed>>

UpgradeRereadBinding(p) ==
    /\ pc[p] = "reread"
    /\ cidOts \in Proof
    /\ proof' = [proof EXCEPT ![p] = cidOts]
    /\ Goto(p, "upgrade binding")
    /\ UNCHANGED <<directory, calendars, rec, arg, budget, printed>>

UpgradeStoreBinding(p, done) ==
    /\ pc[p] = "upgrade binding"
    /\ done \subseteq Ready(proof[p])
    /\ cidOts' = Upgraded(proof[p], done)
    /\ Finish(p)
    /\ UNCHANGED <<artifacts, manifest, ots, calendars, budget, printed>>
-----------------------------------------------------------------------------
(* `verify`: the checks of verify_run_dir and verify_anchor on record r.   *)

TamperEvident(r) == BodyContent[r.body] = artifacts

\* Mutant: the digest is not compared.
CommitsToAnything(f, digest) == f \in Proof /\ f.pending \cup f.bitcoin # {}

\* verify_proof: the file parses, commits to the digest, and is attested.
Commits(f, digest) ==
    /\ f \in Proof
    /\ f.digest = digest
    /\ f.pending \cup f.bitcoin # {}

BindingOK(r) ==
    r.cid # None => IF cidOts = NoFile THEN ~r.anchor.binding
                    ELSE Commits(cidOts, Bind(r.body, r.cid))

Timestamped(r) == r.anchor # None /\ r.anchor.backend = "opentimestamps"

AnchorOK(r) ==
    r.anchor # None =>
        /\ r.anchor.hash = r.body
        /\ Timestamped(r) => Commits(ots, r.body) /\ BindingOK(r)

\* Mutant: a pending attestation counts as a time.
AnyHeight(f) == f \in Proof /\ f.pending \cup f.bitcoin # {}

\* _existed_by_status prints a Bitcoin height, whatever digest it belongs
\* to: the digest was compared by verify_anchor, in an earlier read.
BitcoinHeight(f) == f \in Proof /\ f.bitcoin # {}

\* The L0 rung, for a `verify` that nothing interrupts.
EarnsL0(r) ==
    /\ TamperEvident(r)
    /\ Timestamped(r) /\ AnchorOK(r)
    /\ BitcoinHeight(ots)

VerifyLoad(p) ==
    /\ CanStart(p)
    /\ manifest \in Record
    /\ rec' = [rec EXCEPT ![p] = manifest]
    /\ Goto(p, "verify")
    /\ UNCHANGED <<directory, calendars, arg, proof, budget, printed>>

\* A failed row earns no level: the card is printed and claims nothing.
VerifyCheck(p) ==
    /\ pc[p] = "verify"
    /\ IF TamperEvident(rec[p]) /\ Timestamped(rec[p]) /\ AnchorOK(rec[p])
       THEN Goto(p, "card") /\ UNCHANGED memory
       ELSE Finish(p)
    /\ UNCHANGED <<directory, calendars, budget, printed>>

\* evaluate_claims reads manifest.ots a second time for the height.
PrintCard(p) ==
    /\ pc[p] = "card"
    /\ printed' = IF BitcoinHeight(ots) THEN printed \cup {rec[p].body} ELSE printed
    /\ Finish(p)
    /\ UNCHANGED <<directory, calendars, budget>>
-----------------------------------------------------------------------------
(* A process ends early: it is killed, --no-write skips the save, a torn   *)
(* file does not parse, the tree is dirty, a pin or every calendar fails.  *)

Stop(p) ==
    /\ pc[p] # "idle"
    /\ Finish(p)
    /\ UNCHANGED <<directory, calendars, budget, printed>>

\* write_text and write_bytes truncate first: a kill leaves the file torn.
Tear(p) ==
    /\ pc[p] \in {"publish", "save", "proof", "bind",
                  "upgrade", "upgrade both", "upgrade binding"}
    /\ manifest' = IF pc[p] \in {"publish", "save"} THEN Torn ELSE manifest
    /\ ots' = IF pc[p] \in {"proof", "upgrade", "upgrade both"} THEN Torn ELSE ots
    /\ cidOts' = IF pc[p] \in {"bind", "upgrade binding"} THEN Torn ELSE cidOts
    /\ Finish(p)
    /\ UNCHANGED <<artifacts, calendars, budget, printed>>

(* Outside the program: a calendar commits a digest to a block, and the    *)
(* artifact files are edited.                                              *)

CalendarCommit(c, d) ==
    /\ d \in held[c] \ inBitcoin[c]
    /\ inBitcoin' = [inBitcoin EXCEPT ![c] = @ \cup {d}]
    /\ UNCHANGED <<directory, held, pc, memory, budget, printed>>

EditArtifacts ==
    /\ artifacts' \in Contents \ {artifacts}
    /\ UNCHANGED <<manifest, ots, cidOts, calendars, pc, memory, budget, printed>>
-----------------------------------------------------------------------------
Continue(p) ==
    \/ WriteUnstamped(p) \/ SubmitDryRun(p) \/ WriteProof(p)
    \/ \E accepted \in SUBSET Calendars : SubmitOts(p, accepted) \/ BindCid(p, accepted)
    \/ BindFails(p) \/ SaveManifest(p)
    \/ \E done \in SUBSET Calendars : UpgradeStore(p, done) \/ UpgradeStoreBinding(p, done)
    \/ UpgradeRereadBinding(p)
    \/ VerifyCheck(p) \/ PrintCard(p)

Next ==
    \/ \E p \in Procs :
         \/ \E b \in Bodies : Build(p, b)
         \/ \E b \in Bodies, c \in Cids \cup {None} : Notarize(p, b, c)
         \/ \E c \in Cids \cup {None} : Anchor(p, c)
         \/ Sign(p) \/ UpgradeRead(p) \/ VerifyLoad(p)
         \/ Continue(p) \/ Stop(p) \/ Tear(p)
    \/ \E c \in Calendars, d \in Digests : CalendarCommit(c, d)
    \/ EditArtifacts

Spec == Init /\ [][Next]_vars

(* Fairness, used only for EventuallyConfirmed.  A started invocation does *)
(* not hang: every network call has a timeout.  Calendars commit what they *)
(* hold.  The operator keeps coming back to `upgrade`, and does not find   *)
(* the calendars unreachable every time.                                   *)
Fairness ==
    /\ \A c \in Calendars, d \in Digests : WF_vars(CalendarCommit(c, d))
    /\ \A p \in Procs :
         /\ WF_vars(Continue(p) \/ Stop(p))
         /\ SF_vars(UpgradeRead(p))
         /\ SF_vars(UpgradeStore(p, Ready(proof[p])))

FairSpec == Spec /\ Fairness
-----------------------------------------------------------------------------
(* Every variable has its type. *)
TypeOK ==
    /\ artifacts \in Contents
    /\ manifest \in Record \cup {NoFile, Torn}
    /\ ots \in Proof \cup {NoFile, Torn}
    /\ cidOts \in Proof \cup {NoFile, Torn}
    /\ held \in [Calendars -> SUBSET Digests]
    /\ inBitcoin \in [Calendars -> SUBSET Digests]
    /\ pc \in [Procs -> Steps]
    /\ rec \in [Procs -> Record \cup {None}]
    /\ arg \in [Procs -> Cids \cup {None}]
    /\ proof \in [Procs -> Proof \cup {None}]
    /\ budget \in Nat
    /\ printed \subseteq Bodies

InBitcoin(d) == \E c \in Calendars : d \in inBitcoin[c]
Submitted(d) == \E c \in Calendars : d \in held[c]

(* However commands interleave and crash, a directory that earns L0 holds  *)
(* a manifest whose own content hash is in Bitcoin: never one whose        *)
(* neighbour's proof it inherited (verify_anchor, evaluate_ladder).        *)
L0Sound == manifest \in Record /\ EarnsL0(manifest) => InBitcoin(manifest.body)

(* Stamps travel with the body they were made for: the anchor receipt and  *)
(* the signature in manifest.json are never those of another body, however *)
(* many commands overwrite each other's copy (anchor_run, sign_record).    *)
StampsMatchBody ==
    manifest \in Record =>
        /\ manifest.anchor # None => manifest.anchor.hash = manifest.body
        /\ manifest.identity # None => manifest.identity = manifest.body

(* A record never claims an OpenTimestamps anchor for a hash that no       *)
(* calendar took, whatever failed on the way (stamp_digest, anchor_run).   *)
AnchorSubmitted ==
    manifest \in Record /\ Timestamped(manifest) => Submitted(manifest.body)

(* The proof reaches the disk before the record that names it, so that no  *)
(* crash yields verify's "missing anchor proof" or "missing CID binding    *)
(* proof" (the order of the last writes of _cmd_anchor and notarize_run).  *)
ProofBeforeRecord ==
    manifest \in Record /\ Timestamped(manifest) =>
        /\ ots # NoFile
        /\ manifest.anchor.binding => cidOts # NoFile

(* Every content hash `verify` ever printed L0 for is in Bitcoin: what     *)
(* docs/CLAIMS.md promises of the printed card.                            *)
CardSound == \A b \in printed : InBitcoin(b)

\* The one way a successful `anchor` leaves a directory that fails verify:
\* the new CID's binding could not be stamped and an older one is there.
StaleBinding ==
    manifest.cid # None /\ ~manifest.anchor.binding /\ cidOts # NoFile

(* When `anchor --backend ots` returns 0, verify_anchor finds no problem   *)
(* in what it left, a stale binding proof excepted.                        *)
AnchorVerifies ==
    [][\A p \in Procs : SaveManifest(p) /\ proof[p] \in Proof =>
           AnchorOK(manifest)' \/ StaleBinding']_vars

(* A Bitcoin attestation on disk is lost only to a new OpenTimestamps      *)
(* anchor or to a torn write: `upgrade` itself never gives one up.         *)
AttestationKept ==
    [][BitcoinHeight(ots) =>
          \/ BitcoinHeight(ots') /\ ots'.digest = ots.digest
          \/ \E p \in Procs : WriteProof(p) \/ Tear(p)]_vars

(* Between two builds, commands only add to manifest.json: its body stays  *)
(* and no cid, anchor or identity is dropped (Manifest.content_hash:       *)
(* stamps must not feed back into the hash).                               *)
StampingOnlyAdds ==
    [][{manifest, manifest'} \subseteq Record =>
          \/ manifest' = Fresh(manifest'.body)
          \/ /\ manifest'.body = manifest.body
             /\ manifest.cid # None => manifest'.cid # None
             /\ manifest.anchor # None => manifest'.anchor # None
             /\ manifest.identity # None => manifest'.identity = manifest.identity]_vars

(* If `upgrade` is run again and again, a proof does not stay pending      *)
(* (docs/DESIGN.md: exit code 1 means still pending, run it again later).  *)
EventuallyConfirmed == <>[](ots \in Proof => ots.bitcoin # {})
-----------------------------------------------------------------------------
(* What the directory promises a reader, as TimeClaim states it. *)

Stage == [b \in Bodies |-> IF InBitcoin(b) THEN "attested"
                           ELSE IF Submitted(b) THEN "submitted" ELSE "new"]

Claim == IF manifest \in Record
         THEN IF EarnsL0(manifest) THEN manifest.body ELSE None
         ELSE None

Promise == INSTANCE TimeClaim WITH stage <- Stage, claim <- Claim

(* The directory implements the promise: hashes only move from new to      *)
(* submitted to attested, and L0 is only ever shown for an attested one.   *)
KeepsPromise == Promise!Spec

=============================================================================
