# FarmNotary in TLA+

FarmNotary turns the output directory of a simulation run into a record that a stranger can check:
it lists and hashes the files, has the hash time-stamped by OpenTimestamps calendars (and so by
Bitcoin), optionally commits to the run's design and random seed before the run, and prints a claim
card that says how much of this a reader may believe. The program is a command line tool without a
daemon, a database or a lock: everything it knows is in a few JSON and proof files that separate
invocations read, hold in memory while they wait for the network, and write back. That is where it is
hard to test, and what these modules are about.

All source paths below are relative to `src/farm_notary/`.

## 1. Inventory

| Component | Source | State | Operations | Module |
|---|---|---|---|---|
| Run record and stamps | manifest, anchor, ots, identity, verify, cli | `manifest.json`, `manifest.ots`, `manifest.cid.ots`, what the calendars hold | `manifest`, `notarize_run`, `anchor`, `sign`, `upgrade`, anchor half of `verify` | `RunRecord`, `TimeClaim` |
| Precommit and drand beacon | precommit, beacon | `precommit.json`, `precommit.ots`, `seeds.json`, `manifest.beacon`, the clock | `precommit`, `derive-seeds`, `manifest --precommit`, L2 half of `verify` | `SeedPlan` |
| Claim card and ladder | verify, ladder, claims | none: reads all files, each on its own | `verify`, `check` | L0 in `RunRecord`, L2 in `SeedPlan`, bitwise row and L3 in `Receipt` |
| Reproduction receipt | reproduce, sigstore | `reproduction.json`, `reproduction.ots`, bundle | `reproduce [--anchor] [--sign]`, receipt half of `verify` | `Receipt` |
| Derivation claims | derive | none: `derived_from` rules in the manifest | recompute once and compare | not modelled |
| Withheld files | withheld, manifest, cli | Merkle root and salt in the manifest, the reveal file | commit, `reveal-withheld`, `reveal-withheld --verify` | `Merkle`, `Withheld` |
| Registry | registry, claims | `registry.json`, `index.md` | `index` of a run or of a campaign | `Registry` |
| Campaign and chain | campaign, chain, claims | `campaign.json`, `provenance-chain.json` | `campaign`, `verify --campaign`, `chain`, `chain --verify` | `RunDirs`, `Campaign`, `Chain` |
| Publish scan | manifest, profiles | the file set while it is scanned | first half of `build_manifest` | `Withheld` (two scans), one step in `RunRecord` |
| Publication clients | archive, ipfs, eas, interop | the deposits of an account | `archive --zenodo`; one call each | `Archive`; the others not modelled |
| Reports and wrappers | paper, plugins, diagnose, fingerprint, schema, scope | none | formatting, capture | not modelled |

**How they interact.** Only through files, and through outside services. `manifest` writes the record
that `anchor`, `sign`, `upgrade` and `reproduce` stamp or refer to; `precommit` writes the plan that
`derive-seeds` and `manifest --precommit` read; `campaign`, `chain` and `index` copy hashes of records
that may be rebuilt later; `verify` reads everything. The services are OpenTimestamps calendars (accept
a digest, commit it to Bitcoin hours later), drand (publishes a round every period), IPFS and Sigstore.

**What is hard.** Two commands that overlap and overwrite each other's copy; a command that stops
between two of its writes; a file torn by a kill; calendars that time out, some or all of them; a proof
that is upgraded while another is written; a plan that is replaced while `derive-seeds --wait` sleeps;
files left over from an earlier command; a run directory that is rebuilt, stamped, moved or torn while
its hash is being copied into a campaign, a chain or the registry; two scans of a directory that changes
between them; an upload whose answer is lost; a round that comes out before the stamp does; a file that
`verify` reads twice. `PROJECT.json` lists these hazards at their lines, with the properties that would
catch them.

**What makes each component correct.**

- Run record: L0 is earned only by a directory whose own content hash is in Bitcoin; stamps are never
  those of another body; a record names a proof only when the proof is on disk and a calendar took the
  hash; stamping only adds; an attestation is not lost by `upgrade`; a pending proof is confirmed in the end.
- Precommit: a plan names a round that is not out yet when it is dated; seeds are drawn only for a
  stamped plan; a record uses the round its own plan names; one plan and index admit one seed.
- Card: every printed rung is justified by the files, all of them read consistently.
- Receipt: it counts only for the manifest it was made for, and only with its own proof and signature;
  what a successful `reproduce` leaves verifies.
- Withheld: the commitment is made of the directory the artifacts were taken from; a reveal that is
  written or verifies names a file that was committed to, and one is refused only for a cause.
- Registry: one row per content hash; an `index` that runs alone loses no row; a level that is shown was
  earned. Campaign: any child changed after the build is reported, and one that was only stamped is not;
  the plan shown is the plan named. Chain: an ok says that the manifests it names are there, and where every
  link names one the tip fixes the history.
- Archive: what is public is whole.

## 2. Plan

1. `TimeClaim`, `RunRecord` with `RunRecordProofs`: done.
2. `SeedPlan` with `SeedPlanProofs`: done.
3. `Receipt` with `ReceiptProofs`: done.
4. `RunDirs`, `Campaign`, `Registry`, `Chain`, `Archive`: what is done with finished run directories,
   over one model of the directories and their owner: done.
5. `Merkle`, `Withheld`: the two scans of `build_manifest`, the commitment and the reveals: done.
6. `Publication` composes 4 and 5 into the system one run checks: done.
7. `CampaignProofs`, `RegistryProofs`, `WithheldProofs` and `PublicationProofs`, with `Induction`: done.

Left of the plan: a run in which `derive-seeds --wait` is repeated until the round is out; an abstract
statement of what a seed plan promises, as `TimeClaim` is for the run record; the L1 gaps of the ladder.

## 3. The modules and the code

### RunRecord

A process is one invocation; its program counter `pc` says which call it makes next. `rec`, `arg` and
`proof` are its local `manifest`, `cid` and proof bytes. A manifest *body* stands for its own content
hash, which is what `Manifest.content_hash` guarantees by leaving the stamps out; a proof is the digest
it commits to and the calendars whose attestation is pending or a Bitcoin header. `Torn` is a file that
a killed `write_text` or `write_bytes` left behind: it parses as nothing. The two loads of `manifest.ots`
that `verify` makes are two steps, because the code reads the file in `verify_anchor` and again in
`_existed_by_status`.

| Action | Code |
|---|---|
| `Build`, `Notarize`, `WriteUnstamped` | `_cmd_manifest`; `notarize_run`, which saves the record before it is anchored |
| `Anchor` | `_cmd_anchor` up to `backend.submit`: load, `--cid`, `require_clean_identity` |
| `SubmitOts`, `SubmitDryRun` | `stamp_digest` with any non-empty set of calendars answering; the dry run |
| `WriteProof`, `BindCid`, `BindFails` | `write_proof`; `write_cid_binding_proof` and its swallowed outage |
| `SaveManifest` | `write_manifest` |
| `Sign` | `_cmd_sign` |
| `UpgradeRead`, `UpgradeStore`, `UpgradeRereadBinding`, `UpgradeStoreBinding` | the loop of `_cmd_upgrade` over the two proofs, each read, upgraded and written back |
| `VerifyLoad`, `VerifyCheck`, `PrintCard` | `_cmd_verify`, `verify_run_dir` and `verify_anchor`, `_existed_by_status` and `evaluate_ladder` |
| `Stop`, `Tear` | refusal, error, kill; kill in the middle of a write |
| `CalendarCommit`, `EditArtifacts` | the calendar; the operator (external) |

`TimeClaim` is the promise to the reader: a hash moves from new to submitted to attested, and L0 is
shown only for an attested one. `RunRecord` implements it (`KeepsPromise`) with `Stage` computed from
what the calendars hold and `Claim` from what the three files would earn now.

### SeedPlan

The files live in directories, as the commands allow: `precommit --out` and `derive-seeds --out` may
name a lab directory, the run directory holds the copies that `manifest` makes. A plan stands for its
hash and a seed for the tuple it was derived from. The clock counts seconds; round `r` is out at
`(r - 1) * Period`, as `round_unix_time` has it, and `latest` may be `Lag` rounds behind.

| Action | Code |
|---|---|
| `Precommit`, `PlanRound`, `WritePlan`, `StampPlan`, `WriteProof` | `_cmd_precommit`: `created_utc`, then `latest`, then the plan, then the stamp, then the proof |
| `DeriveSeeds`, `RequireProof`, `FetchRound`, `WriteSeeds` | `_cmd_derive_seeds`; with `--wait` it stays at `FetchRound` |
| `BuildManifest`, `CopyPlan`, `CopyProof`, `BindSeeds`, `BindFetched`, `BindNothing`, `WriteRun` | `build_manifest --precommit`, which loads the plan, copies it by a second read, then its proof, then resolves the randomness |
| `Verify`, `PrintRung` | `_cmd_verify --live-beacon`; `BeaconEarned` is `verify_beacon_binding` without gap or problem, `PrecommitOK` is `verify_precommit` |
| `Stop`, `Tick` | errors, kills and the timeout of `--wait`; the clock |

Left out, and why it does not matter to the properties: `command` and `git_sha` are compared the way
`config` is; a torn file reads as an error, as a missing one does; the two files `verify` loads first
are read in one step; `manifest` copies `seeds.json` in the step that reads it. The clock is correct.
`precommit` and `verify` ask drand; the two commands between them may also be given a fixture, whose
randomness is made up (`verify` accepts a fixture too, for tests: such a run proves nothing and is not
modelled). The lower rungs are taken as earned: they are the subject of `RunRecord`.

### Receipt

A receipt without its `sigstore` field stands for its own hash, as `receipt_payload` defines it;
`created_utc` is a counter, so two reproductions give two receipts. `made` records the commands that
were really run again, `held` what calendars accepted, `log` what cosign signed: the properties compare
what is printed with these and not with the files. `verify` reads `reproduction.json` in
`verify_receipt`, again in `_bitwise_status` and again for the L3 rung, hence three steps.
Whether cosign is installed, what the command outputs, and what the checks of the lower rungs find are
chosen freely.

| Action | Code |
|---|---|
| `Rebuild` | `_cmd_manifest`, as far as the receipt can tell: another body |
| `Reproduce`, `Rerun`, `WriteReceipt` | `_cmd_reproduce`: load, `reproduce_run` and `build_receipt`, `write_receipt` |
| `StampReceipt`, `WriteReceiptProof` | `--anchor`: `stamp_digest` of `receipt_hash`, then `reproduction.ots` |
| `SignReceipt`, `WriteSigned` | `--sign` of a successful one: `sign_receipt`, then `write_receipt` again |
| `VerifyLoad`, `CheckReceipt`, `CheckProof` | `_cmd_verify` and `verify_receipt` |
| `PrintRow`, `PrintCard` | `_bitwise_status`; the L3 block of `evaluate_claims` and `evaluate_ladder` |
| `Stop`, `Tear` | refusal, failed calendar or signer, kill; kill in the middle of a write |

`alone`, chosen in the initial state, says whether the operator lets commands overlap; one run covers
both. Overlapping commands cannot make the bitwise row lie (`RowSound`). They can make L3 lie, because
the bundle that counts is that of the third read and the problems are those of the first: `L3Signed` is
claimed, checked and proved with one command at a time. The last write of `reproduce` leaves a directory
that verifies (`ReproduceVerifies`), unless it was not asked to anchor and an earlier
`reproduction.ots` is there, which it neither removes nor replaces.

Left out: the timeout of `cosign verify-blob`; receipts and bundles written by hand; the wording of the
row in `scope.py`; the trust check before the command is run, a refusal that changes nothing (`Stop`).

### RunDirs

The directories that `campaign`, `index`, `chain` and `archive` read. How one record comes about is the
subject of `RunRecord`; seen from these four commands each change is one step, because they load
`manifest.json` in one read. `files` is what the artifacts would hash to, which may differ from what the
manifest records; `rerun` (history) has the bodies whose command was really run again with the same
result. A body fixes its configuration, seed and plan, as the content hash does.

| Action | Code |
|---|---|
| `Rebuild`, `Pin`, `Reproduce` | another run and `_cmd_manifest`; `_cmd_anchor` with `--cid`; `_cmd_reproduce` |
| `EditFiles`, `Spoil` | artifacts edited; a directory moved away or a manifest torn by a kill |
| `ClaimLevel` | `infer_claim_level`, without the suffixes for derivation rules |

`calm`, chosen at first, says whether the owner leaves the directories alone while a command runs. What
holds only in calm behaviours says so in its formula; the rest holds whatever the owner does.

### Campaign

| Action | Code |
|---|---|
| `BuildCampaign`, `LoadChild`, `GradeChild` | `_cmd_campaign`; a turn of the loop of `build_campaign`: the manifest, then the receipt |
| `ReloadConfig`, `CopySeedPlan`, `WriteCampaign` | the second load of the first child; `_shared_seed_plan`; `write_campaign` |
| `VerifyCampaign`, `CheckChild`, `RehashChild`, `PrintVerdict` | `_cmd_verify_campaign` and `verify_campaign`: the plan, each child, its artifacts, OK or INCOMPLETE or FAIL |
| `EndCampaign`, `TearCampaign`, `EditCampaign` | error or kill; kill in the write; an edit of the copied plan |

`config_hash` is the configuration itself or `None`, as the code leaves it out when it is empty. The
`seed_index` of a child follows from its content hash and is compared with it. `anchor` and `sign` of a
`campaign.json` are the steps of `RunRecord` on another file. All directories lie beside the campaign.

### Registry

| Action | Code |
|---|---|
| `IndexRun`, `GradeRow`, `IndexCampaign` | `_cmd_index`: `load_manifest`, then `infer_claim_level`; or `entries_from_campaign` |
| `LoadRegistry`, `Upsert` | `load_entries`; a turn of `upsert_entries`, `Place` is `_find_existing` |
| `WriteJson`, `WriteMd` | the two `write_text` of `write_registry` |
| `EndIndex`, `TearIndex`, `ClearRegistry` | error or kill; kill in a write; the operator removes a torn file |

Left out: `--claim-level`, which writes a level without looking; the date; the order of the table.

### Chain

The hash fields of a link are strings, and `link_hash` is the digest of two of them put together without
a separator. So they are kept as strings: a sequence of symbols in which the content hash of a manifest
is one symbol and a digest is the hashed string in brackets (`Digest`). Only equal strings have equal
digests, and `content_hash` may be any string. A null or empty `manifest_path` is `None`: `verify_chain`
looks nothing up for such a link.

| Action | Code |
|---|---|
| `Chain`, `LoadStage`, `WriteChain` | `_cmd_chain`; `chain_run_dirs` and `chain_manifests`; `write_chain` |
| `VerifyChain`, `VerifyLink`, `PrintChain` | `load_chain`; a turn of `verify_chain` (`LinkBroken`, `ManifestDiffers`); errors or ok with the tip |
| `EditChain` | a link is dropped, or its path, content hash and parent are written anew, with or without adapting its `link_hash` |

### Archive

| Action | Code |
|---|---|
| `Archive` | `_cmd_archive`: `load_manifest`, the list of uploads |
| `CreateDeposit`, `UploadFile`, `PublishDeposit` | `zenodo_create_deposit`, `zenodo_upload_file` (which reads the file then), `zenodo_publish` |
| `Answered`, `EndArchive` | a request that is carried out, its answer received or lost; a request that fails |

The server is modelled from these requests. A deposit is known by its place; the command that made it is
remembered in `asked` and `title`.

### Merkle and Withheld

`Merkle` has the tree, the proofs and their check over digests that stand for what they are taken of:
`Tree` is the function from levels to nodes, `Height` the level with one node, `Walk` what
`merkle_proof` collects on its way up, `Climb` what `verify_merkle_proof` computes. They are recursive
functions on the numbers, which the prover can reason about. `Withheld` has a run directory whose paths
are numbers in the order of their names (`Rank`), a fresh salt for each build, and one command at a time.

| Action | Code |
|---|---|
| `ScanAndCommit`, `Rescan`, `WriteRecord` | `build_manifest`: first scan and `commit_withheld`; second scan and the count check; `write_manifest` |
| `Reveal`, `BuildTree`, `Recheck`, `WriteReveal` | `_cmd_reveal_withheld`: load, `list_withheld` and `reveal_withheld`, `verify_reveal`, `write_reveal` |
| `VerifyReveal`, `Recheck` | `--verify`: `load_reveal`, `verify_reveal` |
| `ChangeFile`, `EditReveal` | other programs on the directory; an edit of the reveal file |

A scan and the reads after it are one step: a file created meanwhile could as well come later, and one
that is gone ends the command. `drift` (history) counts the published files that came or went between
the two scans.

### Publication

The commands of these modules read the directories, which none of them writes, and no command reads
what another one writes, but `index`, which reads `campaign.json`. So a step of one can neither enable
nor change a step of another, and a behaviour of all of them is an interleaving of independent ones.
`Publication` therefore gives each behaviour a `scene` and keeps what the scene has no part in at its
initial value. Scene `index` has `campaign` in it, with the two indexers.

## 4. What the runs check and show

| Run | Instance | Properties | Shows |
|---|---|---|---|
| `concurrent` | 2 processes, 2 bodies, 1 CID, 1 calendar, 2 writing commands, any overlap | `TypeOK`, `L0Sound`, `StampsMatchBody`, `AnchorSubmitted`, `ProofBeforeRecord`, `KeepsPromise` | unlocked commands, kills and torn writes never make the directory claim what is not so |
| `sequential` | 1 process, 2 bodies, 2 CIDs, 2 calendars, 2 writing commands | `CardSound`, `AnchorVerifies`, `AttestationKept`, `StampingOnlyAdds` | partial outages and repeated commands keep what was there |
| `live` | 1 process, 1 CID, 1 calendar, `FairSpec` | `EventuallyConfirmed` | repeating `upgrade` is enough |
| `verify_race` | as `concurrent` | `CardSound` violated | finding 1 |
| `seed_sequential` | 1 process, 2 directories, 2 configurations, 2 seeds, lag 1, delay 2, 4 commands, 3 rounds | `DatedBeforeRound`, `OneSeedPerPlan` | leftover seeds, plans and proofs, and made-up randomness, earn no second seed |
| `seed_concurrent` | 2 processes, 2 directories, 4 commands, 3 rounds | `TypeOK`, `SeedsAfterStamp`, `SeedOfPlan`, `L2PlanStamped` | a plan replaced between any two reads of `derive-seeds`, `manifest` or `verify` lends nothing to another |
| `seed_race` | 1 process, period 2 | `AnchoredBeforeRound` violated | finding 2 |
| `seed_config` | 1 process, 2 configurations | `OneSeedPerRung` violated | finding 3 |
| `receipt` | 2 processes, 2 bodies, 1 artifact, 2 writing commands, overlapping or alone | `TypeOK`, `RowSound`, `L3Signed`, `ReproduceVerifies` | the row and L3 are justified by a re-run and a signature of this very manifest |
| `publication`, campaigns | 2 directories, 3 bodies, 2 plans, 3 commands, 2 changes by the owner | `OkMeansIntact`, `FailHasCause`, `PlanOfChild`, `PlanCommitted` | what `verify --campaign` prints has its ground in the directories, in both directions |
| `publication`, registry | as above, 2 indexers, 1 name, 1 CID | `OneRowPerHash`, `RowsKept`, `IndexedListed`, `LevelEarned` | overlapping commands lose rows and do nothing worse |
| `publication`, chains | chains of 2 and 3 links, the third of the first's directory | `TipFixesHistory`, `ChainOkIntact` | an ok vouches for the manifests named, and names the whole history by its tip where all are |
| `chain_tip` | as above, chain scene only | `TipCommits` violated | finding 5 |
| `publication`, deposits | 2 deposits, lists with and without the manifest | `DepositWhole` | lost answers and failed uploads publish nothing half |
| `publication`, withheld | 7 paths, 2 of them published, 2 changes, 3 commands, 0 or 4 withheld files at first | `DriftCaught`, `RevealSound`, `RevealHasCause`, `RevealWhole` | one drifted file is caught; a reveal is sound, and refused only for a cause |
| `campaign_config` | 2 directories, no changes | `DisagreementFlagged` violated | finding 4 |

Every property of a passing run has a mutant in `PROJECT.json`: a plausible bug in one mapped
definition (defined next to it, marked "Mutant") under which TLC finds the property violated.

**Bounds.** All are constants: `MaxCommands` bounds the invocations that write a record or a plan
(`verify` and `upgrade` are not counted: they terminate by themselves), `MaxTime` the clock. Two commands
are the least that can race, and the least that can leave something over; two bodies are a run before
and after an edit; two calendars are a partial outage. In `SeedPlan` a stale `seeds.json` takes four
commands (plan, seeds, new plan, manifest), which both runs have. The mutants
`BindSeedsReread` and `BeaconEarnedReread` read a file a second time where the code uses what it has
read: with one process TLC does not find them. Three rounds (`Period` 1, `MaxTime` 2) give a round before, at
and after the plan's. Processes, bodies, CIDs, calendars and configurations are interchangeable, hence the
symmetry; the liveness run uses none. `CHECK_DEADLOCK FALSE` in the cfgs of `RunRecord` and `SeedPlan`: when the budget and the clock
are spent and no record was ever written, the system has nothing left to do. In `Receipt` a `verify` is always possible.


`publication` is one run: its scenes are disjoint. The owner's changes and the commands are bounded
together, so the two changes may fall anywhere in three commands: before a build, between it and the
verification, inside either. `Layouts` and `Reruns` name the bodies a directory starts with and may be
given: a child of the campaign's configuration and one of an empty one, bodies of two plans, two bodies
with one seed. Of 7 paths 2 are published, so trees of 0 to 5 withheld leaves come up, every position in
each: an odd leaf at the first level (3, 5) and one promoted twice (5); `ProofComplete` has all lengths.
Two changes are what it takes to edit a chain of two links into one link under the same tip.
The constraint `Apart` drops the behaviours in which a campaign is built while an `index` runs: the index reads `campaign.json` in its
first step and never again, the build reads only the directories, so such a behaviour differs from a
kept one in the order of independent steps alone. `CHECK_DEADLOCK FALSE`: all budgets may be spent.

**Fairness** (`live` only). `WF` of `Continue \/ Stop`: a started command returns, because every network
call in `ots.py` has a timeout. `WF` of `CalendarCommit`: calendars commit what they accepted, within
hours. `SF` of `UpgradeRead` and of `UpgradeStore` with every calendar that is ready: the operator comes
back to `upgrade` ("Exit code 1 means still pending; run it again later", docs/DESIGN.md:188) and
does not find the calendars unreachable each time. Nothing is assumed of the other commands.

## 5. What is proved

For every value of the constants, from the named assumptions of each module: the constants have their
types, a missing or torn file is no record, `None` and `Absent` are no values, a binding digest is no
content hash. SHA-256 is taken to be injective, by the choice of data. Every safety invariant and every
action property of the passing runs is a theorem.

`RunRecordProofs`. None of the checked invariants is inductive: what reaches a file was in some
process's memory before, and stayed there while files and calendars moved on. `IInv` therefore says each
thing of the files *and* of every copy in memory: `LoadedInv` (what is held at each step), `HonestInv`
(a proof shows a Bitcoin attestation only of a digest in Bitcoin), `StampInv`, `BackedInv`, and
`DiskInv`, which excludes just the step between `anchor_run` and `write_proof`, where the record runs
ahead of the files. Each part is preserved by every action (one lemma per part, one step per action).
`TypeCorrect`, `L0Correct`, `StampsCorrect`, `SubmittedCorrect` and `ProofOrderCorrect` follow;
`Implements` is the refinement of `TimeClaim`, step by step.

Four theorems have the hypothesis `Exclusive`, one command at a time; they are false without it.
`CardCorrect` uses `AloneInv`: what `verify` compared is still there at its second read (finding 1 shows
that the assumption cannot be dropped). `AttestationsStay`, `StampsStay` and `AnchorsVerify` are action
properties and use `SoleInv`, which ties what a command holds to the files it will overwrite: an
`upgrade` holds the proof that is on disk, the record in memory is the one on disk with stamps added
(`Adds`), and from `submit_digest` to the last write record, proof and CID agree (`Anchored`,
`Verifies`).

`SeedPlanProofs`. `IInv` has five parts: types and what is held at each step; `StampInv` (a plan past
its check was stamped); `DateInv`, which carries the clock reading of `created_utc` from `Precommit` to
`WritePlan` and needs arithmetic on rounds for any period, delay and lag; `RoundInv` (the record in
memory belongs to the plan in memory); `EarnedInv` (what L2 was printed for). The last one is stronger
than `OneSeedPerPlan`: an L2 with exit code 0 has *the* seed that plan, index and drand determine.

`ReceiptProofs`. The invariant follows a receipt from the process that made it, through
`reproduction.json`, to the process that reads it: `MadeInv` (any receipt held or on disk tells of a
command that ran), `RowInv` (a row is justified from the step that computes it to the printed card),
`LogInv` (a bundle on disk is the signature of the receipt it lies in) and `AloneInv` (with one command
at a time the file `verify` reads a third time is still the one it found no problem in).
`RowCorrect` and `RungCorrect` follow. `ReproduceCorrect` adds `HeldInv`: while `reproduce` runs alone
the manifest is the one it loaded, the receipt and the proof on disk are the ones it made.

`CampaignProofs` has what every step of the owner of the directories keeps (`DirsInv`), which the
proofs of the other commands cite, and then `CampaignInv`. The loops of `build_campaign` and
`verify_campaign` are inductions over the children that their steps make themselves: `PlanInv` says of
the children loaded so far that the plan named is one of theirs, `PassedInv` that the children passed so
far are as recorded while nothing was found, `CauseInv` that whatever was found has its cause in the
files. `CampaignOkCorrect`, `CampaignFailCorrect`, `CampaignPlanCorrect` and `CampaignFieldsCorrect`
are read off.

`RegistryProofs` carries each property through every copy: the rows an `index` brings, those it loaded,
those it merged and both files have one row per hash (`OneEach`) and earned levels (`Earned`), and
every row it loaded or merged is still there or was replaced by a later one of its own (`KeptOK`,
`MergedOK`). `UpsertedRows` is the lemma on one turn of `upsert_entries`; `RegistryRowsKept` is the
action property.

`Induction` and `WithheldProofs`. The library states induction with an operator as a parameter, which
no prover here can instantiate; that `<` is well-founded on the numbers has none. From it follows
`NatSetInduction`, induction for *sets* of numbers, and with that what the recursive functions of
`Merkle` compute for every length: first that they are defined (`TreeLevels`, `WalkLevels`,
`ClimbSteps`), then `ProofComplete` (a proof that `merkle_proof` makes climbs to the root, odd promoted
nodes included), `ProofSound` (only a leaf of the list climbs to its root, by any proof) and
`RootFixesLeaves` (one root, one list, for all lengths). The last is not obvious, because a promoted node
does not show its level: what is left of another node was never promoted, so its leftmost leaf is as
deep as its level says (`LeftDepth`), and two lists with one root have one height (`SameLevel`).
`WithheldInv` then says of every commitment that its salt is spent, of every unedited reveal that it
holds against whatever was committed under its salt (`Stands`), and of the two scans that they differ by
what `drift` counts (`Differ`).

`PublicationProofs` proves `TipFixesHistory` and `ChainOkIntact` for chains of any length, in the
strings a link's hashes really are. That a tip fixes its history is an induction over the links, and
`verify` makes it itself, one link at a time, so it becomes an invariant of its steps: `HistoryInv` (while
nothing is broken and every link seen names a manifest, the content hashes seen can be read off the
recorded hash of the last). The premise does the work: the lookup of the manifest is what leaves a
content hash of one symbol, and so a place for each in the tip (`LinkContinues`); without it the
statement is false (finding 5). `OneHistoryPerTip` says what "read off" is worth: two lists with one tip
are one list. `StagesInv` says that in a calm behaviour the manifests which the links seen name are
there. `DepositWhole` is proved for any lists of files: the invariant ties the
deposit of the command under way to what that command holds (`LastInv`), and a deposit becomes public
only from there (`WholeInv`, `TitleInv`). `PublicationInv` puts the invariants of the five parts together
with `RestInv` (what a scene has no part in stays where it started): every property above holds in the
composition, and in its scene the composition implements the specification of the part (`SceneOf...`).

Proving changed the models where they were wrong. `GradeRow` looked its level up in the row instead of
in the body, so that no indexed run was ever "bitwise" and `LevelEarned` held for a poor reason; the
proof of `GradeRow` failed there. Values that stand for "none" had to be kept apart from the data
explicitly (`CampaignSentinels`, `AbsentOK`).

**Only model-checked**: `EventuallyConfirmed`, as liveness under fairness is out of the prover's reach.
The violations behind the findings are shown by TLC alone.

## 6. Findings

1. `verify_race` (verify.py:411). `_existed_by_status` reads `manifest.ots` again and prints the height
   it finds there without comparing the digest. If an `upgrade` of an older proof lands between the two
   reads, L0 is printed for a hash that is not in Bitcoin. The next `verify` prints the truth.
2. `seed_race` (beacon.py:594). Only the plan's own date is compared with the round. A stamp that takes
   longer than the delay still earns L2, while ladder.py:8 says "L2 requires a beacon-derived seed after
   the plan is anchored". docs/DESIGN.md:74 describes the comparison as it is coded, and README.md:109
   warns of the race: the sources disagree.
3. `seed_config` (verify.py:586). The ladder sees the beacon's gaps but not the precommit row. A record
   whose configuration is not the plan's fails that row and the exit code, and still prints L2; two such
   records give one plan and index two seeds, against "seed not grindable after the plan" (ladder.py:38).
   With exit code 0 this cannot happen (`OneSeedPerPlan`, `SeedNotGrindable`). Of the commit CI recorded
   it is the same: verify.py:46 says that a `git_sha` that differs from it "downgrades the ladder", and the
   ladder is computed without it.
4. `campaign_config` (campaign.py:227). Where the children do not share a configuration, the first one's
   is recorded; where that is empty, the parent gets no `config_hash`, and `verify_campaign` compares only
   where there is one. It prints OK, although the comment at campaign.py:206-207 says "verify will flag
   the hash disagreement".
5. `chain_tip` (chain.py:104). `link_hash` is the digest of `(parent_hash or "") + content_hash`, no form
   of `content_hash` is asked for (chain.py:91), and a link whose `manifest_path` is null is not looked up
   (chain.py:225). The single root link with a null path, the content hash `lh1 ‖ ch2` and the hash `lh2`
   is accepted under the tip of the chain of two, against "`link_hash` commits to the entire history up
   to this point" (chain.py:29-31). Where every link names a manifest it does (`TipFixesHistory`).

**Observed while modelling**, with nothing in the sources to hold against it:

- Overlapping `anchor`, `sign` and `manifest` commands drop each other's stamps; the properties of
  `concurrent` say that no mixture of their files earns a claim.
- A new CID whose binding could not be stamped leaves the old `manifest.cid.ots`, and `reproduce` without
  `--anchor` an old `reproduction.ots`: `verify` then fails. `AnchorVerifies` and `ReproduceVerifies` show
  that with one command at a time nothing else leaves such files, and exempt these two.
- Two `index` commands that overlap lose rows; `RowsKept` says when they do not.
- `upsert_entries` (registry.py:208) looks for the hash first: after a rebuild and a new pin the registry
  may hold two rows with one name, seed and CID.
- The check of the two scans (manifest.py:691) compares counts: one published file removed and another
  created between them cancel out. `DriftCaught` is about one change for that reason. The `RuntimeError`
  it raises, like the `OSError` of a file that vanished, is not caught by the command.
- Changing any withheld file stops new reveals of the others (`RevealWhole`); reveals already written
  still verify (`RevealHasCause`).
- `archive` reads `manifest.json` once for the title and again to upload it; a rebuild in between puts
  another record under that title, hence the `calm` in `DepositWhole`. A publish that was carried out and
  whose answer was lost is repeated as a second public deposit. Uploads keep only the last part of the
  path, so two files of one name collide.
- The coverage note of `verify --campaign` counts the `seed_index` of every child, of whatever plan.

## 7. Not modelled

`eas.py` and `ipfs.py` make one outside call each and keep nothing; `interop.py` and the Software
Heritage lookup of `archive.py` change nothing. `paper.py`, `plugins.py`, `diagnose.py`,
`fingerprint.py`, `schema.py` and `scope.py` format, capture or forward. `derive.py` runs the recorded
derivation commands once, compares hashes and keeps nothing. Plans without a `seed_plan`, the L1 gaps,
publish profiles and glob matching, and the git queries of `build_manifest` are not modelled: the first
two add no state, the last two are text and a work tree. Hashing, canonical JSON and the OpenTimestamps
encoding are represented by what they guarantee; drand's threshold signatures are not checked by the
code either.

## Running

    tlc -config RunRecordConcurrent.cfg MCRunRecord
    tlc -config SeedPlanSequential.cfg MCSeedPlan
    tlapm RunRecordProofs.tla
    tlapm SeedPlanProofs.tla
    tlc -config Receipt.cfg MCReceipt
    tlapm ReceiptProofs.tla
    tlc -config Publication.cfg MCPublication
    tlapm CampaignProofs.tla
    tlapm RegistryProofs.tla
    tlapm WithheldProofs.tla
    tlapm PublicationProofs.tla
