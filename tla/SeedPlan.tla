------------------------------ MODULE SeedPlan ------------------------------
(***************************************************************************)
(* The plan of a run and the seeds drawn for it: `precommit --seed-count`, *)
(* `derive-seeds`, `manifest --precommit` and the L2 rung of `verify`.     *)
(*                                                                         *)
(* `precommit` writes precommit.json, which names a future drand round,    *)
(* and has a calendar stamp its hash in precommit.ots.  `derive-seeds`     *)
(* waits for exactly that round and writes seeds.json.  `manifest` copies  *)
(* the plan and its proof into the run directory and binds one seed to the *)
(* record.  These files may be made in the run directory or beside it, one *)
(* at a time and without a lock, while the clock and drand move on.        *)
(*                                                                         *)
(* A plan stands for its own hash and a seed for what it was derived from: *)
(* SHA-256 is taken to be injective.  There is one drand chain, and every  *)
(* plan has a seed_plan.  `config` is the configuration without its seed   *)
(* key; command and git_sha are compared the way it is and left out.  The  *)
(* ladder's lower rungs (RunRecord) are taken as earned.  `precommit` and  *)
(* `verify` ask drand itself, the two commands between may be given a      *)
(* --beacon-fixture, whose randomness is made up.                          *)
(***************************************************************************)
EXTENDS Integers

CONSTANTS
    Procs,        \* farm-notary invocations that may run side by side
    Dirs,         \* directories that may hold a plan
    RunDir,       \* the one that holds manifest.json
    Configs,      \* run configurations, seed keys stripped
    Period,       \* seconds between drand rounds
    Delays,       \* values of --delay-rounds
    Lag,          \* rounds by which the answer to `latest` may be behind
    Count,        \* seed_plan.count
    MaxTime,      \* bound on the clock
    MaxCommands,  \* bound on the invocations that write files
    None, NoFile

\* precommit.json; min_round 0 until the beacon has answered.
Plan == [config : Configs, created : Nat, minRound : Nat]

Sources == {"drand", "fixture"}
Indices == 0 .. Count - 1

\* seeds.json: the list of seeds is the one of this config.
Seeds == [config : Configs, round : Nat, randomness : Sources]

Seed == [config : Configs, round : Nat, randomness : Sources, index : Indices]

\* manifest.beacon, whose derived_seed is also the seed key of the config.
Beacon == [round : Nat, randomness : Sources, index : Indices, seed : Seed]

\* manifest.json, with precommit_hash.
Run == [config : Configs, plan : Plan, beacon : Beacon \cup {None}]

Steps == {"idle", "plan round", "write plan", "stamp", "write proof",
          "check proof", "fetch", "write seeds",
          "copy plan", "copy proof", "bind", "write run", "verify"}

ASSUME ConstantsOK ==
    /\ RunDir \in Dirs
    /\ Period \in Nat \ {0}
    /\ Lag \in Nat
    /\ Delays \subseteq Nat \ {0}
    /\ Count \in Nat \ {0}
    /\ MaxTime \in Nat /\ MaxCommands \in Nat

ASSUME Sentinels ==
    /\ None \notin Plan /\ None \notin Seeds /\ None \notin Run
    /\ None \notin Dirs /\ None \notin Beacon
    /\ NoFile \notin Plan /\ NoFile \notin Seeds /\ NoFile \notin Run

VARIABLES
    now,       \* the clock, in seconds since drand's genesis
    plan,      \* precommit.json in each directory
    proof,     \* precommit.ots: the plan it commits to
    seeds,     \* seeds.json
    manifest,  \* manifest.json of the run
    held,      \* plans a calendar accepted, each with the time
    pc,        \* the step each invocation is about to take
    dir,       \* the directory its plan is in
    draft,     \* the plan it holds in memory
    drawn,     \* the seeds it holds in memory
    run,       \* the manifest it holds in memory
    budget,    \* writing invocations left
    earned     \* what `verify` ever printed L2 for, and whether it exited 0

files == <<plan, proof, seeds, manifest>>
memory == <<dir, draft, drawn, run>>
vars == <<now, files, held, pc, memory, budget, earned>>

Init ==
    /\ now = 0
    /\ plan = [d \in Dirs |-> NoFile]
    /\ proof = [d \in Dirs |-> NoFile]
    /\ seeds = [d \in Dirs |-> NoFile]
    /\ manifest = NoFile
    /\ held = {}
    /\ pc = [p \in Procs |-> "idle"]
    /\ dir = [p \in Procs |-> None]
    /\ draft = [p \in Procs |-> None]
    /\ drawn = [p \in Procs |-> None]
    /\ run = [p \in Procs |-> None]
    /\ budget = MaxCommands
    /\ earned = {}
-----------------------------------------------------------------------------
(* drand. *)

RoundTime(r) == (r - 1) * Period

Published(r) == r >= 1 /\ RoundTime(r) <= now

\* What `latest` may answer: the newest round, or one at most Lag behind.
MayBeLatest(r) == Published(r) /\ now < RoundTime(r + 1 + Lag)

\* A fixture file has whatever rounds it lists.
Available(source, r) == source = "fixture" \/ Published(r)

DeriveSeed(config, round, randomness, index) ==
    [config |-> config, round |-> round, randomness |-> randomness, index |-> index]
-----------------------------------------------------------------------------
(* Starting, moving and ending an invocation. *)

Start(p) == pc[p] = "idle" /\ budget > 0 /\ budget' = budget - 1

Goto(p, step) == pc' = [pc EXCEPT ![p] = step]

Finish(p) ==
    /\ Goto(p, "idle")
    /\ dir' = [dir EXCEPT ![p] = None]
    /\ draft' = [draft EXCEPT ![p] = None]
    /\ drawn' = [drawn EXCEPT ![p] = None]
    /\ run' = [run EXCEPT ![p] = None]
-----------------------------------------------------------------------------
(* `precommit`: created_utc is read first, then the beacon is asked, then  *)
(* the plan is written, then it is stamped.  A dry run, an error of the    *)
(* beacon and an outage of the calendars end it early: Stop.               *)

Precommit(p, d, config) ==
    /\ Start(p)
    /\ dir' = [dir EXCEPT ![p] = d]
    /\ draft' = [draft EXCEPT ![p] = [config |-> config, created |-> now, minRound |-> 0]]
    /\ Goto(p, "plan round")
    /\ UNCHANGED <<now, files, held, drawn, run, earned>>

\* Mutant: the round is never recorded.
PlanRoundForgotten(p, latest, delay) ==
    /\ pc[p] = "plan round"
    /\ MayBeLatest(latest)
    /\ Goto(p, "write plan")
    /\ UNCHANGED <<now, files, held, memory, budget, earned>>

PlanRound(p, latest, delay) ==
    /\ pc[p] = "plan round"
    /\ MayBeLatest(latest)
    /\ draft' = [draft EXCEPT ![p].minRound = latest + delay]
    /\ Goto(p, "write plan")
    /\ UNCHANGED <<now, files, held, dir, drawn, run, budget, earned>>

\* Mutant: the plan is dated when it is written.
WritePlanDated(p) ==
    /\ pc[p] = "write plan"
    /\ plan' = [plan EXCEPT ![dir[p]] = [draft[p] EXCEPT !.created = now]]
    /\ Goto(p, "stamp")
    /\ UNCHANGED <<now, proof, seeds, manifest, held, memory, budget, earned>>

WritePlan(p) ==
    /\ pc[p] = "write plan"
    /\ plan' = [plan EXCEPT ![dir[p]] = draft[p]]
    /\ Goto(p, "stamp")
    /\ UNCHANGED <<now, proof, seeds, manifest, held, memory, budget, earned>>

StampPlan(p) ==
    /\ pc[p] = "stamp"
    /\ held' = held \cup {[plan |-> draft[p], time |-> now]}
    /\ Goto(p, "write proof")
    /\ UNCHANGED <<now, files, memory, budget, earned>>

WriteProof(p) ==
    /\ pc[p] = "write proof"
    /\ proof' = [proof EXCEPT ![dir[p]] = draft[p]]
    /\ Finish(p)
    /\ UNCHANGED <<now, plan, seeds, manifest, held, budget, earned>>
-----------------------------------------------------------------------------
(* `derive-seeds`: load the plan, refuse it without a proof that commits   *)
(* to it, fetch exactly min_round and write the seeds.                     *)

DeriveSeeds(p, d) ==
    /\ Start(p)
    /\ plan[d] # NoFile
    /\ dir' = [dir EXCEPT ![p] = d]
    /\ draft' = [draft EXCEPT ![p] = plan[d]]
    /\ Goto(p, "check proof")
    /\ UNCHANGED <<now, files, held, drawn, run, earned>>

\* verify_proof on precommit.ots: a pending attestation is enough.
Commits(f, pl) == f = pl

\* Mutant: any proof will do.
RequireSomeProof(p) ==
    /\ pc[p] = "check proof"
    /\ proof[dir[p]] # NoFile
    /\ Goto(p, "fetch")
    /\ UNCHANGED <<now, files, held, memory, budget, earned>>

RequireProof(p) ==
    /\ pc[p] = "check proof"
    /\ Commits(proof[dir[p]], draft[p])
    /\ Goto(p, "fetch")
    /\ UNCHANGED <<now, files, held, memory, budget, earned>>

\* With --wait the process stays here until the round is out or it times out.
FetchRound(p, source) ==
    /\ pc[p] = "fetch"
    /\ Available(source, draft[p].minRound)
    /\ drawn' = [drawn EXCEPT ![p] = [config |-> draft[p].config,
                                      round |-> draft[p].minRound,
                                      randomness |-> source]]
    /\ Goto(p, "write seeds")
    /\ UNCHANGED <<now, files, held, dir, draft, run, budget, earned>>

\* Beside the plan, or where --out says.
WriteSeeds(p, d) ==
    /\ pc[p] = "write seeds"
    /\ seeds' = [seeds EXCEPT ![d] = drawn[p]]
    /\ Finish(p)
    /\ UNCHANGED <<now, plan, proof, manifest, held, budget, earned>>
-----------------------------------------------------------------------------
(* `manifest --precommit`: load the plan, copy plan and proof into the run *)
(* directory if they are elsewhere, bind a seed, write the record.         *)

BuildManifest(p, d, config) ==
    /\ Start(p)
    /\ plan[d] # NoFile
    /\ dir' = [dir EXCEPT ![p] = d]
    /\ draft' = [draft EXCEPT ![p] = plan[d]]
    /\ run' = [run EXCEPT ![p] = [config |-> config, plan |-> plan[d], beacon |-> None]]
    /\ Goto(p, IF d = RunDir THEN "bind" ELSE "copy plan")
    /\ UNCHANGED <<now, files, held, drawn, earned>>

\* The file is read again: it may not be the plan that was hashed.
CopyPlan(p) ==
    /\ pc[p] = "copy plan"
    /\ plan' = [plan EXCEPT ![RunDir] = plan[dir[p]]]
    /\ Goto(p, "copy proof")
    /\ UNCHANGED <<now, proof, seeds, manifest, held, memory, budget, earned>>

\* Without a proof beside the plan the run directory keeps the one it has.
CopyProof(p) ==
    /\ pc[p] = "copy proof"
    /\ proof' = IF proof[dir[p]] = NoFile THEN proof
                ELSE [proof EXCEPT ![RunDir] = proof[dir[p]]]
    /\ Goto(p, "bind")
    /\ UNCHANGED <<now, plan, seeds, manifest, held, memory, budget, earned>>

Bound(p, round, randomness, index) ==
    run' = [run EXCEPT ![p].beacon =
        [round |-> round, randomness |-> randomness, index |-> index,
         seed |-> DeriveSeed(run[p].config, round, randomness, index)]]

\* Mutant: the plan is read a second time for its round.
BindSeedsReread(p, d, index) ==
    /\ pc[p] = "bind"
    /\ seeds[d] # NoFile
    /\ plan[dir[p]] # NoFile /\ seeds[d].round = plan[dir[p]].minRound
    /\ Bound(p, seeds[d].round, seeds[d].randomness, index)
    /\ seeds' = [seeds EXCEPT ![RunDir] = seeds[d]]
    /\ Goto(p, "write run")
    /\ UNCHANGED <<now, plan, proof, manifest, held, dir, draft, drawn, budget, earned>>

\* A seeds.json, beside the plan or named by --seeds, must be of min_round;
\* its list of seeds is not read, only its randomness.
BindSeeds(p, d, index) ==
    /\ pc[p] = "bind"
    /\ seeds[d] # NoFile
    /\ seeds[d].round = draft[p].minRound
    /\ Bound(p, seeds[d].round, seeds[d].randomness, index)
    /\ seeds' = [seeds EXCEPT ![RunDir] = seeds[d]]
    /\ Goto(p, "write run")
    /\ UNCHANGED <<now, plan, proof, manifest, held, dir, draft, drawn, budget, earned>>

\* Without a seeds.json the round is fetched; no proof is asked for.
BindFetched(p, d, source, index) ==
    /\ pc[p] = "bind"
    /\ seeds[d] = NoFile
    /\ Available(source, draft[p].minRound)
    /\ Bound(p, draft[p].minRound, source, index)
    /\ Goto(p, "write run")
    /\ UNCHANGED <<now, files, held, dir, draft, drawn, budget, earned>>

\* Without --seed-index a seeds.json beside the plan is only copied.
BindNothing(p) ==
    /\ pc[p] = "bind"
    /\ seeds' = IF seeds[dir[p]] = NoFile THEN seeds
                ELSE [seeds EXCEPT ![RunDir] = seeds[dir[p]]]
    /\ Goto(p, "write run")
    /\ UNCHANGED <<now, plan, proof, manifest, held, memory, budget, earned>>

WriteRun(p) ==
    /\ pc[p] = "write run"
    /\ manifest' = run[p]
    /\ Finish(p)
    /\ UNCHANGED <<now, plan, proof, seeds, held, budget, earned>>
-----------------------------------------------------------------------------
(* `verify --live-beacon` on plan pl and record m. *)

\* Mutant: recorded randomness is believed.
RandomnessBelieved(b) == Published(b.round)

\* The round is fetched again and its randomness compared.
RandomnessOK(b) == Published(b.round) /\ b.randomness = "drand"

\* Mutant: the proof is compared with the plan on disk, not the one that was read.
BeaconEarnedReread(pl, m, f) ==
    /\ m.plan = pl
    /\ Commits(f, plan[RunDir])
    /\ m.beacon # None
    /\ m.beacon.round = pl.minRound
    /\ m.beacon.seed = DeriveSeed(m.config, m.beacon.round,
                                  m.beacon.randomness, m.beacon.index)
    /\ RandomnessOK(m.beacon)
    /\ pl.created <= RoundTime(m.beacon.round)

\* verify_beacon_binding finds neither a gap nor a problem.
BeaconEarned(pl, m, f) ==
    /\ m.plan = pl
    /\ Commits(f, pl)
    /\ m.beacon # None
    /\ m.beacon.round = pl.minRound
    /\ m.beacon.seed = DeriveSeed(m.config, m.beacon.round,
                                  m.beacon.randomness, m.beacon.index)
    /\ RandomnessOK(m.beacon)
    /\ pl.created <= RoundTime(m.beacon.round)

\* verify_precommit finds no problem; it reads both files for itself.
PrecommitOK(m) ==
    /\ plan[RunDir] = m.plan
    /\ plan[RunDir].config = m.config
    /\ proof[RunDir] # NoFile => Commits(proof[RunDir], plan[RunDir])

Verify(p) ==
    /\ pc[p] = "idle"
    /\ plan[RunDir] # NoFile /\ manifest # NoFile
    /\ draft' = [draft EXCEPT ![p] = plan[RunDir]]
    /\ run' = [run EXCEPT ![p] = manifest]
    /\ Goto(p, "verify")
    /\ UNCHANGED <<now, files, held, dir, drawn, budget, earned>>

\* The rung follows from the beacon's gaps alone, the exit code from every
\* problem on the card.
PrintRung(p) ==
    /\ pc[p] = "verify"
    /\ earned' = IF BeaconEarned(draft[p], run[p], proof[RunDir])
                 THEN earned \cup {[plan |-> draft[p], seed |-> run[p].beacon.seed,
                                    exit0 |-> PrecommitOK(run[p])]}
                 ELSE earned
    /\ Finish(p)
    /\ UNCHANGED <<now, files, held, budget>>
-----------------------------------------------------------------------------
(* An invocation ends early: it is killed, refuses its input, the network  *)
(* fails, or --wait times out.                                             *)
Stop(p) ==
    /\ pc[p] # "idle"
    /\ Finish(p)
    /\ UNCHANGED <<now, files, held, budget, earned>>

Tick ==
    /\ now < MaxTime
    /\ now' = now + 1
    /\ UNCHANGED <<files, held, pc, memory, budget, earned>>
-----------------------------------------------------------------------------
\* Every round that is out by MaxTime.
Rounds == 1 .. MaxTime + 1

Next ==
    \/ \E p \in Procs :
         \/ \E d \in Dirs, config \in Configs :
              Precommit(p, d, config) \/ BuildManifest(p, d, config)
         \/ \E latest \in Rounds, delay \in Delays : PlanRound(p, latest, delay)
         \/ WritePlan(p) \/ StampPlan(p) \/ WriteProof(p)
         \/ \E d \in Dirs : DeriveSeeds(p, d) \/ WriteSeeds(p, d)
         \/ RequireProof(p)
         \/ \E source \in Sources : FetchRound(p, source)
         \/ CopyPlan(p) \/ CopyProof(p)
         \/ \E d \in Dirs, index \in Indices :
              \/ BindSeeds(p, d, index)
              \/ \E source \in Sources : BindFetched(p, d, source, index)
         \/ BindNothing(p) \/ WriteRun(p)
         \/ Verify(p) \/ PrintRung(p)
         \/ Stop(p)
    \/ Tick

Spec == Init /\ [][Next]_vars
-----------------------------------------------------------------------------
Planned == {pl \in Plan : pl.minRound # 0}

Earning == [plan : Planned, seed : Seed, exit0 : BOOLEAN]

(* Every variable has its type. *)
TypeOK ==
    /\ now \in Nat
    /\ plan \in [Dirs -> Planned \cup {NoFile}]
    /\ proof \in [Dirs -> Planned \cup {NoFile}]
    /\ seeds \in [Dirs -> Seeds \cup {NoFile}]
    /\ manifest \in Run \cup {NoFile}
    /\ held \subseteq [plan : Planned, time : Nat]
    /\ pc \in [Procs -> Steps]
    /\ dir \in [Procs -> Dirs \cup {None}]
    /\ draft \in [Procs -> Plan \cup {None}]
    /\ drawn \in [Procs -> Seeds \cup {None}]
    /\ run \in [Procs -> Run \cup {None}]
    /\ budget \in Nat
    /\ earned \subseteq Earning

Stamped(pl) == \E h \in held : h.plan = pl

(* seeds.json never holds seeds of a plan no calendar took, whatever       *)
(* proofs of other plans lie beside it and however often the plan is       *)
(* replaced while derive-seeds waits (require_precommit_proof).            *)
SeedsAfterStamp ==
    \A d \in Dirs : seeds[d] # NoFile =>
        \E h \in held : h.plan.config = seeds[d].config /\ h.plan.minRound = seeds[d].round

(* A record is bound to the round its own plan named: a seeds.json left    *)
(* over from an earlier plan is never used for a later one                 *)
(* (_resolve_plan_randomness, bind_run_seed).                              *)
SeedOfPlan ==
    manifest # NoFile /\ manifest.beacon # None =>
        manifest.beacon.round = manifest.plan.minRound

(* A plan is dated before the round it names is out, however long the      *)
(* beacon takes to answer, if the delay exceeds the lag of `latest`: its   *)
(* own date never costs it L2 (build_precommit reads the clock first).     *)
DatedBeforeRound ==
    (\A delay \in Delays : delay > Lag) =>
        \A d \in Dirs : plan[d] # NoFile => plan[d].created < RoundTime(plan[d].minRound)

(* L2 is printed only for a plan a calendar took and a round that is out,  *)
(* whichever files were swapped under the feet of verify.                  *)
L2PlanStamped ==
    \A e \in earned : Stamped(e.plan) /\ Published(e.plan.minRound)

Shopped(e, f) == e.plan = f.plan /\ e.seed.index = f.seed.index /\ e.seed # f.seed

(* One plan and index earn L2 with exit code 0 for one seed only: neither  *)
(* another round, nor made-up randomness, nor another configuration gives  *)
(* a second choice (docs/CLAIMS.md: seed not grindable after the plan).    *)
OneSeedPerPlan ==
    \A e, f \in earned : e.exit0 /\ f.exit0 => ~Shopped(e, f)

(* The same of the printed rung, whatever the exit code: what ladder.py    *)
(* says L2 means.                                                          *)
OneSeedPerRung == \A e, f \in earned : ~Shopped(e, f)

(* L2 is printed only for a plan that was anchored before its round was    *)
(* out: "a beacon-derived seed after the plan is anchored", ladder.py.     *)
AnchoredBeforeRound ==
    \A e \in earned : \E h \in held :
        h.plan = e.plan /\ h.time <= RoundTime(e.plan.minRound)

=============================================================================
