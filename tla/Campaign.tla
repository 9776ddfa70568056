------------------------------ MODULE Campaign ------------------------------
(***************************************************************************)
(* campaign.json: `campaign` copies the hashes of several run directories  *)
(* into one parent record, `verify --campaign` compares them with the      *)
(* directories as they are then.  Both load the children one after the     *)
(* other, and verify hashes the artifacts of each in a further step.       *)
(*                                                                         *)
(* One invocation at a time is modelled: campaign.json is read in one step *)
(* and written in one, so that a second one would only replace the file.   *)
(* All directories lie next to the campaign, so that every child has a     *)
(* path; seed_index and seed follow from the content hash.                 *)
(***************************************************************************)
EXTENDS RunDirs

CONSTANTS
    RunLists,   \* the --run-dir lists given to `campaign` and `chain`
    Configs,    \* configurations without seed
    Empty       \* the empty one, that of a manifest built without --config

\* child_entry; the seed-excluded config hash follows from the body.
Entry == [dir : Dirs, body : Bodies, cid : Cids \cup {None}, level : Levels]

\* seedPlan is the copy of the fields of the plan, precommit names its hash.
CampaignFile == [runs : Seq(Entry), config : Configs \cup {None},
                 precommit : Plans \cup {None}, seedPlan : Plans \cup {None}]

CampaignSteps == {"idle", "load", "grade", "reload", "plan", "write",
                  "check", "rehash", "verdict", "printed"}

Verdicts == {"OK", "INCOMPLETE", "FAIL"}

ASSUME ConfigsOK ==
    /\ Empty \in Configs /\ None \notin Configs
    /\ ConfigOf \in [Bodies -> Configs]
    /\ RunLists \subseteq Seq(Dirs) \ {<<>>}

ASSUME CampaignSentinels ==
    /\ None \notin CampaignFile \cup Verdicts
    /\ NoFile \notin CampaignFile /\ Torn \notin CampaignFile

VARIABLES
    campaign,   \* campaign.json
    cpc,        \* the step the invocation is about to take
    list,       \* its --run-dir list
    given,      \* its --config, or None
    parent,     \* the campaign it builds or has loaded
    checked,    \* verify: the children that were loaded
    problem,    \* verify: something to report
    asked,      \* verify: --require-local
    verdict     \* verify: the first word it prints

job == <<list, given, parent, checked, problem, asked, verdict>>
campaignVars == <<campaign, cpc, job>>

NoJob == /\ list' = <<>> /\ given' = None /\ parent' = None /\ checked' = {}
         /\ problem' = FALSE /\ asked' = FALSE /\ verdict' = None

CampaignInit ==
    /\ campaign = NoFile
    /\ cpc = "idle"
    /\ list = <<>> /\ given = None /\ parent = None /\ checked = {}
    /\ problem = FALSE /\ asked = FALSE /\ verdict = None
-----------------------------------------------------------------------------
(* `campaign`. *)

Runs == parent.runs

\* The first of two values that is not None.
Either(a, b) == IF a # None THEN a ELSE b

BuildCampaign(l, c) ==
    /\ cpc = "idle" /\ Spend
    /\ \A i \in DOMAIN l : manifest[l[i]] # NoFile
    /\ list' = l /\ given' = c
    /\ parent' = [runs |-> <<>>, config |-> None, precommit |-> None, seedPlan |-> None]
    /\ cpc' = "load"
    /\ UNCHANGED <<runVars, campaign, checked, problem, asked, verdict>>

\* The entry of a child before its receipt is looked at.
ChildEntry(d) == [dir |-> d, body |-> manifest[d].body, cid |-> manifest[d].cid,
                  level |-> "bytes"]

\* The configuration all children share, or None.
Shared(runs) ==
    IF \A i \in DOMAIN runs : ConfigOf[runs[i].body] = ConfigOf[runs[1].body]
    THEN ConfigOf[runs[1].body] ELSE None

\* campaign_config is falsy, or agrees with what the children share.
GivenFits(runs) ==
    given \in {None, Empty} \/ Shared(runs) \in {None, given}

\* One turn of the loop: the manifest of a child is loaded, and after it ...
LoadChild ==
    LET d == list[Len(Runs) + 1] IN
    /\ cpc = "load"
    /\ manifest[d] \in Record
    /\ parent' = [parent EXCEPT
           !.runs = Append(@, ChildEntry(d)),
           !.precommit = Either(@, PlanOf[manifest[d].body])]
    /\ cpc' = "grade"
    /\ UNCHANGED <<runVars, campaign, list, given, checked, problem, asked, verdict,
                   commands>>

\* ... its receipt.  After the last child the configuration is decided, and one
\* that does not fit ends the command.
GradeChild ==
    LET n == Len(Runs)
        runs == [Runs EXCEPT ![n].level = ClaimLevel(Runs[n].dir, Runs[n].body)]
    IN /\ cpc = "grade"
       /\ IF n < Len(list)
          THEN cpc' = "load" /\ parent' = [parent EXCEPT !.runs = runs]
          ELSE /\ GivenFits(runs)
               /\ parent' = [parent EXCEPT !.runs = runs,
                      !.config = IF Shared(runs) # None THEN Shared(runs)
                                 ELSE IF given = Empty THEN None ELSE given]
               /\ cpc' = IF Shared(runs) = None /\ given \in {None, Empty}
                         THEN "reload" ELSE "plan"
       /\ UNCHANGED <<runVars, campaign, list, given, checked, problem, asked, verdict,
                      commands>>

\* The children do not agree: the first is loaded again for its configuration.
\* An empty one leaves config_hash out.
ReloadConfig ==
    /\ cpc = "reload"
    /\ manifest[list[1]] \in Record
    /\ parent' = [parent EXCEPT !.config =
           LET c == ConfigOf[manifest[list[1]].body] IN IF c = Empty THEN None ELSE c]
    /\ cpc' = "plan"
    /\ UNCHANGED <<runVars, campaign, list, given, checked, problem, asked, verdict,
                   commands>>

\* Mutant: any precommit.json of a child will do.
SharedSeedPlanOfAny(runs, hash) ==
    LET held == {plan[runs[i].dir] : i \in DOMAIN runs} \ {NoFile}
    IN IF hash # None /\ held # {} THEN CHOOSE q \in held : TRUE ELSE None

\* _shared_seed_plan: a child still has the plan with that hash.
SharedSeedPlan(runs, hash) ==
    IF hash # None /\ \E i \in DOMAIN runs : plan[runs[i].dir] = hash THEN hash ELSE None

CopySeedPlan ==
    /\ cpc = "plan"
    /\ parent' = [parent EXCEPT !.seedPlan = SharedSeedPlan(Runs, parent.precommit)]
    /\ cpc' = "write"
    /\ UNCHANGED <<runVars, campaign, list, given, checked, problem, asked, verdict,
                   commands>>

WriteCampaign ==
    /\ cpc = "write"
    /\ campaign' = parent
    /\ cpc' = "idle" /\ NoJob
    /\ UNCHANGED <<runVars, commands>>
-----------------------------------------------------------------------------
(* `verify --campaign`. *)

\* Mutant: the copied fields are taken as they are.
PlanDiffersNever(f) == FALSE

\* seed_plan against the plan a child still has.
PlanDiffers(f) ==
    LET committed == SharedSeedPlan(f.runs, f.precommit)
    IN f.seedPlan # None /\ committed # None /\ f.seedPlan # committed

VerifyCampaign(local) ==
    /\ cpc = "idle" /\ Spend
    /\ campaign \in CampaignFile
    /\ parent' = campaign
    /\ problem' = PlanDiffers(campaign)
    /\ asked' = local
    /\ list' = [i \in DOMAIN campaign.runs |-> campaign.runs[i].dir]
    /\ cpc' = "check"
    /\ UNCHANGED <<runVars, campaign, given, checked, verdict>>

\* The child verify has come to: `list` is what remains.
Child == Runs[Len(Runs) - Len(list) + 1]

\* Mutant: an address that was added or taken away is a difference too.
ChildDiffersInStamp(entry, r) ==
    \/ r.body # entry.body
    \/ parent.config # None /\ ConfigOf[r.body] # parent.config
    \/ entry.cid # r.cid

\* What a loaded child can differ in.
ChildDiffers(entry, r) ==
    \/ r.body # entry.body
    \/ parent.config # None /\ ConfigOf[r.body] # parent.config
    \/ entry.cid # None /\ r.cid # None /\ entry.cid # r.cid

\* Mutant: a child that cannot be loaded is passed over.
CheckChildSkipping ==
    LET d == Child.dir IN
    /\ cpc = "check" /\ list # <<>>
    /\ IF manifest[d] \in Record
       THEN /\ checked' = checked \cup {Len(Runs) - Len(list) + 1}
            /\ problem' = (problem \/ ChildDiffers(Child, manifest[d]))
            /\ cpc' = "rehash" /\ UNCHANGED list
       ELSE /\ checked' = checked \cup {Len(Runs) - Len(list) + 1}
            /\ problem' = problem
            /\ list' = Tail(list) /\ UNCHANGED cpc
    /\ UNCHANGED <<runVars, campaign, given, parent, asked, verdict, commands>>

\* One child: absent it is skipped, unless --require-local, torn it is a problem.
CheckChild ==
    LET d == Child.dir
        disagrees == parent.config # None /\ ConfigOf[Child.body] # parent.config
    IN /\ cpc = "check" /\ list # <<>>
       /\ IF manifest[d] \in Record
          THEN /\ checked' = checked \cup {Len(Runs) - Len(list) + 1}
               /\ problem' = (problem \/ disagrees \/ ChildDiffers(Child, manifest[d]))
               /\ cpc' = "rehash" /\ UNCHANGED list
          ELSE /\ problem' = (problem \/ disagrees \/ manifest[d] = Torn \/ asked)
               /\ list' = Tail(list) /\ UNCHANGED <<checked, cpc>>
       /\ UNCHANGED <<runVars, campaign, given, parent, asked, verdict, commands>>

\* verify_run_dir of the child: against the manifest just loaded, which is a problem
\* already where it is not the recorded one.
RehashChild ==
    /\ cpc = "rehash"
    /\ problem' = (problem \/ files[Child.dir] # Child.body)
    /\ list' = Tail(list)
    /\ cpc' = "check"
    /\ UNCHANGED <<runVars, campaign, given, parent, checked, asked, verdict, commands>>

\* OK only when every listed child was loaded.
PrintVerdict ==
    /\ cpc = "check" /\ list = <<>>
    /\ verdict' = CASE problem -> "FAIL"
                    [] ~problem /\ checked = DOMAIN Runs -> "OK"
                    [] OTHER -> "INCOMPLETE"
    /\ cpc' = "printed"
    /\ UNCHANGED <<runVars, campaign, list, given, parent, checked, problem, asked,
                   commands>>
-----------------------------------------------------------------------------
\* The invocation ends: after its verdict, with an error, or killed.
EndCampaign ==
    /\ cpc # "idle"
    /\ cpc' = "idle" /\ NoJob
    /\ UNCHANGED <<runVars, campaign, commands>>

\* Killed inside write_text.
TearCampaign ==
    /\ cpc = "write"
    /\ campaign' = Torn
    /\ cpc' = "idle" /\ NoJob
    /\ UNCHANGED <<runVars, commands>>

\* The copied plan is edited by hand.
EditCampaign(q) ==
    /\ Edit
    /\ campaign \in CampaignFile
    /\ campaign.seedPlan # None
    /\ campaign' = [campaign EXCEPT !.seedPlan = q]
    /\ UNCHANGED <<files, manifest, receipt, plan, rerun, commands, cpc, job>>

CampaignOwner ==
    /\ calm => cpc = "idle"
    /\ \/ Owner /\ UNCHANGED campaignVars
       \/ \E q \in Plans : EditCampaign(q)

CampaignBuild ==
    \/ LoadChild \/ GradeChild \/ ReloadConfig \/ CopySeedPlan \/ WriteCampaign
    \/ EndCampaign \/ TearCampaign

CampaignVerify ==
    \/ \E local \in BOOLEAN : VerifyCampaign(local)
    \/ CheckChild \/ RehashChild \/ PrintVerdict

CampaignNext ==
    \/ CampaignOwner
    \/ \E l \in RunLists, c \in Configs \cup {None} : BuildCampaign(l, c)
    \/ CampaignBuild \/ CampaignVerify

CampaignSpec ==
    RunInit /\ CampaignInit /\ [][CampaignNext]_<<runVars, commands, campaignVars>>
-----------------------------------------------------------------------------
CampaignTypeOK ==
    /\ RunTypeOK
    /\ campaign \in CampaignFile \cup {NoFile, Torn}
    /\ cpc \in CampaignSteps
    /\ list \in Seq(Dirs)
    /\ given \in Configs \cup {None}
    /\ parent \in CampaignFile \cup {None}
    /\ checked \subseteq Nat
    /\ problem \in BOOLEAN /\ asked \in BOOLEAN
    /\ verdict \in Verdicts \cup {None}

\* The child at index i has the recorded content, artifacts included, and the
\* configuration the campaign names.
Intact(i) ==
    LET entry == Runs[i] IN
    /\ manifest[entry.dir] \in Record
    /\ manifest[entry.dir].body = entry.body
    /\ files[entry.dir] = entry.body
    /\ parent.config \in {None, ConfigOf[entry.body]}

\* When the directories are left alone while it runs, `verify --campaign` prints
\* OK only if every listed child is there and intact: none is passed over, none is
\* taken for another (campaign.py:302-363, cli.py:1264-1274).
OkMeansIntact ==
    calm /\ verdict = "OK" => \A i \in DOMAIN Runs : Intact(i)

\* FAIL has a cause in the files: a plan that was edited, a child that is not intact
\* or, where that is asked, not there, or two addresses that differ.  Stamps that
\* `anchor` adds after the campaign was built never break it (campaign.py:289-362).
FailHasCause ==
    calm /\ verdict = "FAIL" =>
       \/ parent.seedPlan # parent.precommit
       \/ \E i \in DOMAIN Runs :
            LET d == Runs[i].dir IN
            \/ ~Intact(i) /\ (manifest[d] = NoFile => asked \/ parent.config # None)
            \/ manifest[d] \in Record /\ {Runs[i].cid, manifest[d].cid} \subseteq Cids
                                     /\ Runs[i].cid # manifest[d].cid

\* The plan a campaign is built with is that of one of the children it lists,
\* whatever becomes of the directories between the loads: the fields copied are
\* those of the hash it names (campaign.py:192-216, 366-386).
PlanOfChild ==
    cpc = "write" =>
       /\ parent.seedPlan \in {None, parent.precommit}
       /\ parent.precommit # None =>
             \E i \in DOMAIN Runs : PlanOf[Runs[i].body] = parent.precommit

\* A campaign that verifies shows the fields of the plan it names, as long as
\* one child still has the file: edited fields are found (campaign.py:278-300).
PlanCommitted ==
    calm /\ verdict = "OK" /\ parent.seedPlan # None
       /\ (\E i \in DOMAIN Runs : plan[Runs[i].dir] = parent.precommit)
    => parent.seedPlan = parent.precommit

\* The comment of build_campaign (campaign.py:206-207): when the children do not
\* share a configuration, "verify will flag the hash disagreement".
DisagreementFlagged ==
    verdict = "OK" =>
       \A i, j \in DOMAIN Runs : ConfigOf[Runs[i].body] = ConfigOf[Runs[j].body]
=============================================================================
