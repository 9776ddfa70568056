--------------------------- MODULE CampaignProofs ---------------------------
(***************************************************************************)
(* Proofs about the run directories and about Campaign, for any            *)
(* directories, bodies and numbers of children.                            *)
(*                                                                         *)
(* What every step of the owner of the directories keeps, whichever        *)
(* command runs beside it, is stated first; the proofs about the other     *)
(* commands cite these facts.                                              *)
(***************************************************************************)
EXTENDS Campaign, TLAPS

\* A reproduction that agreed was really made.
HonestInv ==
    \A d \in Dirs : receipt[d] # NoFile =>
       (receipt[d].ok => receipt[d].of \in rerun)

DirsInv == RunTypeOK /\ HonestInv

LEMMA RunInitType == RunInit => DirsInv
<1> SUFFICES ASSUME RunInit PROVE DirsInv
  OBVIOUS
<1>1. files \in [Dirs -> Bodies]
  BY DirsOK DEF RunInit
<1>2. manifest \in [Dirs -> Record \cup {NoFile, Torn}]
  BY <1>1 DEF RunInit, Record
<1>3. plan \in [Dirs -> Plans \cup {NoFile}]
  BY <1>1, DirsOK DEF RunInit
<1>. QED BY <1>1, <1>2, <1>3, DirsOK DEF RunInit, DirsInv, RunTypeOK, HonestInv

LEMMA EditType == edits \in Nat /\ Edit => edits' \in Nat /\ calm' = calm
BY DEF Edit

LEMMA SpendType == commands \in Nat /\ Spend => commands' \in Nat
BY DEF Spend

LEMMA UnchangedDirs == ASSUME DirsInv, UNCHANGED runVars, commands' \in Nat PROVE DirsInv'
BY DEF runVars, DirsInv, RunTypeOK, HonestInv

LEMMA RebuildKeeps ==
    ASSUME DirsInv, NEW d \in Dirs, NEW b \in Bodies, Rebuild(d, b), UNCHANGED commands
    PROVE  DirsInv'
<1>1. manifest' \in [Dirs -> Record \cup {NoFile, Torn}]
  BY DEF Rebuild, DirsInv, RunTypeOK, Record
<1>2. plan' \in [Dirs -> Plans \cup {NoFile}]
  BY DirsOK DEF Rebuild, DirsInv, RunTypeOK
<1>. QED BY <1>1, <1>2, EditType DEF Rebuild, DirsInv, RunTypeOK, HonestInv, Edit

LEMMA PinKeeps ==
    ASSUME DirsInv, NEW d \in Dirs, NEW c \in Cids, Pin(d, c), UNCHANGED commands
    PROVE  DirsInv'
<1>1. manifest' \in [Dirs -> Record \cup {NoFile, Torn}]
  BY DEF Pin, DirsInv, RunTypeOK, Record
<1>. QED BY <1>1, EditType DEF Pin, DirsInv, RunTypeOK, HonestInv, Edit

LEMMA ReproduceKeeps ==
    ASSUME DirsInv, NEW d \in Dirs, NEW ok \in BOOLEAN, Reproduce(d, ok), UNCHANGED commands
    PROVE  DirsInv'
<1>1. manifest[d].body \in Bodies
  BY DEF Reproduce, Record
<1>2. receipt' \in [Dirs -> Reproduction \cup {NoFile}] /\ rerun' \subseteq Bodies
  BY <1>1 DEF Reproduce, DirsInv, RunTypeOK, Reproduction
<1>3. HonestInv'
  BY <1>1 DEF Reproduce, DirsInv, RunTypeOK, HonestInv
<1>. QED BY <1>2, <1>3, EditType DEF Reproduce, DirsInv, RunTypeOK, Edit

LEMMA SpoilKeeps ==
    ASSUME DirsInv, NEW d \in Dirs, NEW lost \in {NoFile, Torn}, Spoil(d, lost),
           UNCHANGED commands
    PROVE  DirsInv'
BY EditType DEF Spoil, DirsInv, RunTypeOK, HonestInv, Edit

LEMMA OwnerKeeps == DirsInv /\ Owner => DirsInv'
<1> SUFFICES ASSUME DirsInv, Owner PROVE DirsInv'
  OBVIOUS
<1>1. ASSUME NEW d \in Dirs, NEW b \in Bodies, Rebuild(d, b) PROVE DirsInv'
  BY <1>1, RebuildKeeps DEF Owner
<1>2. ASSUME NEW d \in Dirs, NEW b \in Bodies, EditFiles(d, b) PROVE DirsInv'
  BY <1>2, EditType DEF Owner, EditFiles, DirsInv, RunTypeOK, HonestInv, Edit
<1>3. ASSUME NEW d \in Dirs, NEW c \in Cids, Pin(d, c) PROVE DirsInv'
  BY <1>3, PinKeeps DEF Owner
<1>4. ASSUME NEW d \in Dirs, NEW ok \in BOOLEAN, Reproduce(d, ok) PROVE DirsInv'
  BY <1>4, ReproduceKeeps DEF Owner
<1>5. ASSUME NEW d \in Dirs, NEW lost \in {NoFile, Torn}, Spoil(d, lost) PROVE DirsInv'
  BY <1>5, SpoilKeeps DEF Owner
<1>. QED BY <1>1, <1>2, <1>3, <1>4, <1>5 DEF Owner

\* The owner never forgets that a body was reproduced.
LEMMA RerunGrows == DirsInv /\ Owner => rerun \subseteq rerun'
BY DEF Owner, Rebuild, EditFiles, Pin, Reproduce, Spoil

\* A directory is called "bitwise" only of a body that was run again.
LEMMA LevelHonest ==
    ASSUME DirsInv, NEW d \in Dirs, NEW b \in Bodies
    PROVE  /\ ClaimLevel(d, b) \in Levels
           /\ ClaimLevel(d, b) = "bitwise" => b \in rerun
<1>1. receipt[d] \in Reproduction \cup {NoFile}
  BY DEF DirsInv, RunTypeOK
<1>2. ASSUME receipt[d] = [of |-> b, ok |-> TRUE] PROVE b \in rerun
  <2>1. receipt[d] \in Reproduction
    BY <1>2 DEF Reproduction
  <2>2. receipt[d] # NoFile
    BY <2>1, DirSentinels
  <2>3. receipt[d].ok
    <3>1. receipt[d].ok = TRUE
      BY <1>2
    <3>. QED BY <3>1, Zenon
  <2>4. receipt[d].of = b
    BY <1>2
  <2>. QED BY <2>2, <2>3, <2>4 DEF DirsInv, HonestInv
<1>. QED BY <1>1, <1>2, DirSentinels DEF ClaimLevel, Levels, Reproduction
-----------------------------------------------------------------------------
(* The invariant. *)

Building == {"load", "grade", "reload", "plan", "write"}
Verifying == {"check", "rehash", "printed"}

\* What the invocation holds at each step.
StepInv ==
    /\ cpc = "idle" => checked = {}
    /\ verdict # None => cpc = "printed"
    /\ cpc # "idle" => parent \in CampaignFile
    /\ cpc = "load" => Len(Runs) < Len(list)
    /\ cpc \in {"grade", "reload", "plan", "write"} => Len(Runs) \in 1 .. Len(list)
    /\ cpc \in {"check", "rehash"} => Len(list) <= Len(Runs)
    /\ cpc = "rehash" => list # <<>>
    /\ cpc = "printed" => list = <<>>
    /\ verdict = "OK" => ~problem /\ checked = DOMAIN Runs
    /\ verdict = "FAIL" => problem
    /\ campaign \in CampaignFile => Len(campaign.runs) > 0

\* The plan a campaign under way names is that of a child it has loaded.
PlanInv ==
    cpc \in Building =>
       /\ parent.seedPlan \in {None, parent.precommit}
       /\ parent.precommit # None =>
             \E i \in DOMAIN Runs : PlanOf[Runs[i].body] = parent.precommit

\* Fields are copied only of a plan that is named.
NamedInv ==
    \A f \in {campaign, parent} \cap CampaignFile : f.seedPlan # None => f.precommit # None

\* A level is "bitwise" only of a body that was run again.
EarnedInv ==
    \A f \in {campaign, parent} \cap CampaignFile : \A i \in DOMAIN f.runs :
       f.runs[i].level = "bitwise" => f.runs[i].body \in rerun

\* The children verify is done with.
Done == Len(Runs) - Len(list)

\* The manifest of a child is there with its content.
Recorded(i) ==
    /\ manifest[Runs[i].dir] \in Record
    /\ manifest[Runs[i].dir].body = Runs[i].body
    /\ parent.config \in {None, ConfigOf[Runs[i].body]}

\* While the directories are left alone and nothing was found, the children loaded so
\* far are as recorded, and their artifacts too where these were hashed.
PassedInv ==
    calm /\ cpc \in Verifying /\ ~problem =>
       /\ ~PlanDiffers(parent)
       /\ \A i \in checked :
            /\ i \in 1 .. Done \/ (cpc = "rehash" /\ i = Done + 1)
            /\ Recorded(i)
            /\ i \in 1 .. Done => files[Runs[i].dir] = Runs[i].body

\* What a problem is due to.
Cause ==
    \/ parent.seedPlan # parent.precommit
    \/ \E i \in DOMAIN Runs :
         LET d == Runs[i].dir IN
         \/ ~Intact(i) /\ (manifest[d] = NoFile => asked \/ parent.config # None)
         \/ manifest[d] \in Record /\ {Runs[i].cid, manifest[d].cid} \subseteq Cids
                                  /\ Runs[i].cid # manifest[d].cid

CauseInv ==
    calm /\ cpc \in Verifying =>
       /\ cpc = "rehash" => manifest[Child.dir] \in Record
       /\ problem => Cause

CampaignInv == /\ DirsInv /\ CampaignTypeOK /\ StepInv /\ PlanInv /\ NamedInv
               /\ EarnedInv /\ PassedInv /\ CauseInv
-----------------------------------------------------------------------------
(* Initially, and steps that leave the command alone. *)

\* Where there is no campaign yet.
LEMMA CampaignRests == ASSUME DirsInv, CampaignInit PROVE CampaignInv
<1>1. CampaignTypeOK
  <2>1. <<>> \in Seq(Dirs)
    OBVIOUS
  <2>. QED BY <2>1 DEF CampaignInit, CampaignTypeOK, CampaignSteps, DirsInv
<1>2. {campaign, parent} \cap CampaignFile = {} /\ verdict \notin {"OK", "FAIL"}
  BY CampaignSentinels DEF CampaignInit, Verdicts
<1>. QED BY <1>1, <1>2 DEF CampaignInit, CampaignInv, StepInv, PlanInv, NamedInv, EarnedInv,
         PassedInv, CauseInv, Building, Verifying

LEMMA CampaignInvInit == RunInit /\ CampaignInit => CampaignInv
BY RunInitType, CampaignRests

\* The directories change only between the commands of a calm behaviour; what was
\* earned stays earned.
LEMMA AroundKeeps ==
    ASSUME CampaignInv, DirsInv', UNCHANGED <<cpc, job>>, rerun \subseteq rerun',
           campaign' = campaign, calm' = calm,
           calm => cpc = "idle" \/ UNCHANGED <<files, manifest, plan>>
    PROVE  CampaignInv'
<1>1. CampaignTypeOK'
  BY DEF CampaignInv, CampaignTypeOK, job, DirsInv
<1>2. StepInv' /\ PlanInv' /\ NamedInv'
  BY DEF CampaignInv, StepInv, PlanInv, NamedInv, job, Runs
<1>3. EarnedInv'
  BY DEF CampaignInv, EarnedInv, job
<1>4. PassedInv'
  BY DEF CampaignInv, PassedInv, job, Verifying, PlanDiffers, SharedSeedPlan, Recorded, Done,
         Runs
<1>5. CauseInv'
  BY DEF CampaignInv, CauseInv, job, Verifying, Cause, Intact, Child, Runs
<1>. QED BY <1>1, <1>2, <1>3, <1>4, <1>5 DEF CampaignInv

LEMMA EditCampaignKeeps ==
    ASSUME CampaignInv, calm => cpc = "idle", NEW q \in Plans, EditCampaign(q)
    PROVE  CampaignInv'
<1>1. campaign' \in CampaignFile /\ campaign'.runs = campaign.runs
         /\ campaign'.precommit = campaign.precommit /\ campaign.precommit # None
  BY DEF EditCampaign, CampaignFile, CampaignInv, NamedInv
<1>2. DirsInv'
  BY EditType DEF EditCampaign, CampaignInv, DirsInv, RunTypeOK, HonestInv
<1>3. CampaignTypeOK'
  BY <1>1, <1>2 DEF EditCampaign, CampaignInv, CampaignTypeOK, job, DirsInv
<1>4. StepInv' /\ PlanInv' /\ NamedInv' /\ EarnedInv'
  BY <1>1 DEF EditCampaign, CampaignInv, StepInv, PlanInv, NamedInv, EarnedInv, job, Runs
<1>5. PassedInv' /\ CauseInv'
  BY EditType DEF EditCampaign, CampaignInv, CampaignTypeOK, RunTypeOK, PassedInv, CauseInv,
         Verifying, job
<1>. QED BY <1>2, <1>3, <1>4, <1>5 DEF CampaignInv

LEMMA CampaignOwnerKeeps == CampaignInv /\ CampaignOwner => CampaignInv'
<1> SUFFICES ASSUME CampaignInv, CampaignOwner PROVE CampaignInv'
  OBVIOUS
<1>1. CASE Owner /\ UNCHANGED campaignVars
  <2>1. DirsInv' /\ rerun \subseteq rerun'
    BY <1>1, OwnerKeeps, RerunGrows DEF CampaignInv
  <2>2. calm' = calm
    BY <1>1 DEF Owner, Rebuild, EditFiles, Pin, Reproduce, Spoil, Edit
  <2>. QED BY <1>1, <2>1, <2>2, AroundKeeps DEF CampaignOwner, campaignVars
<1>2. CASE \E q \in Plans : EditCampaign(q)
  BY <1>2, EditCampaignKeeps DEF CampaignOwner
<1>. QED BY <1>1, <1>2 DEF CampaignOwner
-----------------------------------------------------------------------------
(* `campaign`. *)

\* Steps back to "idle" forget what was held.
LEMMA EndJobKeeps ==
    ASSUME CampaignInv, UNCHANGED <<runVars, commands>>, NoJob, cpc' = "idle",
           campaign' \in CampaignFile \cup {NoFile, Torn},
           campaign' \in CampaignFile =>
              /\ Len(campaign'.runs) > 0
              /\ campaign'.seedPlan # None => campaign'.precommit # None
              /\ \A i \in DOMAIN campaign'.runs :
                    campaign'.runs[i].level = "bitwise" => campaign'.runs[i].body \in rerun
    PROVE  CampaignInv'
<1>1. DirsInv'
  BY UnchangedDirs DEF CampaignInv, CampaignTypeOK, RunTypeOK
<1>2. CampaignTypeOK'
  <2>1. <<>> \in Seq(Dirs)
    OBVIOUS
  <2>. QED BY <1>1, <2>1 DEF NoJob, CampaignTypeOK, CampaignSteps, DirsInv
<1>3. parent' \notin CampaignFile /\ verdict' \notin {"OK", "FAIL"}
  BY CampaignSentinels DEF NoJob, Verdicts
<1>4. rerun' = rerun
  BY DEF runVars
<1>. QED BY <1>1, <1>2, <1>3, <1>4 DEF NoJob, CampaignInv, StepInv, PlanInv, NamedInv,
         EarnedInv,
         PassedInv, CauseInv, Building, Verifying

LEMMA EndCampaignKeeps == CampaignInv /\ EndCampaign => CampaignInv'
BY EndJobKeeps DEF EndCampaign, CampaignInv, CampaignTypeOK, StepInv, NamedInv, EarnedInv

LEMMA TearCampaignKeeps == CampaignInv /\ TearCampaign => CampaignInv'
BY EndJobKeeps, CampaignSentinels DEF TearCampaign

LEMMA WriteCampaignKeeps == CampaignInv /\ WriteCampaign => CampaignInv'
<1> SUFFICES ASSUME CampaignInv, WriteCampaign PROVE CampaignInv'
  OBVIOUS
<1>1. parent \in CampaignFile /\ Len(parent.runs) > 0
  BY DEF WriteCampaign, CampaignInv, CampaignTypeOK, StepInv, Runs
<1>. QED BY <1>1, EndJobKeeps DEF WriteCampaign, CampaignInv, NamedInv, EarnedInv

LEMMA BuildCampaignKeeps ==
    ASSUME CampaignInv, NEW l \in RunLists, NEW c \in Configs \cup {None}, BuildCampaign(l, c)
    PROVE  CampaignInv'
<1>1. DirsInv'
  BY UnchangedDirs, SpendType DEF BuildCampaign, CampaignInv, CampaignTypeOK, RunTypeOK
<1>2. l \in Seq(Dirs) /\ Len(l) > 0
  BY ConfigsOK
<1>3. /\ parent' \in CampaignFile /\ Runs' = <<>>
      /\ parent'.precommit = None /\ parent'.seedPlan = None
  BY DEF BuildCampaign, CampaignFile, Runs
<1>4. CampaignTypeOK'
  BY <1>1, <1>2, <1>3 DEF BuildCampaign, CampaignInv, CampaignTypeOK, CampaignSteps, DirsInv
<1>5. StepInv' /\ PlanInv'
  BY <1>2, <1>3, CampaignSentinels DEF BuildCampaign, CampaignInv, StepInv, PlanInv, Verdicts
<1>6. NamedInv' /\ EarnedInv'
  BY <1>3 DEF BuildCampaign, CampaignInv, NamedInv, EarnedInv, runVars, Runs
<1>7. PassedInv' /\ CauseInv'
  BY DEF BuildCampaign, PassedInv, CauseInv, Verifying
<1>. QED BY <1>1, <1>4, <1>5, <1>6, <1>7 DEF CampaignInv

\* What the steps between have in common.
LEMMA BuildKeeps ==
    ASSUME CampaignInv, cpc \in Building, cpc' \in Building,
           UNCHANGED <<runVars, campaign, list, given, checked, problem, asked, verdict,
                       commands>>,
           parent' \in CampaignFile,
           cpc' = "load" => Len(Runs') < Len(list),
           cpc' # "load" => Len(Runs') \in 1 .. Len(list),
           PlanInv',
           parent'.seedPlan # None => parent'.precommit # None,
           \A i \in DOMAIN Runs' : Runs'[i].level = "bitwise" => Runs'[i].body \in rerun
    PROVE  CampaignInv'
<1>1. DirsInv'
  BY UnchangedDirs DEF CampaignInv, CampaignTypeOK, RunTypeOK
<1>2. CampaignTypeOK'
  BY <1>1 DEF CampaignInv, CampaignTypeOK, CampaignSteps, DirsInv, Building
<1>3. StepInv'
  BY CampaignSentinels DEF CampaignInv, StepInv, Building, Verdicts
<1>4. NamedInv' /\ EarnedInv'
  BY DEF CampaignInv, NamedInv, EarnedInv, runVars, Runs
<1>5. PassedInv' /\ CauseInv'
  BY DEF PassedInv, CauseInv, Verifying, Building
<1>. QED BY <1>1, <1>2, <1>3, <1>4, <1>5 DEF CampaignInv

LEMMA LoadChildKeeps == CampaignInv /\ LoadChild => CampaignInv'
<1> SUFFICES ASSUME CampaignInv, LoadChild PROVE CampaignInv'
  OBVIOUS
<1> DEFINE d == list[Len(Runs) + 1]
<1>1. parent \in CampaignFile /\ Runs \in Seq(Entry) /\ list \in Seq(Dirs)
        /\ Len(Runs) + 1 \in 1 .. Len(list)
  BY DEF LoadChild, CampaignInv, CampaignTypeOK, StepInv, CampaignFile, Runs
<1>2. d \in Dirs /\ manifest[d] \in Record
  BY <1>1 DEF LoadChild
<1>3. ChildEntry(d) \in Entry /\ ChildEntry(d).body = manifest[d].body
        /\ ChildEntry(d).level = "bytes" /\ manifest[d].body \in Bodies
  BY <1>2 DEF ChildEntry, Entry, Record, Levels
<1> DEFINE q == Either(parent.precommit, PlanOf[manifest[d].body])
<1>4. q \in Plans \cup {None}
  BY <1>1, <1>3, DirsOK DEF Either, CampaignFile
<1>5. /\ parent' \in CampaignFile
      /\ Runs' = Append(Runs, ChildEntry(d))
      /\ parent'.precommit = q /\ parent'.seedPlan = parent.seedPlan
  <2> DEFINE r == Append(Runs, ChildEntry(d))
  <2>1. r \in Seq(Entry)
    BY <1>1, <1>3
  <2>2. parent' = [parent EXCEPT !.runs = r, !.precommit = q]
    BY DEF LoadChild, Runs
  <2> HIDE DEF d, q, r
  <2>3. /\ parent' \in CampaignFile /\ parent'.runs = r
        /\ parent'.precommit = q /\ parent'.seedPlan = parent.seedPlan
    BY <1>1, <1>4, <2>1, <2>2 DEF CampaignFile
  <2>. QED BY <2>3 DEF Runs, r
<1> HIDE DEF d, q
<1>6. /\ Len(Runs') = Len(Runs) + 1
      /\ DOMAIN Runs' = 1 .. Len(Runs) + 1
      /\ \A i \in DOMAIN Runs : i \in DOMAIN Runs' /\ Runs'[i] = Runs[i]
      /\ Runs'[Len(Runs) + 1] = ChildEntry(d)
  BY <1>1, <1>3, <1>5
<1>7. PlanInv'
  <2>1. CASE parent.precommit # None
    <3>1. q = parent.precommit
      BY <2>1 DEF q, Either
    <3>2. PICK i \in DOMAIN Runs : PlanOf[Runs[i].body] = parent.precommit
      BY <2>1 DEF LoadChild, CampaignInv, PlanInv, Building
    <3>3. i \in DOMAIN Runs' /\ Runs'[i] = Runs[i]
      BY <1>6, <3>2
    <3>. QED BY <1>5, <3>1, <3>2, <3>3 DEF LoadChild, CampaignInv, PlanInv, Building
  <2>2. CASE parent.precommit = None
    <3>1. q = PlanOf[manifest[d].body] /\ parent.seedPlan = None
      BY <2>2 DEF q, Either, LoadChild, CampaignInv, PlanInv, Building
    <3>2. Len(Runs) + 1 \in DOMAIN Runs' /\ PlanOf[Runs'[Len(Runs) + 1].body] = q
      BY <1>1, <1>3, <1>6, <3>1
    <3>. QED BY <1>5, <3>1, <3>2 DEF PlanInv
  <2>. QED BY <2>1, <2>2
<1>8. parent'.seedPlan # None => parent'.precommit # None
  BY <1>1, <1>5 DEF q, Either, CampaignInv, NamedInv
<1>9. \A i \in DOMAIN Runs' : Runs'[i].level = "bitwise" => Runs'[i].body \in rerun
  BY <1>1, <1>3, <1>6 DEF CampaignInv, EarnedInv, Runs
<1>. QED BY <1>1, <1>5, <1>6, <1>7, <1>8, <1>9, BuildKeeps DEF LoadChild, Building

LEMMA SharedType ==
    ASSUME NEW rs \in Seq(Entry), Len(rs) > 0
    PROVE  Shared(rs) \in Configs \cup {None}
<1>1. rs[1] \in Entry
  OBVIOUS
<1>2. rs[1].body \in Bodies
  BY <1>1 DEF Entry
<1>. QED BY <1>2, ConfigsOK DEF Shared

LEMMA GradeChildKeeps == CampaignInv /\ GradeChild => CampaignInv'
<1> SUFFICES ASSUME CampaignInv, GradeChild PROVE CampaignInv'
  OBVIOUS
<1> DEFINE n == Len(Runs)
           lvl == ClaimLevel(Runs[n].dir, Runs[n].body)
           rs == [Runs EXCEPT ![n].level = lvl]
<1>1. /\ parent \in CampaignFile /\ Runs \in Seq(Entry) /\ list \in Seq(Dirs)
      /\ n \in 1 .. Len(list)
  BY DEF GradeChild, CampaignInv, CampaignTypeOK, StepInv, CampaignFile, Runs
<1>2. Runs[n] \in Entry
  BY <1>1
<1>3. lvl \in Levels /\ (lvl = "bitwise" => Runs[n].body \in rerun)
  BY <1>2, LevelHonest DEF Entry, CampaignInv
<1> HIDE DEF lvl
<1>4. [Runs[n] EXCEPT !.level = lvl] \in Entry
  BY <1>2, <1>3 DEF Entry
<1>5. /\ rs \in Seq(Entry) /\ Len(rs) = n
      /\ \A i \in DOMAIN Runs : rs[i].body = Runs[i].body
      /\ \A i \in DOMAIN Runs : i # n => rs[i] = Runs[i]
      /\ rs[n].level = lvl
  BY <1>1, <1>2, <1>4 DEF Entry
<1>6. parent' \in CampaignFile /\ Runs' = rs
         /\ parent'.precommit = parent.precommit /\ parent'.seedPlan = parent.seedPlan
  <2>1. CASE n < Len(list)
    <3>1. parent' = [parent EXCEPT !.runs = rs]
      BY <2>1 DEF GradeChild, lvl
    <3> HIDE DEF rs
    <3>. QED BY <1>1, <1>5, <3>1 DEF CampaignFile, Runs
  <2>2. CASE ~(n < Len(list))
    <3> DEFINE c == IF Shared(rs) # None THEN Shared(rs)
                    ELSE IF given = Empty THEN None ELSE given
    <3>1. parent' = [parent EXCEPT !.runs = rs, !.config = c]
      BY <2>2 DEF GradeChild, lvl
    <3>2. c \in Configs \cup {None}
      <4>1. rs \in Seq(Entry) /\ Len(rs) > 0
        BY <1>1, <1>5
      <4>2. given \in Configs \cup {None}
        BY DEF CampaignInv, CampaignTypeOK
      <4> HIDE DEF rs
      <4>3. Shared(rs) \in Configs \cup {None}
        BY <4>1, SharedType
      <4>. QED BY <4>2, <4>3
    <3> HIDE DEF rs, c
    <3>. QED BY <1>1, <1>5, <3>1, <3>2 DEF CampaignFile, Runs
  <2>. QED BY <2>1, <2>2
<1>7. cpc' \in {"load", "reload", "plan"} /\ (cpc' = "load" => n < Len(list))
  BY DEF GradeChild
<1> HIDE DEF rs
<1>8. DOMAIN Runs' = DOMAIN Runs /\ DOMAIN Runs = 1 .. n
  BY <1>1, <1>5, <1>6
<1>9. PlanInv'
  BY <1>5, <1>6, <1>8 DEF GradeChild, CampaignInv, PlanInv, Building
<1>10. \A i \in DOMAIN Runs' : Runs'[i].level = "bitwise" => Runs'[i].body \in rerun
  BY <1>1, <1>3, <1>5, <1>6, <1>8 DEF CampaignInv, EarnedInv, Runs
<1>11. parent'.seedPlan # None => parent'.precommit # None
  BY <1>1, <1>6 DEF CampaignInv, NamedInv
<1>12. Len(Runs') = n
  BY <1>5, <1>6
<1>. QED BY <1>1, <1>6, <1>7, <1>9, <1>10, <1>11, <1>12, BuildKeeps DEF GradeChild, Building

\* A step that only decides the configuration or copies the plan.
LEMMA SameRunsKeeps ==
    ASSUME CampaignInv, cpc \in {"reload", "plan"}, cpc' \in {"plan", "write"},
           UNCHANGED <<runVars, campaign, list, given, checked, problem, asked, verdict,
                       commands>>,
           parent' \in CampaignFile, Runs' = Runs, parent'.precommit = parent.precommit,
           parent'.seedPlan \in {None, parent.precommit}
    PROVE  CampaignInv'
<1>1. parent \in CampaignFile /\ Len(Runs) \in 1 .. Len(list)
  BY DEF CampaignInv, StepInv
<1>2. PlanInv'
  BY DEF CampaignInv, PlanInv, Building
<1>3. \A i \in DOMAIN Runs' : Runs'[i].level = "bitwise" => Runs'[i].body \in rerun
  BY <1>1 DEF CampaignInv, EarnedInv, Runs
<1>. QED BY <1>1, <1>2, <1>3, BuildKeeps DEF Building

LEMMA ReloadConfigKeeps == CampaignInv /\ ReloadConfig => CampaignInv'
<1> SUFFICES ASSUME CampaignInv, ReloadConfig PROVE CampaignInv'
  OBVIOUS
<1>1. parent \in CampaignFile /\ list \in Seq(Dirs) /\ Len(list) > 0
  BY DEF ReloadConfig, CampaignInv, CampaignTypeOK, StepInv
<1>2. manifest[list[1]].body \in Bodies
  BY DEF ReloadConfig, Record
<1> DEFINE b == manifest[list[1]].body
           c == IF ConfigOf[b] = Empty THEN None ELSE ConfigOf[b]
<1>3. c \in Configs \cup {None}
  BY <1>2, ConfigsOK
<1>4. parent' = [parent EXCEPT !.config = c]
  BY DEF ReloadConfig
<1> HIDE DEF b, c
<1>5. parent' \in CampaignFile /\ Runs' = Runs
         /\ parent'.precommit = parent.precommit /\ parent'.seedPlan = parent.seedPlan
  BY <1>1, <1>3, <1>4 DEF CampaignFile, Runs
<1>6. parent.seedPlan \in {None, parent.precommit}
  BY DEF ReloadConfig, CampaignInv, PlanInv, Building
<1>. QED BY <1>5, <1>6, SameRunsKeeps DEF ReloadConfig

LEMMA CopySeedPlanKeeps == CampaignInv /\ CopySeedPlan => CampaignInv'
<1> SUFFICES ASSUME CampaignInv, CopySeedPlan PROVE CampaignInv'
  OBVIOUS
<1> DEFINE q == SharedSeedPlan(Runs, parent.precommit)
<1>1. parent \in CampaignFile /\ parent' = [parent EXCEPT !.seedPlan = q]
  BY DEF CopySeedPlan, CampaignInv, StepInv
<1>2. q \in {None, parent.precommit}
  BY DEF SharedSeedPlan
<1> HIDE DEF q
<1>3. parent' \in CampaignFile /\ Runs' = Runs
         /\ parent'.precommit = parent.precommit /\ parent'.seedPlan = q
  BY <1>1, <1>2 DEF CampaignFile, Runs
<1>. QED BY <1>2, <1>3, SameRunsKeeps DEF CopySeedPlan
-----------------------------------------------------------------------------
(* `verify --campaign`. *)

LEMMA VerifyCampaignKeeps ==
    ASSUME CampaignInv, NEW l \in BOOLEAN, VerifyCampaign(l)
    PROVE  CampaignInv'
<1>1. DirsInv'
  BY UnchangedDirs, SpendType DEF VerifyCampaign, CampaignInv, CampaignTypeOK, RunTypeOK
<1>2. campaign \in CampaignFile /\ parent' = campaign /\ Runs' = campaign.runs
         /\ Runs' \in Seq(Entry) /\ checked' = {} /\ problem' \in BOOLEAN /\ verdict' = verdict
  BY DEF VerifyCampaign, CampaignInv, StepInv, CampaignFile, Runs, PlanDiffers
<1>3. list' \in Seq(Dirs) /\ Len(list') = Len(Runs')
  <2>1. ASSUME NEW i \in DOMAIN campaign.runs PROVE campaign.runs[i].dir \in Dirs
    <3>1. campaign.runs[i] \in Entry
      BY <1>2
    <3>. QED BY <3>1 DEF Entry
  <2>2. list' = [i \in 1 .. Len(campaign.runs) |-> campaign.runs[i].dir]
    BY <1>2 DEF VerifyCampaign
  <2>. QED BY <1>2, <2>1, <2>2
<1>4. CampaignTypeOK'
  BY <1>1, <1>2, <1>3 DEF VerifyCampaign, CampaignInv, CampaignTypeOK, CampaignSteps, DirsInv
<1>5. StepInv' /\ PlanInv'
  BY <1>2, <1>3, CampaignSentinels DEF VerifyCampaign, CampaignInv, StepInv, PlanInv, Building,
         Verdicts
<1>6. NamedInv' /\ EarnedInv'
  BY <1>2 DEF VerifyCampaign, CampaignInv, NamedInv, EarnedInv, runVars
<1>7. PassedInv'
  BY <1>2 DEF VerifyCampaign, PassedInv, PlanDiffers, SharedSeedPlan, runVars
<1>8. CauseInv'
  BY <1>2 DEF VerifyCampaign, CauseInv, Cause, PlanDiffers, SharedSeedPlan
<1>. QED BY <1>1, <1>4, <1>5, <1>6, <1>7, <1>8 DEF CampaignInv

\* Steps of verify leave the files and what was loaded alone.
LEMMA VerifyKeeps ==
    ASSUME CampaignInv, cpc \in {"check", "rehash"}, cpc' \in Verifying,
           UNCHANGED <<runVars, campaign, given, parent, asked, commands>>,
           list' \in Seq(Dirs), checked' \subseteq Nat, problem' \in BOOLEAN,
           verdict' \in Verdicts \cup {None},
           StepInv', PassedInv', CauseInv'
    PROVE  CampaignInv'
<1>1. DirsInv'
  BY UnchangedDirs DEF CampaignInv, CampaignTypeOK, RunTypeOK
<1>2. CampaignTypeOK'
  BY <1>1 DEF CampaignInv, CampaignTypeOK, CampaignSteps, DirsInv, Verifying
<1>3. PlanInv' /\ NamedInv' /\ EarnedInv'
  BY DEF CampaignInv, PlanInv, NamedInv, EarnedInv, Building, Verifying, runVars
<1>. QED BY <1>1, <1>2, <1>3 DEF CampaignInv

\* The child verify has come to.
LEMMA ChildThere ==
    ASSUME CampaignInv, cpc \in {"check", "rehash"}, list # <<>>
    PROVE  /\ Runs \in Seq(Entry) /\ list \in Seq(Dirs) /\ Len(list) \in 1 .. Len(Runs)
           /\ Done \in Nat /\ Done + 1 \in DOMAIN Runs
           /\ Child = Runs[Done + 1] /\ Child \in Entry
           /\ Tail(list) \in Seq(Dirs) /\ Len(Tail(list)) = Len(list) - 1
<1>1. Runs \in Seq(Entry) /\ list \in Seq(Dirs) /\ Len(list) \in 1 .. Len(Runs)
  BY DEF CampaignInv, CampaignTypeOK, StepInv, CampaignFile, Runs
<1>2. Done \in Nat /\ Done + 1 \in 1 .. Len(Runs) /\ Child = Runs[Done + 1]
  BY <1>1 DEF Done, Child
<1>. QED BY <1>1, <1>2

LEMMA RehashChildKeeps == CampaignInv /\ RehashChild => CampaignInv'
<1> SUFFICES ASSUME CampaignInv, RehashChild PROVE CampaignInv'
  OBVIOUS
<1>1. cpc = "rehash" /\ list # <<>> /\ UNCHANGED <<Runs, parent>>
  BY DEF RehashChild, CampaignInv, StepInv, Runs
<1>2. /\ Runs \in Seq(Entry) /\ list \in Seq(Dirs) /\ Len(list) \in 1 .. Len(Runs)
      /\ Done \in Nat /\ Done + 1 \in DOMAIN Runs /\ Child = Runs[Done + 1] /\ Child \in Entry
      /\ list' \in Seq(Dirs) /\ Len(list') = Len(list) - 1
  BY <1>1, ChildThere DEF RehashChild
<1>3. Done' = Done + 1
  BY <1>1, <1>2 DEF Done
<1>4. problem \in BOOLEAN /\ problem' \in BOOLEAN
  BY DEF RehashChild, CampaignInv, CampaignTypeOK
<1>5. StepInv'
  BY <1>1, <1>2, CampaignSentinels DEF RehashChild, CampaignInv, StepInv, Verdicts
<1>6. PassedInv'
  <2> SUFFICES ASSUME calm', ~problem'
               PROVE  /\ ~PlanDiffers(parent)'
                      /\ \A i \in checked' : /\ i \in 1 .. Done' /\ Recorded(i)'
                                             /\ files'[Runs'[i].dir] = Runs'[i].body
    BY DEF RehashChild, PassedInv
  <2>1. calm /\ ~problem /\ files[Child.dir] = Child.body
    BY DEF RehashChild, runVars
  <2>2. /\ ~PlanDiffers(parent)
        /\ \A i \in checked : /\ i \in 1 .. Done \/ i = Done + 1
                              /\ Recorded(i)
                              /\ i \in 1 .. Done => files[Runs[i].dir] = Runs[i].body
    BY <1>1, <2>1 DEF CampaignInv, PassedInv, Verifying
  <2>3. checked' = checked /\ UNCHANGED <<files, manifest, plan>>
    BY DEF RehashChild, runVars
  <2>4. ~PlanDiffers(parent)'
    BY <1>1, <2>2, <2>3 DEF PlanDiffers, SharedSeedPlan
  <2>5. ASSUME NEW i \in checked
        PROVE  i \in 1 .. Done' /\ Recorded(i)' /\ files'[Runs'[i].dir] = Runs'[i].body
    <3>1. i \in 1 .. Done'
      BY <1>2, <1>3, <2>2
    <3>2. Recorded(i)'
      BY <1>1, <2>2, <2>3 DEF Recorded
    <3>3. files[Runs[i].dir] = Runs[i].body
      BY <1>2, <2>1, <2>2
    <3>. QED BY <1>1, <2>3, <3>1, <3>2, <3>3
  <2>. QED BY <2>3, <2>4, <2>5
<1>7. CauseInv'
  <2> SUFFICES ASSUME calm', problem' PROVE Cause'
    BY DEF RehashChild, CauseInv
  <2>1. calm /\ UNCHANGED <<files, manifest, asked, parent, Runs>>
    BY <1>1 DEF RehashChild, runVars
  <2>2. CASE problem
    <3>1. Cause
      BY <1>1, <2>1, <2>2 DEF CampaignInv, CauseInv, Verifying
    <3>. QED BY <2>1, <3>1 DEF Cause, Intact
  <2>3. CASE files[Child.dir] # Child.body
    <3>1. manifest[Child.dir] \in Record /\ manifest[Child.dir] # NoFile
      BY <1>1, <2>1, DirSentinels DEF CampaignInv, CauseInv, Verifying
    <3>2. ~Intact(Done + 1)
      BY <1>2, <2>3 DEF Intact
    <3>3. Cause
      BY <1>2, <3>1, <3>2 DEF Cause
    <3>. QED BY <2>1, <3>3 DEF Cause, Intact
  <2>. QED BY <2>2, <2>3 DEF RehashChild
<1>. QED BY <1>1, <1>2, <1>4, <1>5, <1>6, <1>7, VerifyKeeps
         DEF RehashChild, Verifying, CampaignInv,
         CampaignTypeOK

LEMMA CheckChildKeeps == CampaignInv /\ CheckChild => CampaignInv'
<1> SUFFICES ASSUME CampaignInv, CheckChild PROVE CampaignInv'
  OBVIOUS
<1> DEFINE k == Done + 1
           r == manifest[Child.dir]
           disagrees == parent.config # None /\ ConfigOf[Child.body] # parent.config
<1>1. /\ cpc = "check" /\ list # <<>> /\ verdict' = verdict
      /\ UNCHANGED <<Runs, parent, asked, campaign, files, manifest, plan, calm>>
  BY DEF CheckChild, Runs, runVars
<1>2. /\ Runs \in Seq(Entry) /\ list \in Seq(Dirs) /\ Len(list) \in 1 .. Len(Runs)
      /\ Done \in Nat /\ k \in DOMAIN Runs /\ Child = Runs[k] /\ Child \in Entry
      /\ Tail(list) \in Seq(Dirs) /\ Len(Tail(list)) = Len(list) - 1
      /\ k = Len(Runs) - Len(list) + 1
  BY <1>1, ChildThere DEF Done
<1>3. checked \subseteq Nat /\ problem \in BOOLEAN /\ asked \in BOOLEAN /\ verdict = None
  <2>1. verdict = None
    BY <1>1 DEF CampaignInv, StepInv
  <2>. QED BY <2>1 DEF CampaignInv, CampaignTypeOK
<1>4. CASE r \in Record
  <2>1. /\ checked' = checked \cup {k} /\ cpc' = "rehash" /\ list' = list
        /\ problem' = (problem \/ disagrees \/ ChildDiffers(Child, r))
    BY <1>2, <1>4 DEF CheckChild
  <2>2. StepInv'
    BY <1>1, <1>2, <1>3, <2>1, CampaignSentinels DEF CampaignInv, StepInv, Verdicts
  <2>3. Done' = Done
    BY <1>1, <2>1 DEF Done
  <2>4. PassedInv'
    <3> SUFFICES ASSUME calm, ~problem'
                 PROVE  /\ ~PlanDiffers(parent)'
                        /\ \A i \in checked' : /\ i \in 1 .. Done' \/ i = Done' + 1
                                               /\ Recorded(i)'
                                               /\ i \in 1 .. Done' =>
                                                    files'[Runs'[i].dir] = Runs'[i].body
      BY <1>1, <2>1 DEF PassedInv
    <3>1. ~problem /\ ~disagrees /\ ~ChildDiffers(Child, r)
      BY <2>1
    <3>2. /\ ~PlanDiffers(parent)
          /\ \A i \in checked : /\ i \in 1 .. Done /\ Recorded(i)
                                /\ files[Runs[i].dir] = Runs[i].body
      BY <1>1, <3>1 DEF CampaignInv, PassedInv, Verifying
    <3>3. ~PlanDiffers(parent)'
      BY <1>1, <3>2 DEF PlanDiffers, SharedSeedPlan
    <3>4. Recorded(k)
      BY <1>2, <1>4, <3>1 DEF Recorded, ChildDiffers
    <3>5. \A i \in checked' : Recorded(i)'
      BY <1>1, <2>1, <3>2, <3>4 DEF Recorded
    <3>. QED BY <1>1, <1>2, <2>1, <2>3, <3>2, <3>3, <3>5
  <2>5. CauseInv'
    <3> SUFFICES ASSUME calm PROVE manifest'[Child'.dir] \in Record /\ (problem' => Cause')
      BY <1>1 DEF CauseInv
    <3>1. manifest'[Child'.dir] \in Record
      BY <1>1, <1>4, <2>1 DEF Child
    <3>2. CASE problem
      <4>1. Cause
        BY <1>1, <3>2 DEF CampaignInv, CauseInv, Verifying
      <4>. QED BY <1>1, <3>1, <4>1 DEF Cause, Intact
    <3>3. r # NoFile
      BY <1>4, DirSentinels
    <3>4. CASE disagrees
      <4>1. ~Intact(k)
        BY <1>2, <3>4 DEF Intact
      <4>2. Cause
        BY <1>2, <3>3, <4>1 DEF Cause
      <4>. QED BY <1>1, <3>1, <4>2 DEF Cause, Intact
    <3>5. CASE ~disagrees /\ ChildDiffers(Child, r)
      <4>1. CASE r.body # Child.body
        <5>1. ~Intact(k)
          BY <1>2, <4>1 DEF Intact
        <5>2. Cause
          BY <1>2, <3>3, <5>1 DEF Cause
        <5>. QED BY <1>1, <3>1, <5>2 DEF Cause, Intact
      <4>2. CASE r.body = Child.body
        <5>1. Child.cid # None /\ r.cid # None /\ Child.cid # r.cid
          BY <3>5, <4>2 DEF ChildDiffers
        <5>2. {Child.cid, r.cid} \subseteq Cids
          BY <1>2, <1>4, <5>1 DEF Entry, Record
        <5>3. Cause
          BY <1>2, <1>4, <5>1, <5>2 DEF Cause
        <5>. QED BY <1>1, <3>1, <5>3 DEF Cause, Intact
      <4>. QED BY <4>1, <4>2
    <3>. QED BY <2>1, <3>1, <3>2, <3>4, <3>5
  <2>. QED BY <1>1, <1>2, <1>3, <2>1, <2>2, <2>4, <2>5, VerifyKeeps
           DEF CheckChild, Verifying, ChildDiffers
<1>5. CASE r \notin Record
  <2>1. /\ checked' = checked /\ cpc' = "check" /\ list' = Tail(list)
        /\ problem' = (problem \/ disagrees \/ r = Torn \/ asked)
    BY <1>1, <1>5 DEF CheckChild
  <2>2. StepInv'
    BY <1>1, <1>2, <1>3, <2>1, CampaignSentinels DEF CampaignInv, StepInv, Verdicts
  <2>3. Done' = Done + 1
    BY <1>1, <1>2, <2>1 DEF Done
  <2>4. PassedInv'
    <3> SUFFICES ASSUME calm, ~problem'
                 PROVE  /\ ~PlanDiffers(parent)'
                        /\ \A i \in checked' : /\ i \in 1 .. Done' /\ Recorded(i)'
                                               /\ files'[Runs'[i].dir] = Runs'[i].body
      BY <1>1, <2>1 DEF PassedInv
    <3>1. /\ ~PlanDiffers(parent)
          /\ \A i \in checked : /\ i \in 1 .. Done /\ Recorded(i)
                                /\ files[Runs[i].dir] = Runs[i].body
      BY <1>1, <2>1 DEF CampaignInv, PassedInv, Verifying
    <3>2. ~PlanDiffers(parent)'
      BY <1>1, <3>1 DEF PlanDiffers, SharedSeedPlan
    <3>3. \A i \in checked : Recorded(i)'
      BY <1>1, <3>1 DEF Recorded
    <3>4. \A i \in checked : i \in 1 .. Done'
      BY <1>2, <2>3, <3>1
    <3>. QED BY <1>1, <2>1, <3>1, <3>2, <3>3, <3>4
  <2>5. CauseInv'
    <3> SUFFICES ASSUME calm, problem' PROVE Cause'
      BY <1>1, <2>1 DEF CauseInv
    <3>1. CASE problem
      <4>1. Cause
        BY <1>1, <3>1 DEF CampaignInv, CauseInv, Verifying
      <4>. QED BY <1>1, <4>1 DEF Cause, Intact
    <3>2. CASE disagrees \/ r = Torn \/ asked
      <4>1. ~Intact(k)
        BY <1>2, <1>5 DEF Intact
      <4>2. r = NoFile => asked \/ parent.config # None
        BY <3>2, DirSentinels
      <4>3. Cause
        BY <1>2, <4>1, <4>2 DEF Cause
      <4>. QED BY <1>1, <4>3 DEF Cause, Intact
    <3>. QED BY <2>1, <3>1, <3>2
  <2>. QED BY <1>1, <1>2, <1>3, <2>1, <2>2, <2>4, <2>5, VerifyKeeps DEF CheckChild, Verifying
<1>. QED BY <1>4, <1>5

LEMMA PrintVerdictKeeps == CampaignInv /\ PrintVerdict => CampaignInv'
<1> SUFFICES ASSUME CampaignInv, PrintVerdict PROVE CampaignInv'
  OBVIOUS
<1>1. /\ cpc = "check" /\ cpc' = "printed" /\ list = <<>>
      /\ UNCHANGED <<Runs, parent, asked, campaign, files, manifest, plan, calm, list, checked,
                  problem>>
  BY DEF PrintVerdict, Runs, runVars
<1>2. checked \subseteq Nat /\ problem \in BOOLEAN /\ list \in Seq(Dirs)
  BY DEF CampaignInv, CampaignTypeOK
<1>3. /\ verdict' \in Verdicts
      /\ verdict' = "OK" => ~problem /\ checked = DOMAIN Runs
      /\ verdict' = "FAIL" => problem
  BY <1>2 DEF PrintVerdict, Verdicts
<1>4. StepInv'
  BY <1>1, <1>3 DEF CampaignInv, StepInv
<1>5. Done' = Done
  BY <1>1 DEF Done
<1>6. PassedInv'
  BY <1>1, <1>5 DEF CampaignInv, PassedInv, Verifying, PlanDiffers, SharedSeedPlan, Recorded
<1>7. CauseInv'
  BY <1>1 DEF CampaignInv, CauseInv, Verifying, Cause, Intact
<1>. QED BY <1>1, <1>2, <1>3, <1>4, <1>6, <1>7, VerifyKeeps DEF PrintVerdict, Verifying
-----------------------------------------------------------------------------
(* The results. *)

LEMMA CampaignBuildKeeps == CampaignInv /\ CampaignBuild => CampaignInv'
BY LoadChildKeeps, GradeChildKeeps, ReloadConfigKeeps, CopySeedPlanKeeps, WriteCampaignKeeps,
   EndCampaignKeeps, TearCampaignKeeps DEF CampaignBuild

LEMMA CampaignStep ==
    CampaignInv /\ [CampaignNext]_<<runVars, commands, campaignVars>> => CampaignInv'
<1> SUFFICES ASSUME CampaignInv, [CampaignNext]_<<runVars, commands, campaignVars>>
             PROVE  CampaignInv'
  OBVIOUS
<1>1. CASE CampaignOwner
  BY <1>1, CampaignOwnerKeeps
<1>2. ASSUME NEW l \in RunLists, NEW c \in Configs \cup {None}, BuildCampaign(l, c)
      PROVE  CampaignInv'
  BY <1>2, BuildCampaignKeeps
<1>3. CASE CampaignBuild
  BY <1>3, CampaignBuildKeeps
<1>4. CASE CampaignVerify
  BY <1>4, VerifyCampaignKeeps, CheckChildKeeps, RehashChildKeeps, PrintVerdictKeeps
     DEF CampaignVerify
<1>5. CASE UNCHANGED <<runVars, commands, campaignVars>>
  <2>1. DirsInv'
    BY <1>5, UnchangedDirs DEF CampaignInv, CampaignTypeOK, RunTypeOK
  <2>. QED BY <1>5, <2>1, AroundKeeps DEF campaignVars, runVars
<1>. QED BY <1>1, <1>2, <1>3, <1>4, <1>5 DEF CampaignNext

LEMMA CampaignInductive == CampaignSpec => []CampaignInv
BY CampaignInvInit, CampaignStep, PTL DEF CampaignSpec

\* What the invariant says of a verdict.
LEMMA VerdictsSound ==
    CampaignInv =>
       CampaignTypeOK /\ OkMeansIntact /\ FailHasCause /\ PlanOfChild /\ PlanCommitted
<1> SUFFICES ASSUME CampaignInv
             PROVE  /\ CampaignTypeOK /\ OkMeansIntact /\ FailHasCause
                    /\ PlanOfChild /\ PlanCommitted
  OBVIOUS
<1>1. PlanOfChild
  BY DEF CampaignInv, PlanInv, PlanOfChild, Building
<1>2. FailHasCause
  <2>1. calm /\ verdict = "FAIL" => Cause
    BY CampaignSentinels DEF CampaignInv, StepInv, CauseInv, Verifying, Verdicts
  <2>. QED BY <2>1 DEF Cause, FailHasCause
<1>3. ASSUME calm, verdict = "OK"
      PROVE  /\ ~PlanDiffers(parent) /\ \A i \in DOMAIN Runs : Intact(i)
             /\ parent.seedPlan # None => parent.precommit # None
  <2>1. /\ cpc = "printed" /\ ~problem /\ checked = DOMAIN Runs /\ list = <<>>
        /\ parent \in CampaignFile
    BY <1>3, CampaignSentinels DEF CampaignInv, StepInv, Verdicts
  <2>2. Runs \in Seq(Entry) /\ 1 .. Done = DOMAIN Runs
    BY <2>1 DEF CampaignFile, Runs, Done
  <2>3. /\ ~PlanDiffers(parent)
        /\ \A i \in DOMAIN Runs : Recorded(i) /\ files[Runs[i].dir] = Runs[i].body
    BY <1>3, <2>1, <2>2 DEF CampaignInv, PassedInv, Verifying
  <2>4. \A i \in DOMAIN Runs : Intact(i)
    BY <2>3 DEF Recorded, Intact
  <2>. QED BY <2>1, <2>3, <2>4 DEF CampaignInv, NamedInv
<1>4. OkMeansIntact
  BY <1>3 DEF OkMeansIntact
<1>5. PlanCommitted
  BY <1>3 DEF PlanCommitted, PlanDiffers, SharedSeedPlan, Runs
<1>. QED BY <1>1, <1>2, <1>4, <1>5 DEF CampaignInv

\* campaign.json and what `campaign` and its verify hold in memory keep their types,
\* for any number of children (campaign.py:102-245, 270-363).
THEOREM CampaignTypeCorrect == CampaignSpec => []CampaignTypeOK
BY CampaignInductive, VerdictsSound, PTL

\* For any number of children: OK only if every one of them is there and intact.
THEOREM CampaignOkCorrect == CampaignSpec => []OkMeansIntact
BY CampaignInductive, VerdictsSound, PTL

\* FAIL has a cause in the files, and a stamp added later is none.
THEOREM CampaignFailCorrect == CampaignSpec => []FailHasCause
BY CampaignInductive, VerdictsSound, PTL

\* Whatever becomes of the directories between the loads, the plan a campaign names is
\* that of a child it lists.
THEOREM CampaignPlanCorrect == CampaignSpec => []PlanOfChild
BY CampaignInductive, VerdictsSound, PTL

\* A campaign that verifies shows the fields of the plan it names.
THEOREM CampaignFieldsCorrect == CampaignSpec => []PlanCommitted
BY CampaignInductive, VerdictsSound, PTL
=============================================================================
