--------------------------- MODULE RegistryProofs ---------------------------
(***************************************************************************)
(* Proofs about Registry, for any number of indexers, rows and commands.   *)
(*                                                                         *)
(* The loop of upsert_entries is an induction over the incoming rows that  *)
(* the steps of `index` make themselves; what is known of the files has to *)
(* be known of every copy in the memory of a command as well.              *)
(***************************************************************************)
EXTENDS Registry, CampaignProofs, Induction

OneEach(rows) == \A i, j \in DOMAIN rows : rows[i].body = rows[j].body => i = j

\* No row calls a body "bitwise" that was not run again.
Earned(rows) == \A i \in DOMAIN rows : rows[i].level = "bitwise" => rows[i].body \in rerun

\* What an invocation holds at each step.
TaskOK(p) ==
    /\ ipc[p] \in {"idle", "grade", "load"} => taken[p] = 0
    /\ ipc[p] = "grade" => from[p] \in Dirs /\ Len(incoming[p]) = 1
    /\ ipc[p] = "load" => Len(incoming[p]) > 0
    /\ ipc[p] = "upsert" => taken[p] < Len(incoming[p])
    /\ ipc[p] \in {"json", "md", "printed"} => taken[p] = Len(incoming[p])

\* Its copies of the file are as good as the file.
CopiesOK(p) ==
    /\ OneEach(existing[p]) /\ OneEach(merged[p])
    /\ Earned(incoming[p]) /\ Earned(existing[p]) /\ Earned(merged[p])

\* A row it loaded is still there, or one that was merged took its place.
KeptOK(p) ==
    ipc[p] \in {"upsert", "json"} =>
       \A i \in DOMAIN existing[p] :
          \/ existing[p][i] \in Range(merged[p])
          \/ \E k \in 1 .. taken[p] : Replaces(incoming[p][k], existing[p][i])

\* So is every row it merged.
MergedOK(p) ==
    ipc[p] \in {"upsert", "json", "md", "printed"} =>
       \A i \in 1 .. taken[p] :
          \/ incoming[p][i] \in Range(merged[p])
          \/ \E k \in i + 1 .. taken[p] : Replaces(incoming[p][k], incoming[p][i])

\* A command that runs alone finds its own files.
WrittenOK(p) ==
    calm => /\ ipc[p] \in {"md", "printed"} => json = merged[p]
            /\ ipc[p] = "printed" => md = merged[p]

IndexerInv(p) == TaskOK(p) /\ CopiesOK(p) /\ KeptOK(p) /\ MergedOK(p) /\ WrittenOK(p)

FilesInv == OneEach(RowsOf(json)) /\ Earned(RowsOf(json)) /\ Earned(RowsOf(md))

RegistryInv == /\ CampaignInv /\ RegistryTypeOK /\ FilesInv
               /\ \A p \in Indexers : IndexerInv(p)
-----------------------------------------------------------------------------
(* One row is merged. *)

LEMMA MinFound ==
    ASSUME NEW S \in SUBSET Nat, S # {}
    PROVE  Min(S) \in S
BY LeastNumber DEF Min

\* A row goes to a place of its own, or to that of a row it replaces; where its hash
\* is there already, to that one.
LEMMA PlaceOf ==
    ASSUME NEW rows \in Seq(Row), NEW row \in Row
    PROVE  LET n == Place(rows, row) IN
           /\ n \in 1 .. Len(rows) + 1
           /\ n \in DOMAIN rows => Replaces(row, rows[n])
           /\ (\E i \in DOMAIN rows : rows[i].body = row.body) =>
                 n \in DOMAIN rows /\ rows[n].body = row.body
<1> DEFINE hashed == {i \in DOMAIN rows : rows[i].body = row.body}
           keyed == {i \in DOMAIN rows : row.cid # None /\ SameKey(rows[i], row)}
           found == IF hashed # {} THEN hashed ELSE keyed
           n == Place(rows, row)
<1>1. n = IF found = {} THEN Len(rows) + 1 ELSE Min(found)
  BY DEF Place
<1>2. found \subseteq DOMAIN rows /\ DOMAIN rows = 1 .. Len(rows) /\ Len(rows) \in Nat
  OBVIOUS
<1>3. found # {} => Min(found) \in found
  BY <1>2, MinFound
<1>4. \A i \in found : Replaces(row, rows[i])
  BY DEF Replaces, SameKey
<1>5. hashed # {} => found = hashed
  OBVIOUS
<1> HIDE DEF n, found
<1>. QED BY <1>1, <1>2, <1>3, <1>4, <1>5 DEF n

LEMMA UpsertedRows ==
    ASSUME NEW rows \in Seq(Row), NEW row \in Row, OneEach(rows)
    PROVE  LET new == Upserted(rows, row) IN
           /\ new \in Seq(Row)
           /\ OneEach(new)
           /\ row \in Range(new)
           /\ \A r \in Range(rows) : r \in Range(new) \/ Replaces(row, r)
           /\ \A i \in DOMAIN new : new[i] = row \/ new[i] \in Range(rows)
<1> DEFINE n == Place(rows, row)
           new == Upserted(rows, row)
<1>1. /\ n \in 1 .. Len(rows) + 1
      /\ n \in DOMAIN rows => Replaces(row, rows[n])
      /\ (\E i \in DOMAIN rows : rows[i].body = row.body) =>
            n \in DOMAIN rows /\ rows[n].body = row.body
  BY PlaceOf
<1>2. CASE n \in DOMAIN rows
  <2>1. new = [rows EXCEPT ![n] = row]
    BY <1>2 DEF Upserted
  <2> HIDE DEF n, new
  <2>2. /\ new \in Seq(Row) /\ DOMAIN new = DOMAIN rows
        /\ new[n] = row /\ \A i \in DOMAIN rows : i # n => new[i] = rows[i]
    BY <1>2, <2>1
  <2>3. OneEach(new)
    BY <1>1, <1>2, <2>2 DEF OneEach
  <2>4. row \in Range(new)
    BY <1>2, <2>2 DEF Range
  <2>5. \A r \in Range(rows) : r \in Range(new) \/ Replaces(row, r)
    BY <1>1, <1>2, <2>2 DEF Range
  <2>6. \A i \in DOMAIN new : new[i] = row \/ new[i] \in Range(rows)
    BY <2>2 DEF Range
  <2>. QED BY <2>2, <2>3, <2>4, <2>5, <2>6 DEF new
<1>3. CASE n \notin DOMAIN rows
  <2>1. new = Append(rows, row)
    BY <1>3 DEF Upserted
  <2>2. \A i \in DOMAIN rows : rows[i].body # row.body
    BY <1>1, <1>3
  <2> HIDE DEF n, new
  <2>3. /\ new \in Seq(Row) /\ DOMAIN new = 1 .. Len(rows) + 1 /\ DOMAIN rows = 1 .. Len(rows)
        /\ new[Len(rows) + 1] = row /\ \A i \in DOMAIN rows : new[i] = rows[i]
    BY <2>1
  <2>4. OneEach(new)
    BY <2>2, <2>3 DEF OneEach
  <2>5. row \in Range(new)
    BY <2>3 DEF Range
  <2>6. \A r \in Range(rows) : r \in Range(new)
    BY <2>3 DEF Range
  <2>7. \A i \in DOMAIN new : new[i] = row \/ new[i] \in Range(rows)
    BY <2>3 DEF Range
  <2>. QED BY <2>3, <2>4, <2>5, <2>6, <2>7 DEF new
<1>. QED BY <1>2, <1>3
-----------------------------------------------------------------------------
(* Initially, and the steps beside `index`. *)

\* Where nothing is indexed yet.
LEMMA RegistryRests == ASSUME CampaignInv, RegistryInit PROVE RegistryInv
<1>1. RegistryTypeOK
  <2>1. <<>> \in Seq(Row)
    OBVIOUS
  <2>. QED BY <2>1 DEF RegistryInit, RegistryTypeOK, IndexSteps, CampaignInv
<1>2. FilesInv
  BY DEF RegistryInit, FilesInv, RowsOf, OneEach, Earned
<1>3. ASSUME NEW p \in Indexers PROVE IndexerInv(p)
  BY DEF RegistryInit, IndexerInv, TaskOK, CopiesOK, KeptOK, MergedOK, WrittenOK, OneEach,
         Earned
<1>. QED BY <1>1, <1>2, <1>3 DEF RegistryInv

LEMMA RegistryInvInit == RunInit /\ CampaignInit /\ RegistryInit => RegistryInv
BY CampaignInvInit, RegistryRests

\* Steps that leave the registry alone.
LEMMA BesideKeeps ==
    ASSUME RegistryInv, CampaignInv', UNCHANGED registryVars, rerun \subseteq rerun',
           calm' = calm
    PROVE  RegistryInv'
<1>1. RegistryTypeOK'
  BY DEF RegistryInv, RegistryTypeOK, registryVars, task, CampaignInv
<1>2. FilesInv'
  BY DEF RegistryInv, FilesInv, registryVars, OneEach, Earned, RowsOf
<1>3. ASSUME NEW p \in Indexers PROVE IndexerInv(p)'
  BY DEF RegistryInv, IndexerInv, TaskOK, CopiesOK, KeptOK, MergedOK, WrittenOK, OneEach,
         Earned,
         registryVars, task, Replaces, SameKey
<1>. QED BY <1>1, <1>2, <1>3 DEF RegistryInv

LEMMA ClearRegistryKeeps ==
    ASSUME RegistryInv, ClearRegistry, calm => NoIndexer /\ cpc = "idle"
    PROVE  RegistryInv'
<1>1. /\ calm' = calm
      /\ UNCHANGED <<files, manifest, receipt, plan, rerun, commands, campaignVars>>
  BY DEF ClearRegistry, Edit
<1>2. DirsInv'
  BY <1>1, EditType DEF ClearRegistry, RegistryInv, CampaignInv, DirsInv, RunTypeOK, HonestInv
<1>3. CampaignInv'
  BY <1>1, <1>2, AroundKeeps DEF RegistryInv, campaignVars
<1>4. RegistryTypeOK'
  BY <1>3 DEF ClearRegistry, RegistryInv, RegistryTypeOK, task, CampaignInv
<1>5. FilesInv'
  BY <1>1 DEF ClearRegistry, RegistryInv, FilesInv, OneEach, Earned, RowsOf
<1>6. ASSUME NEW p \in Indexers PROVE IndexerInv(p)'
  BY <1>1 DEF ClearRegistry, RegistryInv, IndexerInv, TaskOK, CopiesOK, KeptOK, MergedOK,
         WrittenOK, OneEach, Earned, task, Replaces, SameKey, NoIndexer
<1>. QED BY <1>3, <1>4, <1>5, <1>6 DEF RegistryInv

LEMMA RegistryOwnerKeeps ==
    ASSUME RegistryInv, RegistryOwner, calm => NoIndexer /\ cpc = "idle"
    PROVE  RegistryInv'
<1>1. CASE ClearRegistry
  BY <1>1, ClearRegistryKeeps
<1>2. CASE ~ClearRegistry
  <2>1. Owner /\ UNCHANGED <<campaignVars, registryVars>>
    BY <1>2 DEF RegistryOwner, Owner
  <2>2. CampaignInv'
    BY <2>1, CampaignOwnerKeeps DEF RegistryInv, CampaignOwner
  <2>3. rerun \subseteq rerun'
    BY <2>1, RerunGrows DEF RegistryInv, CampaignInv
  <2>4. calm' = calm
    BY <2>1 DEF Owner, Rebuild, EditFiles, Pin, Reproduce, Spoil, Edit
  <2>. QED BY <2>1, <2>2, <2>3, <2>4, BesideKeeps
<1>. QED BY <1>1, <1>2

LEMMA RegistryCampaignKeeps ==
    ASSUME RegistryInv, UNCHANGED registryVars,
           CampaignBuild \/ \E l \in RunLists : BuildCampaign(l, None)
    PROVE  RegistryInv'
<1>1. CampaignInv'
  BY CampaignBuildKeeps, BuildCampaignKeeps DEF RegistryInv
<1>2. UNCHANGED runVars
  BY DEF CampaignBuild, BuildCampaign, LoadChild, GradeChild, ReloadConfig, CopySeedPlan,
         WriteCampaign, EndCampaign, TearCampaign
<1>. QED BY <1>1, <1>2, BesideKeeps DEF runVars
-----------------------------------------------------------------------------
(* `index`. *)

\* A step of one command leaves the others alone.
LEMMA IndexKeeps ==
    ASSUME RegistryInv, NEW p \in Indexers, calm => OnlyIndexer(p),
           UNCHANGED Sources, commands' \in Nat,
           \A q \in Indexers \ {p} :
              /\ ipc'[q] = ipc[q] /\ from'[q] = from[q] /\ incoming'[q] = incoming[q]
              /\ existing'[q] = existing[q] /\ merged'[q] = merged[q] /\ taken'[q] = taken[q],
           json' \in Seq(Row) \cup {NoFile, Torn}, md' \in Seq(Row) \cup {NoFile, Torn},
           ipc' \in [Indexers -> IndexSteps], from' \in [Indexers -> Dirs \cup {None}],
           incoming' \in [Indexers -> Seq(Row)], existing' \in [Indexers -> Seq(Row)],
           merged' \in [Indexers -> Seq(Row)], taken' \in [Indexers -> Nat],
           FilesInv', IndexerInv(p)'
    PROVE  RegistryInv'
<1>1. UNCHANGED <<runVars, campaign, cpc, job>>
  BY DEF Sources
<1>2. DirsInv'
  BY <1>1, UnchangedDirs DEF RegistryInv, CampaignInv
<1>3. CampaignInv'
  BY <1>1, <1>2, AroundKeeps DEF RegistryInv, runVars
<1>4. RegistryTypeOK'
  BY <1>3 DEF RegistryTypeOK, CampaignInv
<1>5. ASSUME NEW q \in Indexers, q # p PROVE IndexerInv(q)'
  <2>1. IndexerInv(q) /\ (calm => ipc[q] = "idle") /\ UNCHANGED <<calm, rerun>>
    BY <1>1, <1>5 DEF RegistryInv, OnlyIndexer, runVars
  <2>2. /\ ipc'[q] = ipc[q] /\ from'[q] = from[q] /\ incoming'[q] = incoming[q]
        /\ existing'[q] = existing[q] /\ merged'[q] = merged[q] /\ taken'[q] = taken[q]
    BY <1>5
  <2>3. TaskOK(q)'
    BY <2>1, <2>2 DEF IndexerInv, TaskOK
  <2>4. CopiesOK(q)'
    BY <2>1, <2>2 DEF IndexerInv, CopiesOK, OneEach, Earned
  <2>5. KeptOK(q)'
    BY <2>1, <2>2 DEF IndexerInv, KeptOK
  <2>6. MergedOK(q)'
    BY <2>1, <2>2 DEF IndexerInv, MergedOK
  <2>7. WrittenOK(q)'
    BY <2>1, <2>2 DEF WrittenOK
  <2>. QED BY <2>3, <2>4, <2>5, <2>6, <2>7 DEF IndexerInv
<1>. QED BY <1>3, <1>4, <1>5 DEF RegistryInv

\* What the steps begin from.
LEMMA IndexTypes ==
    ASSUME RegistryInv, NEW p \in Indexers
    PROVE  /\ json \in Seq(Row) \cup {NoFile, Torn} /\ md \in Seq(Row) \cup {NoFile, Torn}
           /\ ipc \in [Indexers -> IndexSteps] /\ from \in [Indexers -> Dirs \cup {None}]
           /\ incoming \in [Indexers -> Seq(Row)] /\ existing \in [Indexers -> Seq(Row)]
           /\ merged \in [Indexers -> Seq(Row)] /\ taken \in [Indexers -> Nat]
           /\ TaskOK(p) /\ CopiesOK(p) /\ KeptOK(p) /\ MergedOK(p) /\ WrittenOK(p)
           /\ FilesInv /\ commands \in Nat /\ DirsInv
BY DEF RegistryInv, RegistryTypeOK, IndexerInv, CampaignInv, DirsInv, RunTypeOK

LEMMA IndexRunKeeps ==
    ASSUME RegistryInv, NEW p \in Indexers, calm => OnlyIndexer(p),
           NEW d \in Dirs, NEW name \in Names, IndexRun(p, d, name)
    PROVE  RegistryInv'
<1> DEFINE row == [name |-> name, body |-> manifest[d].body, cid |-> manifest[d].cid,
                   level |-> "bytes"]
<1>1. row \in Row /\ row.level = "bytes"
  BY DEF IndexRun, Row, Record, Levels
<1>2. incoming' = [incoming EXCEPT ![p] = <<row>>]
  BY DEF IndexRun
<1>3. Earned(<<row>>) /\ <<row>> \in Seq(Row) /\ Len(<<row>>) = 1
  BY <1>1 DEF Earned
<1> HIDE DEF row
<1>4. UNCHANGED rerun
  BY DEF IndexRun, Sources, runVars
<1>5. ipc'[p] = "grade" /\ from'[p] = d /\ incoming'[p] = <<row>> /\ ipc[p] = "idle"
  BY <1>2, IndexTypes DEF IndexRun
<1>6. TaskOK(p)'
  BY <1>3, <1>5, IndexTypes DEF IndexRun, TaskOK
<1>7. CopiesOK(p)'
  BY <1>3, <1>4, <1>5, IndexTypes DEF IndexRun, CopiesOK, OneEach, Earned
<1>8. KeptOK(p)' /\ MergedOK(p)' /\ WrittenOK(p)'
  BY <1>5 DEF KeptOK, MergedOK, WrittenOK
<1>9. FilesInv'
  BY <1>4, IndexTypes DEF IndexRun, FilesInv, Earned, OneEach, RowsOf
<1>10. /\ ipc' \in [Indexers -> IndexSteps] /\ from' \in [Indexers -> Dirs \cup {None}]
       /\ incoming' \in [Indexers -> Seq(Row)] /\ commands' \in Nat
  BY <1>2, <1>3, IndexTypes, SpendType DEF IndexRun, IndexSteps
<1>. QED BY <1>2, <1>6, <1>7, <1>8, <1>9, <1>10, IndexTypes, IndexKeeps DEF IndexRun, IndexerInv

LEMMA GradeRowKeeps ==
    ASSUME RegistryInv, NEW p \in Indexers, calm => OnlyIndexer(p), GradeRow(p)
    PROVE  RegistryInv'
<1> DEFINE body == incoming[p][1].body
           lvl == ClaimLevel(from[p], body)
           rows == [incoming[p] EXCEPT ![1].level = lvl]
<1>1. ipc[p] = "grade" /\ from[p] \in Dirs /\ incoming[p] \in Seq(Row) /\ Len(incoming[p]) = 1
        /\ taken[p] = 0
  BY IndexTypes DEF GradeRow, TaskOK
<1>2. incoming[p][1] \in Row
  BY <1>1
<1>0. body \in Bodies
  BY <1>2 DEF Row
<1>3. lvl \in Levels /\ (lvl = "bitwise" => body \in rerun)
  BY <1>0, <1>1, LevelHonest, IndexTypes
<1>4. incoming' = [incoming EXCEPT ![p] = rows]
  BY <1>1, IndexTypes DEF GradeRow
<1> HIDE DEF lvl
<1>5. [incoming[p][1] EXCEPT !.level = lvl] \in Row
  BY <1>2, <1>3 DEF Row
<1>6. rows \in Seq(Row) /\ Len(rows) = 1 /\ rows[1] = [incoming[p][1] EXCEPT !.level = lvl]
  BY <1>1, <1>5
<1>7. rows[1].level = lvl /\ rows[1].body = body
  BY <1>2, <1>6 DEF Row
<1>8. Earned(rows)
  BY <1>3, <1>6, <1>7 DEF Earned
<1> HIDE DEF rows
<1>9. UNCHANGED rerun
  BY DEF GradeRow, Sources, runVars
<1>10. ipc'[p] = "load" /\ incoming'[p] = rows
  BY <1>4, IndexTypes DEF GradeRow
<1>11. TaskOK(p)'
  BY <1>1, <1>6, <1>10 DEF GradeRow, TaskOK
<1>12. CopiesOK(p)'
  BY <1>8, <1>9, <1>10, IndexTypes DEF GradeRow, CopiesOK, OneEach, Earned
<1>13. KeptOK(p)' /\ MergedOK(p)' /\ WrittenOK(p)'
  BY <1>10 DEF KeptOK, MergedOK, WrittenOK
<1>14. FilesInv'
  BY <1>9, IndexTypes DEF GradeRow, FilesInv, Earned, OneEach, RowsOf
<1>15. ipc' \in [Indexers -> IndexSteps] /\ incoming' \in [Indexers -> Seq(Row)]
  BY <1>4, <1>6, IndexTypes DEF GradeRow, IndexSteps
<1>. QED BY <1>4, <1>11, <1>12, <1>13, <1>14, <1>15, IndexTypes, IndexKeeps
         DEF GradeRow, IndexerInv

LEMMA IndexCampaignKeeps ==
    ASSUME RegistryInv, NEW p \in Indexers, calm => OnlyIndexer(p), NEW name \in Names,
           IndexCampaign(p, name)
    PROVE  RegistryInv'
<1> DEFINE rs == campaign.runs
           rows == [i \in DOMAIN rs |-> CampaignRow(rs[i], name)]
<1>1. campaign \in CampaignFile /\ rs \in Seq(Entry) /\ Len(rs) > 0
  BY DEF IndexCampaign, CampaignFile, RegistryInv, CampaignInv, StepInv
<1>2. ASSUME NEW i \in DOMAIN rs
      PROVE  /\ CampaignRow(rs[i], name) \in Row
             /\ CampaignRow(rs[i], name).level = "bitwise" =>
                  CampaignRow(rs[i], name).body \in rerun
  <2>1. rs[i] \in Entry
    BY <1>1
  <2>2. CampaignRow(rs[i], name) \in Row /\ CampaignRow(rs[i], name).level = rs[i].level
          /\ CampaignRow(rs[i], name).body = rs[i].body
    BY <2>1 DEF CampaignRow, Row, Entry
  <2>3. rs[i].level = "bitwise" => rs[i].body \in rerun
    BY <1>1 DEF RegistryInv, CampaignInv, EarnedInv
  <2>. QED BY <2>2, <2>3
<1>3. DOMAIN rs = 1 .. Len(rs) /\ Len(rs) \in Nat
  BY <1>1
<1>4. rows \in Seq(Row) /\ Len(rows) = Len(rs)
  BY <1>2, <1>3
<1>5. Earned(rows)
  BY <1>2 DEF Earned
<1>6. incoming' = [incoming EXCEPT ![p] = rows]
  BY DEF IndexCampaign
<1> HIDE DEF rows
<1>7. UNCHANGED rerun
  BY DEF IndexCampaign, Sources, runVars
<1>8. ipc'[p] = "load" /\ incoming'[p] = rows /\ ipc[p] = "idle"
  BY <1>6, IndexTypes DEF IndexCampaign
<1>9. TaskOK(p)'
  BY <1>1, <1>4, <1>8, IndexTypes DEF IndexCampaign, TaskOK
<1>10. CopiesOK(p)'
  BY <1>5, <1>7, <1>8, IndexTypes DEF IndexCampaign, CopiesOK, OneEach, Earned
<1>11. KeptOK(p)' /\ MergedOK(p)' /\ WrittenOK(p)'
  BY <1>8 DEF KeptOK, MergedOK, WrittenOK
<1>12. FilesInv'
  BY <1>7, IndexTypes DEF IndexCampaign, FilesInv, Earned, OneEach, RowsOf
<1>13. ipc' \in [Indexers -> IndexSteps] /\ incoming' \in [Indexers -> Seq(Row)]
         /\ commands' \in Nat
  BY <1>4, <1>6, IndexTypes, SpendType DEF IndexCampaign, IndexSteps
<1>. QED BY <1>6, <1>9, <1>10, <1>11, <1>12, <1>13, IndexTypes, IndexKeeps
         DEF IndexCampaign, IndexerInv

LEMMA LoadRegistryKeeps ==
    ASSUME RegistryInv, NEW p \in Indexers, calm => OnlyIndexer(p), LoadRegistry(p)
    PROVE  RegistryInv'
<1> DEFINE rows == RowsOf(json)
<1>1. rows \in Seq(Row) /\ OneEach(rows) /\ Earned(rows)
  <2>1. <<>> \in Seq(Row)
    OBVIOUS
  <2>. QED BY <2>1, IndexTypes DEF RowsOf, FilesInv
<1>2. existing' = [existing EXCEPT ![p] = rows] /\ merged' = [merged EXCEPT ![p] = rows]
  BY RegistrySentinels DEF LoadRegistry, RowsOf
<1>3. UNCHANGED rerun
  BY DEF LoadRegistry, Sources, runVars
<1>4. ipc[p] = "load" /\ ipc'[p] = "upsert" /\ existing'[p] = rows /\ merged'[p] = rows
        /\ taken'[p] = 0
  BY <1>2, IndexTypes DEF LoadRegistry, TaskOK
<1> HIDE DEF rows
<1>5. TaskOK(p)'
  BY <1>4, IndexTypes DEF LoadRegistry, TaskOK
<1>6. CopiesOK(p)'
  BY <1>1, <1>3, <1>4, IndexTypes DEF LoadRegistry, CopiesOK, Earned
<1>7. KeptOK(p)' /\ MergedOK(p)' /\ WrittenOK(p)'
  BY <1>4 DEF KeptOK, MergedOK, WrittenOK, Range
<1>8. FilesInv'
  BY <1>3, IndexTypes DEF LoadRegistry, FilesInv, Earned, OneEach, RowsOf
<1>9. ipc' \in [Indexers -> IndexSteps] /\ existing' \in [Indexers -> Seq(Row)]
        /\ merged' \in [Indexers -> Seq(Row)]
  BY <1>1, <1>2, IndexTypes DEF LoadRegistry, IndexSteps
<1>. QED BY <1>2, <1>5, <1>6, <1>7, <1>8, <1>9, IndexTypes, IndexKeeps
         DEF LoadRegistry, IndexerInv

LEMMA UpsertKeeps ==
    ASSUME RegistryInv, NEW p \in Indexers, calm => OnlyIndexer(p), Upsert(p)
    PROVE  RegistryInv'
<1> DEFINE n == taken[p] + 1
           row == incoming[p][n]
           old == merged[p]
           new == Upserted(old, row)
<1>1. /\ ipc[p] = "upsert" /\ incoming[p] \in Seq(Row) /\ existing[p] \in Seq(Row)
      /\ old \in Seq(Row) /\ taken[p] \in Nat /\ taken[p] < Len(incoming[p])
  BY IndexTypes DEF Upsert, TaskOK
<1>2. n \in 1 .. Len(incoming[p]) /\ Len(incoming[p]) \in Nat /\ row \in Row
        /\ DOMAIN incoming[p] = 1 .. Len(incoming[p])
  BY <1>1
<1>3. OneEach(old) /\ Earned(old) /\ Earned(incoming[p])
  BY IndexTypes DEF CopiesOK
<1>4. /\ new \in Seq(Row) /\ OneEach(new) /\ row \in Range(new)
      /\ \A r \in Range(old) : r \in Range(new) \/ Replaces(row, r)
      /\ \A i \in DOMAIN new : new[i] = row \/ new[i] \in Range(old)
  BY <1>1, <1>2, <1>3, UpsertedRows
<1>5. Earned(new)
  <2>1. row.level = "bitwise" => row.body \in rerun
    BY <1>2, <1>3 DEF Earned
  <2>2. \A r \in Range(old) : r.level = "bitwise" => r.body \in rerun
    BY <1>3 DEF Earned, Range
  <2>. QED BY <1>4, <2>1, <2>2 DEF Earned
<1>6. /\ merged' = [merged EXCEPT ![p] = new] /\ taken' = [taken EXCEPT ![p] = n]
      /\ ipc' = [ipc EXCEPT ![p] = IF n = Len(incoming[p]) THEN "json" ELSE "upsert"]
  BY DEF Upsert
<1> HIDE DEF new
<1>7. UNCHANGED rerun
  BY DEF Upsert, Sources, runVars
<1>8. /\ ipc'[p] = (IF n = Len(incoming[p]) THEN "json" ELSE "upsert")
      /\ merged'[p] = new /\ taken'[p] = n /\ UNCHANGED <<incoming, existing>>
  BY <1>6, IndexTypes DEF Upsert
<1>9. TaskOK(p)'
  BY <1>1, <1>2, <1>8 DEF TaskOK
<1>10. CopiesOK(p)'
  BY <1>4, <1>5, <1>7, <1>8, IndexTypes DEF CopiesOK, OneEach, Earned
<1>11. KeptOK(p)'
  <2>1. ASSUME NEW i \in DOMAIN existing[p]
        PROVE  \/ existing[p][i] \in Range(new)
               \/ \E k \in 1 .. n : Replaces(incoming[p][k], existing[p][i])
    <3>1. CASE existing[p][i] \in Range(old)
      BY <1>1, <1>2, <1>4, <3>1
    <3>2. CASE \E k \in 1 .. taken[p] : Replaces(incoming[p][k], existing[p][i])
      BY <1>1, <3>2
    <3>. QED BY <1>1, <3>1, <3>2, IndexTypes DEF KeptOK
  <2>. QED BY <1>8, <2>1 DEF KeptOK, Replaces, SameKey
<1>12. MergedOK(p)'
  <2>1. ASSUME NEW i \in 1 .. n
        PROVE  \/ incoming[p][i] \in Range(new)
               \/ \E k \in i + 1 .. n : Replaces(incoming[p][k], incoming[p][i])
    <3>1. CASE i = n
      BY <1>4, <3>1
    <3>2. CASE i \in 1 .. taken[p] /\ incoming[p][i] \in Range(old)
      <4>1. incoming[p][i] \in Range(new) \/ Replaces(row, incoming[p][i])
        BY <1>4, <3>2
      <4>2. n \in i + 1 .. n
        BY <1>1, <3>2
      <4>. QED BY <4>1, <4>2
    <3>3. CASE i \in 1 .. taken[p] /\
               \E k \in i + 1 .. taken[p] : Replaces(incoming[p][k], incoming[p][i])
      BY <1>1, <3>3
    <3>. QED BY <1>1, <3>1, <3>2, <3>3, IndexTypes DEF MergedOK
  <2>. QED BY <1>8, <2>1 DEF MergedOK, Replaces, SameKey
<1>13. WrittenOK(p)'
  BY <1>8 DEF WrittenOK
<1>14. FilesInv'
  BY <1>7, IndexTypes DEF Upsert, FilesInv, Earned, OneEach, RowsOf
<1>15. ipc' \in [Indexers -> IndexSteps] /\ merged' \in [Indexers -> Seq(Row)]
         /\ taken' \in [Indexers -> Nat]
  BY <1>1, <1>4, <1>6, IndexTypes DEF IndexSteps
<1>. QED BY <1>6, <1>9, <1>10, <1>11, <1>12, <1>13, <1>14, <1>15, IndexTypes, IndexKeeps
         DEF Upsert, IndexerInv

LEMMA WriteJsonKeeps ==
    ASSUME RegistryInv, NEW p \in Indexers, calm => OnlyIndexer(p), WriteJson(p)
    PROVE  RegistryInv'
<1>1. ipc[p] = "json" /\ ipc'[p] = "md" /\ json' = merged[p] /\ UNCHANGED <<task, md>>
        /\ ipc' = [ipc EXCEPT ![p] = "md"]
  BY IndexTypes DEF WriteJson
<1>2. merged[p] \in Seq(Row) /\ OneEach(merged[p]) /\ Earned(merged[p])
  BY IndexTypes DEF CopiesOK
<1>3. UNCHANGED <<rerun, commands, Sources>> /\ UNCHANGED rerun
  BY DEF WriteJson, Sources, runVars
<1>4. RowsOf(json') = merged[p]
  BY <1>1, <1>2, RegistrySentinels DEF RowsOf
<1>5. FilesInv'
  <2>1. OneEach(RowsOf(json'))
    BY <1>2, <1>4
  <2>2. Earned(RowsOf(json))'
    BY <1>2, <1>3, <1>4 DEF Earned, RowsOf
  <2>3. Earned(RowsOf(md))'
    BY <1>1, <1>3, IndexTypes DEF FilesInv, Earned, RowsOf
  <2>. QED BY <2>1, <2>2, <2>3 DEF FilesInv, OneEach, RowsOf
<1>6. TaskOK(p)'
  BY <1>1, IndexTypes DEF TaskOK, task
<1>7. CopiesOK(p)'
  BY <1>1, <1>3, IndexTypes DEF CopiesOK, OneEach, Earned, task
<1>8. KeptOK(p)' /\ WrittenOK(p)'
  BY <1>1 DEF KeptOK, WrittenOK, task
<1>9. MergedOK(p)'
  BY <1>1, IndexTypes DEF MergedOK, task, Replaces, SameKey
<1>10. ipc' \in [Indexers -> IndexSteps]
  BY <1>1, IndexTypes DEF IndexSteps
<1>. QED BY <1>1, <1>2, <1>3, <1>5, <1>6, <1>7, <1>8, <1>9, <1>10, IndexTypes, IndexKeeps
         DEF IndexerInv, task

LEMMA WriteMdKeeps ==
    ASSUME RegistryInv, NEW p \in Indexers, calm => OnlyIndexer(p), WriteMd(p)
    PROVE  RegistryInv'
<1>1. ipc[p] = "md" /\ ipc'[p] = "printed" /\ md' = merged[p] /\ UNCHANGED <<task, json>>
        /\ ipc' = [ipc EXCEPT ![p] = "printed"]
  BY IndexTypes DEF WriteMd
<1>2. merged[p] \in Seq(Row) /\ Earned(merged[p])
  BY IndexTypes DEF CopiesOK
<1>3. UNCHANGED <<rerun, commands, Sources>> /\ UNCHANGED <<rerun, calm>>
  BY DEF WriteMd, Sources, runVars
<1>4. RowsOf(md') = merged[p]
  BY <1>1, <1>2, RegistrySentinels DEF RowsOf
<1>5. FilesInv'
  <2>1. Earned(RowsOf(md))'
    BY <1>2, <1>3, <1>4 DEF Earned, RowsOf
  <2>. QED BY <1>1, <1>3, <2>1, IndexTypes DEF FilesInv, OneEach, RowsOf, Earned
<1>6. TaskOK(p)'
  BY <1>1, IndexTypes DEF TaskOK, task
<1>7. CopiesOK(p)'
  BY <1>1, <1>3, IndexTypes DEF CopiesOK, OneEach, Earned, task
<1>8. KeptOK(p)' /\ WrittenOK(p)'
  BY <1>1, <1>3, IndexTypes DEF KeptOK, WrittenOK, task
<1>9. MergedOK(p)'
  BY <1>1, IndexTypes DEF MergedOK, task, Replaces, SameKey
<1>10. ipc' \in [Indexers -> IndexSteps]
  BY <1>1, IndexTypes DEF IndexSteps
<1>. QED BY <1>1, <1>2, <1>3, <1>5, <1>6, <1>7, <1>8, <1>9, <1>10, IndexTypes, IndexKeeps
         DEF IndexerInv, task

\* A command that ends, or is killed, leaves nothing behind but the files.
LEMMA NoTaskKeeps ==
    ASSUME RegistryInv, NEW p \in Indexers, calm => OnlyIndexer(p), NoTask(p),
           UNCHANGED <<Sources, commands>>, json' \in {json, Torn}, md' \in {md, Torn}
    PROVE  RegistryInv'
<1>1. /\ ipc'[p] = "idle" /\ incoming'[p] = <<>> /\ existing'[p] = <<>> /\ merged'[p] = <<>>
      /\ taken'[p] = 0
  BY IndexTypes DEF NoTask
<1>2. IndexerInv(p)'
  BY <1>1 DEF IndexerInv, TaskOK, CopiesOK, KeptOK, MergedOK, WrittenOK, OneEach, Earned
<1>3. UNCHANGED rerun
  BY DEF Sources, runVars
<1>4. FilesInv'
  BY <1>3, IndexTypes DEF FilesInv, OneEach, Earned, RowsOf
<1>5. <<>> \in Seq(Row)
  OBVIOUS
<1>6. /\ ipc' \in [Indexers -> IndexSteps] /\ from' \in [Indexers -> Dirs \cup {None}]
      /\ incoming' \in [Indexers -> Seq(Row)] /\ existing' \in [Indexers -> Seq(Row)]
      /\ merged' \in [Indexers -> Seq(Row)] /\ taken' \in [Indexers -> Nat]
  BY <1>5, IndexTypes DEF NoTask, IndexSteps
<1>. QED BY <1>2, <1>4, <1>6, IndexTypes, IndexKeeps DEF NoTask

LEMMA RegistryStep == RegistryInv /\ RegistryNext => RegistryInv'
<1> SUFFICES ASSUME RegistryInv, RegistryNext PROVE RegistryInv'
  OBVIOUS
<1>1. CASE (calm => NoIndexer /\ cpc = "idle") /\ RegistryOwner
  BY <1>1, RegistryOwnerKeeps
<1>2. CASE /\ CampaignBuild \/ \E l \in RunLists : BuildCampaign(l, None)
           /\ UNCHANGED registryVars
  BY <1>2, RegistryCampaignKeeps
<1>3. ASSUME NEW p \in Indexers, calm => OnlyIndexer(p), IndexCommand(p)
      PROVE  RegistryInv'
  <2>1. ASSUME NEW d \in Dirs, NEW name \in Names, IndexRun(p, d, name) PROVE RegistryInv'
    BY <1>3, <2>1, IndexRunKeeps
  <2>2. ASSUME NEW name \in Names, IndexCampaign(p, name) PROVE RegistryInv'
    BY <1>3, <2>2, IndexCampaignKeeps
  <2>3. CASE GradeRow(p)
    BY <1>3, <2>3, GradeRowKeeps
  <2>4. CASE LoadRegistry(p)
    BY <1>3, <2>4, LoadRegistryKeeps
  <2>5. CASE Upsert(p)
    BY <1>3, <2>5, UpsertKeeps
  <2>6. CASE WriteJson(p)
    BY <1>3, <2>6, WriteJsonKeeps
  <2>7. CASE WriteMd(p)
    BY <1>3, <2>7, WriteMdKeeps
  <2>8. CASE EndIndex(p)
    BY <1>3, <2>8, NoTaskKeeps DEF EndIndex
  <2>9. CASE TearIndex(p)
    BY <1>3, <2>9, NoTaskKeeps DEF TearIndex
  <2>. QED BY <1>3, <2>1, <2>2, <2>3, <2>4, <2>5, <2>6, <2>7, <2>8, <2>9 DEF IndexCommand
<1>. QED BY <1>1, <1>2, <1>3 DEF RegistryNext

LEMMA RegistryInductive ==
    ASSUME RegistryInv, [RegistryNext]_<<runVars, commands, campaignVars, registryVars>>
    PROVE  RegistryInv'
<1>1. CASE RegistryNext
  BY <1>1, RegistryStep
<1>2. CASE UNCHANGED <<runVars, commands, campaignVars, registryVars>>
  <2>1. DirsInv'
    <3>1. DirsInv /\ UNCHANGED <<runVars, commands>>
      BY <1>2 DEF RegistryInv, CampaignInv
    <3>2. commands' \in Nat
      BY <3>1 DEF DirsInv, RunTypeOK
    <3>. QED BY <3>1, <3>2, UnchangedDirs
  <2>2. CampaignInv'
    BY <1>2, <2>1, AroundKeeps DEF RegistryInv, runVars, campaignVars
  <2>3. rerun' = rerun /\ calm' = calm
    BY <1>2 DEF runVars
  <2>. QED BY <1>2, <2>2, <2>3, BesideKeeps
<1>. QED BY <1>1, <1>2
-----------------------------------------------------------------------------
(* The results. *)

LEMMA RowsFound ==
    ASSUME RegistryInv
    PROVE  OneRowPerHash /\ IndexedListed /\ LevelEarned
<1>1. OneRowPerHash
  BY DEF RegistryInv, FilesInv, OneEach, OneRowPerHash
<1>2. IndexedListed
  <2> SUFFICES ASSUME NEW p \in Indexers, calm, ipc[p] = "printed"
               PROVE  /\ md = json
                      /\ \A i \in DOMAIN incoming[p] :
                           \/ incoming[p][i] \in Range(json)
                           \/ \E k \in i + 1 .. Len(incoming[p]) :
                                 Replaces(incoming[p][k], incoming[p][i])
    BY DEF IndexedListed
  <2>1. json = merged[p] /\ md = json
    BY IndexTypes DEF WrittenOK
  <2>2. taken[p] = Len(incoming[p]) /\ DOMAIN incoming[p] = 1 .. Len(incoming[p])
    BY IndexTypes DEF TaskOK
  <2>. QED BY <2>1, <2>2, IndexTypes DEF MergedOK
<1>3. LevelEarned
  <2>1. ASSUME campaign \notin {None, NoFile, Torn}, NEW r \in Range(campaign.runs),
               r.level = "bitwise"
        PROVE  r.body \in rerun
    BY <2>1 DEF RegistryInv, CampaignInv, CampaignTypeOK, EarnedInv, Range
  <2>2. ASSUME NEW r \in Range(RowsOf(json)) \cup Range(RowsOf(md)), r.level = "bitwise"
        PROVE  r.body \in rerun
    BY <2>2 DEF RegistryInv, FilesInv, Earned, Range
  <2>. QED BY <2>1, <2>2 DEF LevelEarned
<1>. QED BY <1>1, <1>2, <1>3

\* RowsKept, of one step.
RowsKeptStep ==
    \A p \in Indexers :
       ipc[p] = "json" /\ ipc'[p] = "md" /\ existing[p] = RowsOf(json) =>
          \A r \in Range(RowsOf(json)) :
             \/ r \in Range(json')
             \/ \E s \in Range(incoming[p]) : Replaces(s, r)

\* Only WriteJson takes an invocation from "json" to "md".
LEMMA WritesJson ==
    ASSUME RegistryInv, RegistryNext, NEW p \in Indexers, ipc[p] = "json", ipc'[p] = "md"
    PROVE  json' = merged[p]
<1>1. CASE RegistryOwner
  BY <1>1 DEF RegistryOwner, ClearRegistry, registryVars
<1>2. CASE UNCHANGED registryVars
  BY <1>2 DEF registryVars
<1>3. ASSUME NEW q \in Indexers, IndexCommand(q)
      PROVE  json' = merged[p]
  <2>1. CASE q # p
    <3>1. ipc'[p] = ipc[p]
      BY <1>3, <2>1, IndexTypes
         DEF IndexCommand, IndexRun, IndexCampaign, GradeRow, LoadRegistry,
             Upsert, WriteJson, WriteMd, EndIndex, TearIndex, NoTask
    <3>. QED BY <3>1
  <2>2. CASE q = p
    BY <1>3, <2>2, IndexTypes DEF IndexCommand, IndexRun, IndexCampaign, GradeRow, LoadRegistry,
             Upsert, WriteJson, WriteMd, EndIndex, TearIndex, NoTask
  <2>. QED BY <2>1, <2>2
<1>. QED BY <1>1, <1>2, <1>3 DEF RegistryNext

LEMMA RowsKeptByStep ==
    ASSUME RegistryInv, [RegistryNext]_<<runVars, commands, campaignVars, registryVars>>
    PROVE  RowsKeptStep
<1> SUFFICES ASSUME NEW p \in Indexers, ipc[p] = "json", ipc'[p] = "md",
                    existing[p] = RowsOf(json), NEW r \in Range(RowsOf(json))
             PROVE  r \in Range(json') \/ \E s \in Range(incoming[p]) : Replaces(s, r)
  BY DEF RowsKeptStep
<1>1. json' = merged[p]
  <2>1. ipc' # ipc
    OBVIOUS
  <2>. QED BY <2>1, WritesJson DEF registryVars
<1>2. PICK i \in DOMAIN existing[p] : r = existing[p][i]
  BY DEF Range
<1>3. CASE r \in Range(merged[p])
  BY <1>1, <1>3
<1>4. CASE \E k \in 1 .. taken[p] : Replaces(incoming[p][k], r)
  <2>1. PICK k \in 1 .. taken[p] : Replaces(incoming[p][k], r)
    BY <1>4
  <2>2. k \in DOMAIN incoming[p]
    BY IndexTypes DEF TaskOK
  <2>. QED BY <2>1, <2>2 DEF Range
<1>. QED BY <1>2, <1>3, <1>4, IndexTypes DEF KeptOK

LEMMA RegistryAlways == RegistrySpec => []RegistryInv
<1>1. RunInit /\ CampaignInit /\ RegistryInit => RegistryInv
  BY RegistryInvInit
<1>2. RegistryInv /\ [RegistryNext]_<<runVars, commands, campaignVars, registryVars>>
        => RegistryInv'
  BY RegistryInductive
<1>. QED BY <1>1, <1>2, PTL DEF RegistrySpec

\* The files, the rows and what every `index` holds are of their types, however many
\* commands run, overlap, end early or are killed (registry.py:75-242).
THEOREM RegistryTypeCorrect == RegistrySpec => []RegistryTypeOK
<1>1. RegistryInv => RegistryTypeOK
  BY DEF RegistryInv
<1>. QED BY <1>1, RegistryAlways, PTL

\* Whatever is indexed, by any number of commands at once and with any of them killed,
\* registry.json has at most one row of a content hash (registry.py:208-232).
THEOREM RegistryRowsCorrect == RegistrySpec => []OneRowPerHash
<1>1. RegistryInv => OneRowPerHash
  BY RowsFound
<1>. QED BY <1>1, RegistryAlways, PTL

\* A command that runs alone and reports has put each of its rows into both files, or a
\* later one of its own in the row's place (registry.py:149-160, 208-242).
THEOREM RegistryListedCorrect == RegistrySpec => []IndexedListed
<1>1. RegistryInv => IndexedListed
  BY RowsFound
<1>. QED BY <1>1, RegistryAlways, PTL

\* "bitwise" in a campaign, in the registry or in index.md is only ever said of a body
\* whose command was run again with the same result (claims.py:48-66).
THEOREM RegistryLevelCorrect == RegistrySpec => []LevelEarned
<1>1. RegistryInv => LevelEarned
  BY RowsFound
<1>. QED BY <1>1, RegistryAlways, PTL

\* An `index` that writes over the rows it loaded loses none but those its own rows
\* replace (registry.py:208-242).
THEOREM RegistryRowsKept == RegistrySpec => RowsKept
<1>1. RegistryInv /\ [RegistryNext]_<<runVars, commands, campaignVars, registryVars>>
        => [RowsKeptStep]_registryVars
  BY RowsKeptByStep
<1>2. RegistrySpec => [][RowsKeptStep]_registryVars
  BY <1>1, RegistryAlways, PTL DEF RegistrySpec
<1>. QED BY <1>2 DEF RowsKept, RowsKeptStep
=============================================================================
