------------------------------ MODULE Registry ------------------------------
(***************************************************************************)
(* registry.json and index.md: every `index` loads the rows, merges those  *)
(* of a run or of a campaign into them and writes both files back.  Two    *)
(* may run at once; nothing locks the files, and each is written in place. *)
(*                                                                         *)
(* A row stands for the five public columns and the content hash; the date *)
(* and the `--claim-level` that overrides the inferred level are left out. *)
(***************************************************************************)
EXTENDS Campaign, Functions, FiniteSetsExt

CONSTANTS
    Indexers,   \* `index` invocations that may run at the same time
    Names       \* experiment names, from --name or from the record

Row == [name : Names, body : Bodies, cid : Cids \cup {None}, level : Levels]

IndexSteps == {"idle", "grade", "load", "upsert", "json", "md", "printed"}

ASSUME RegistrySentinels == NoFile \notin Seq(Row) /\ Torn \notin Seq(Row)

VARIABLES
    json,       \* the rows of registry.json
    md,         \* those of the table in index.md, before they are sorted
    ipc,        \* the step each invocation is about to take
    from,       \* its --run-dir
    incoming,   \* the rows it brings
    existing,   \* the rows it loaded
    merged,     \* the rows it will write
    taken       \* how many incoming rows are merged

task == <<from, incoming, existing, merged, taken>>
registryVars == <<json, md, ipc, task>>

RegistryInit ==
    /\ json = NoFile /\ md = NoFile
    /\ ipc = [p \in Indexers |-> "idle"]
    /\ from = [p \in Indexers |-> None]
    /\ incoming = [p \in Indexers |-> <<>>]
    /\ existing = [p \in Indexers |-> <<>>]
    /\ merged = [p \in Indexers |-> <<>>]
    /\ taken = [p \in Indexers |-> 0]

NoTask(p) ==
    /\ ipc' = [ipc EXCEPT ![p] = "idle"]
    /\ from' = [from EXCEPT ![p] = None]
    /\ incoming' = [incoming EXCEPT ![p] = <<>>]
    /\ existing' = [existing EXCEPT ![p] = <<>>]
    /\ merged' = [merged EXCEPT ![p] = <<>>]
    /\ taken' = [taken EXCEPT ![p] = 0]

\* What the steps of an `index` never touch.
Sources == <<runVars, campaign, cpc, job>>
-----------------------------------------------------------------------------
(* Where the rows come from. *)

\* The caller of a run: entry_from_manifest loads the manifest, then the receipt.
IndexRun(p, d, name) ==
    /\ ipc[p] = "idle" /\ Spend
    /\ manifest[d] \in Record
    /\ from' = [from EXCEPT ![p] = d]
    /\ incoming' = [incoming EXCEPT ![p] =
           <<[name |-> name, body |-> manifest[d].body, cid |-> manifest[d].cid,
              level |-> "bytes"]>>]
    /\ ipc' = [ipc EXCEPT ![p] = "grade"]
    /\ UNCHANGED <<Sources, json, md, existing, merged, taken>>

GradeRow(p) ==
    /\ ipc[p] = "grade"
    /\ incoming' = [incoming EXCEPT ![p] =
           [@ EXCEPT ![1].level = ClaimLevel(from[p], incoming[p][1].body)]]
    /\ ipc' = [ipc EXCEPT ![p] = "load"]
    /\ UNCHANGED <<Sources, commands, json, md, from, existing, merged, taken>>

\* entries_from_campaign: the address and level the campaign recorded.
CampaignRow(entry, name) ==
    [name |-> name, body |-> entry.body, cid |-> entry.cid, level |-> entry.level]

IndexCampaign(p, name) ==
    /\ ipc[p] = "idle" /\ Spend
    /\ campaign \in CampaignFile
    /\ incoming' = [incoming EXCEPT ![p] =
           [i \in DOMAIN campaign.runs |-> CampaignRow(campaign.runs[i], name)]]
    /\ ipc' = [ipc EXCEPT ![p] = "load"]
    /\ UNCHANGED <<Sources, json, md, from, existing, merged, taken>>
-----------------------------------------------------------------------------
(* add_to_registry. *)

\* A torn registry.json ends the command.
LoadRegistry(p) ==
    LET rows == IF json = NoFile THEN <<>> ELSE json IN
    /\ ipc[p] = "load"
    /\ json # Torn
    /\ existing' = [existing EXCEPT ![p] = rows]
    /\ merged' = [merged EXCEPT ![p] = rows]
    /\ ipc' = [ipc EXCEPT ![p] = "upsert"]
    /\ UNCHANGED <<Sources, commands, json, md, from, incoming, taken>>

SameKey(r, s) == r.name = s.name /\ SeedOf[r.body] = SeedOf[s.body] /\ r.cid = s.cid

\* Mutant: the row is looked for by its key before its hash.
PlaceKeyFirst(rows, row) ==
    LET keyed == {i \in DOMAIN rows : row.cid # None /\ SameKey(rows[i], row)}
        hashed == {i \in DOMAIN rows : rows[i].body = row.body}
        found == IF keyed # {} THEN keyed ELSE hashed
    IN IF found = {} THEN Len(rows) + 1 ELSE Min(found)

\* Mutant: rows without an address share a key too.
PlaceNoCid(rows, row) ==
    LET hashed == {i \in DOMAIN rows : rows[i].body = row.body}
        keyed == {i \in DOMAIN rows : SameKey(rows[i], [row EXCEPT !.cid = rows[i].cid])}
        found == IF hashed # {} THEN hashed ELSE keyed
    IN IF found = {} THEN Len(rows) + 1 ELSE Min(found)

\* _find_existing: the first row with the hash, else the first with the key of a
\* row that has an address, else a new place at the end.
Place(rows, row) ==
    LET hashed == {i \in DOMAIN rows : rows[i].body = row.body}
        keyed == {i \in DOMAIN rows : row.cid # None /\ SameKey(rows[i], row)}
        found == IF hashed # {} THEN hashed ELSE keyed
    IN IF found = {} THEN Len(rows) + 1 ELSE Min(found)

Upserted(rows, row) ==
    LET n == Place(rows, row) IN
    IF n \in DOMAIN rows THEN [rows EXCEPT ![n] = row] ELSE Append(rows, row)

\* One turn of the loop of upsert_entries.
Upsert(p) ==
    LET n == taken[p] + 1 IN
    /\ ipc[p] = "upsert"
    /\ merged' = [merged EXCEPT ![p] = Upserted(@, incoming[p][n])]
    /\ taken' = [taken EXCEPT ![p] = n]
    /\ ipc' = [ipc EXCEPT ![p] = IF n = Len(incoming[p]) THEN "json" ELSE "upsert"]
    /\ UNCHANGED <<Sources, commands, json, md, from, incoming, existing>>

WriteJson(p) ==
    /\ ipc[p] = "json"
    /\ json' = merged[p]
    /\ ipc' = [ipc EXCEPT ![p] = "md"]
    /\ UNCHANGED <<Sources, commands, md, task>>

\* Mutant: index.md keeps the rows that were loaded.
WriteMdOfExisting(p) ==
    /\ ipc[p] = "md"
    /\ md' = existing[p]
    /\ ipc' = [ipc EXCEPT ![p] = "printed"]
    /\ UNCHANGED <<Sources, commands, json, task>>

WriteMd(p) ==
    /\ ipc[p] = "md"
    /\ md' = merged[p]
    /\ ipc' = [ipc EXCEPT ![p] = "printed"]
    /\ UNCHANGED <<Sources, commands, json, task>>
-----------------------------------------------------------------------------
\* The invocation ends: with its report, with an error, or killed.
EndIndex(p) ==
    /\ ipc[p] # "idle"
    /\ NoTask(p)
    /\ UNCHANGED <<Sources, commands, json, md>>

\* Killed inside write_text of one of the two files.
TearIndex(p) ==
    /\ \/ ipc[p] = "json" /\ json' = Torn /\ UNCHANGED md
       \/ ipc[p] = "md" /\ md' = Torn /\ UNCHANGED json
    /\ NoTask(p)
    /\ UNCHANGED <<Sources, commands>>

\* A torn registry.json is removed by hand before `index` works again.
ClearRegistry ==
    /\ Edit
    /\ json = Torn
    /\ json' = NoFile
    /\ UNCHANGED <<files, manifest, receipt, plan, rerun, commands, campaignVars, md, ipc,
                   task>>

IndexCommand(p) ==
    \/ \E name \in Names :
         IndexCampaign(p, name) \/ \E d \in Dirs : IndexRun(p, d, name)
    \/ GradeRow(p) \/ LoadRegistry(p) \/ Upsert(p) \/ WriteJson(p) \/ WriteMd(p)
    \/ EndIndex(p) \/ TearIndex(p)

\* No `index` is under way but, perhaps, that of p.
OnlyIndexer(p) == \A q \in Indexers \ {p} : ipc[q] = "idle"
NoIndexer == \A q \in Indexers : ipc[q] = "idle"

\* Changed artifacts and lost manifests are nothing to it, nor is --config.
RegistryOwner ==
    \/ /\ \E d \in Dirs :
            \/ \E b \in Bodies : Rebuild(d, b)
            \/ \E c \in Cids : Pin(d, c)
            \/ \E ok \in BOOLEAN : Reproduce(d, ok)
       /\ UNCHANGED <<commands, campaignVars, registryVars>>
    \/ ClearRegistry

\* In a calm behaviour one command runs at a time.
RegistryNext ==
    \/ (calm => NoIndexer /\ cpc = "idle") /\ RegistryOwner
    \/ /\ calm => NoIndexer
       /\ CampaignBuild \/ \E l \in RunLists : BuildCampaign(l, None)
       /\ UNCHANGED registryVars
    \/ \E p \in Indexers :
         /\ calm => OnlyIndexer(p) /\ cpc = "idle"
         /\ IndexCommand(p)

RegistrySpec ==
    /\ RunInit /\ CampaignInit /\ RegistryInit
    /\ [][RegistryNext]_<<runVars, commands, campaignVars, registryVars>>
-----------------------------------------------------------------------------
RegistryTypeOK ==
    /\ CampaignTypeOK
    /\ json \in Seq(Row) \cup {NoFile, Torn}
    /\ md \in Seq(Row) \cup {NoFile, Torn}
    /\ ipc \in [Indexers -> IndexSteps]
    /\ from \in [Indexers -> Dirs \cup {None}]
    /\ incoming \in [Indexers -> Seq(Row)]
    /\ existing \in [Indexers -> Seq(Row)]
    /\ merged \in [Indexers -> Seq(Row)]
    /\ taken \in [Indexers -> Nat]

RowsOf(f) == IF f \in {NoFile, Torn} THEN <<>> ELSE f

\* Whatever is indexed, again and again, under one name or another, re-pinned or
\* rebuilt, by two commands at once or with one killed: a content hash has at most
\* one row in registry.json (registry.py:208-232).
OneRowPerHash ==
    \A i, j \in DOMAIN RowsOf(json) :
        RowsOf(json)[i].body = RowsOf(json)[j].body => i = j

\* The row s takes the place of r when it is merged.
Replaces(s, r) == s.body = r.body \/ (s.cid # None /\ SameKey(s, r))

\* An `index` that loaded the rows it writes over loses none of them: a row goes
\* only for one of the command's own with the same hash, or with the same name, seed
\* and address.  Only two that overlap lose rows (registry.py:208-242).
RowsKept ==
    [][\A p \in Indexers :
         ipc[p] = "json" /\ ipc'[p] = "md" /\ existing[p] = RowsOf(json) =>
            \A r \in Range(RowsOf(json)) :
               \/ r \in Range(json')
               \/ \E s \in Range(incoming[p]) : Replaces(s, r)]_registryVars

\* When `index` reports, every row it brought is in registry.json, or one it
\* brought later took its place, and index.md shows just these rows, whatever an
\* earlier command left of the two files (registry.py:149-160, 208-242).
IndexedListed ==
    \A p \in Indexers :
        calm /\ ipc[p] = "printed" =>
           /\ md = json
           /\ \A i \in DOMAIN incoming[p] :
                \/ incoming[p][i] \in Range(json)
                \/ \E k \in i + 1 .. Len(incoming[p]) :
                      Replaces(incoming[p][k], incoming[p][i])

\* A run is called "bitwise" in a campaign, in the registry and in index.md only if
\* its command was run again with the same result, though the receipt is read after
\* the manifest and the row is copied from file to file (claims.py:48-66,
\* campaign.py:121, registry.py:163-205).
LevelEarned ==
    LET entries(f) == IF f \in {None, NoFile, Torn} THEN {} ELSE Range(f.runs)
    IN \A r \in entries(campaign) \cup Range(RowsOf(json)) \cup Range(RowsOf(md)) :
         r.level = "bitwise" => r.body \in rerun
=============================================================================
