------------------------------- MODULE Chain -------------------------------
(***************************************************************************)
(* provenance-chain.json: `chain` links the manifests of several stages,   *)
(* each link_hash over the one before it, and `chain --verify` walks the   *)
(* links and loads every manifest again.                                   *)
(*                                                                         *)
(* The hash fields are strings of the file, kept as strings because what   *)
(* is hashed is the plain concatenation of two of them: a string is a      *)
(* sequence of symbols, the content hash of a manifest is one symbol, its  *)
(* body, and a digest is the hashed string in brackets.  Equal digests are *)
(* so of equal strings, which SHA-256 is trusted for, and no more is       *)
(* assumed of how a string was put together.  Stage labels are left out.   *)
(***************************************************************************)
EXTENDS RunDirs

CONSTANT StageLists   \* the run directories given to `chain`

Strings == Seq(Bodies \cup {"(", ")"})

\* ChainLink: `dir` is its manifest_path, None where that is null or empty, and
\* `content` its content_hash, which may be any string; None is a null parent_hash.
Link == [dir : Dirs \cup {None}, content : Strings, parent : Strings \cup {None},
         hash : Strings]

ChainSteps == {"idle", "load", "write", "link", "ok", "errors"}

ASSUME StageListsOK == StageLists \subseteq Seq(Dirs) \ {<<>>}
ASSUME ChainSentinels ==
    /\ NoFile \notin Seq(Link) /\ Torn \notin Seq(Link)
    /\ None \notin Dirs \cup Strings /\ Bodies \cap {"(", ")"} = {}

VARIABLES
    chain,    \* provenance-chain.json
    lpc,      \* the step the invocation is about to take
    stages,   \* its run directories
    links,    \* the chain it builds or has loaded
    seen,     \* verify: the links compared so far
    broken    \* verify: an error was noted

walk == <<stages, links, seen, broken>>
chainVars == <<chain, lpc, walk>>

NoWalk == /\ stages' = <<>> /\ links' = <<>> /\ seen' = 0 /\ broken' = FALSE

ChainInit ==
    /\ chain = NoFile /\ lpc = "idle"
    /\ stages = <<>> /\ links = <<>> /\ seen = 0 /\ broken = FALSE
-----------------------------------------------------------------------------
(* `chain`. *)

Digest(s) == <<"(">> \o s \o <<")">>

\* Manifest.content_hash of a manifest with body b.
ContentHash(b) == <<b>>

\* Mutant: the root is hashed with the name of the missing parent.
LinkHashOfNone(parent, content) ==
    Digest((IF parent = None THEN <<None>> ELSE parent) \o content)

LinkHash(parent, content) == Digest((IF parent = None THEN <<>> ELSE parent) \o content)

\* The link_hash of the last of some links, the parent_hash of one to follow.
TipHash(ls) == IF ls = <<>> THEN None ELSE ls[Len(ls)].hash

Chain(l) ==
    /\ lpc = "idle" /\ Spend
    /\ \A i \in DOMAIN l : manifest[l[i]] # NoFile
    /\ stages' = l
    /\ lpc' = "load"
    /\ UNCHANGED <<runVars, chain, links, seen, broken>>

\* One manifest is loaded and linked; one that cannot be ends the command.
LoadStage ==
    LET d == stages[Len(links) + 1] IN
    /\ lpc = "load"
    /\ manifest[d] \in Record
    /\ links' = Append(links,
           [dir |-> d, content |-> ContentHash(manifest[d].body), parent |-> TipHash(links),
            hash |-> LinkHash(TipHash(links), ContentHash(manifest[d].body))])
    /\ lpc' = IF Len(links') = Len(stages) THEN "write" ELSE "load"
    /\ UNCHANGED <<runVars, commands, chain, stages, seen, broken>>

WriteChain ==
    /\ lpc = "write"
    /\ chain' = links
    /\ lpc' = "idle" /\ NoWalk
    /\ UNCHANGED <<runVars, commands>>
-----------------------------------------------------------------------------
(* `chain --verify`. *)

\* An empty or unreadable file is refused.
VerifyChain ==
    /\ lpc = "idle" /\ Spend
    /\ chain \notin {NoFile, Torn, <<>>}
    /\ links' = chain
    /\ lpc' = "link"
    /\ UNCHANGED <<runVars, chain, stages, seen, broken>>

\* Mutant: a manifest that cannot be loaded is passed over.
ManifestDiffersIfLoaded(i) ==
    LET d == links[i].dir IN
    d # None /\ manifest[d] \in Record /\ ContentHash(manifest[d].body) # links[i].content

\* A link that names a manifest needs it on disk with the recorded content; one that
\* names none, "a synthetic node", is not looked up at all.
ManifestDiffers(i) ==
    LET d == links[i].dir IN
    d # None /\ ~ (manifest[d] \in Record /\ ContentHash(manifest[d].body) = links[i].content)

\* Mutant: a link is compared with its own fields only.
LinkBrokenAlone(i) ==
    \/ links[i].hash # LinkHash(links[i].parent, links[i].content)
    \/ ManifestDiffers(i)

\* What verify_chain reports of link i.
LinkBroken(i) ==
    \/ links[i].parent # TipHash(SubSeq(links, 1, i - 1))
    \/ links[i].hash # LinkHash(links[i].parent, links[i].content)
    \/ ManifestDiffers(i)

VerifyLink ==
    /\ lpc = "link" /\ seen < Len(links)
    /\ seen' = seen + 1
    /\ broken' = (broken \/ LinkBroken(seen + 1))
    /\ UNCHANGED <<runVars, commands, chain, lpc, stages, links>>

PrintChain ==
    /\ lpc = "link" /\ seen = Len(links)
    /\ lpc' = IF broken THEN "errors" ELSE "ok"
    /\ UNCHANGED <<runVars, commands, chain, walk>>
-----------------------------------------------------------------------------
\* The invocation ends: with its report, with an error, or killed.
EndChain ==
    /\ lpc # "idle"
    /\ lpc' = "idle" /\ NoWalk
    /\ UNCHANGED <<runVars, commands, chain>>

TearChain ==
    /\ lpc = "write"
    /\ chain' = Torn
    /\ lpc' = "idle" /\ NoWalk
    /\ UNCHANGED <<runVars, commands>>

\* The file is edited: a link is taken out, ...
DropLink(i) ==
    chain' = SubSeq(chain, 1, i - 1) \o SubSeq(chain, i + 1, Len(chain))

\* ... or its fields are written anew, its link_hash adapted or not.
ForgeLink(i, d, content, parent) ==
    \E hash \in {chain[i].hash, LinkHash(parent, content)} :
       chain' = [chain EXCEPT ![i] = [dir |-> d, content |-> content, parent |-> parent,
                                      hash |-> hash]]

\* What is in the file and could be a parent_hash, and the content hashes: those of
\* manifests, the one there, and that with the link's own parent_hash before it.
Parents(i) == {None, chain[i].parent, TipHash(SubSeq(chain, 1, i - 1))}

ContentHashes(i) ==
    {ContentHash(b) : b \in Bodies} \cup {chain[i].content}
       \cup {p \o chain[i].content : p \in {chain[i].parent} \ {None}}

EditChain ==
    /\ Edit
    /\ chain \notin {NoFile, Torn}
    /\ \E i \in DOMAIN chain :
         \/ DropLink(i)
         \/ \E d \in Dirs \cup {None}, content \in ContentHashes(i), parent \in Parents(i) :
              ForgeLink(i, d, content, parent)
    /\ UNCHANGED <<files, manifest, receipt, plan, rerun, commands, lpc, walk>>

\* Artifacts, stamps and receipts are nothing to it.
ChainOwner ==
    /\ calm => lpc = "idle"
    /\ \/ /\ \E d \in Dirs :
               \/ \E b \in Bodies : Rebuild(d, b)
               \/ \E lost \in {NoFile, Torn} : Spoil(d, lost)
          /\ UNCHANGED <<commands, chainVars>>
       \/ EditChain

ChainCommand ==
    \/ \E l \in StageLists : Chain(l)
    \/ LoadStage \/ WriteChain \/ VerifyChain \/ VerifyLink \/ PrintChain
    \/ EndChain \/ TearChain

ChainNext == ChainOwner \/ ChainCommand

ChainSpec ==
    RunInit /\ ChainInit /\ [][ChainNext]_<<runVars, commands, chainVars>>
-----------------------------------------------------------------------------
ChainTypeOK ==
    /\ RunTypeOK
    /\ chain \in Seq(Link) \cup {NoFile, Torn}
    /\ lpc \in ChainSteps
    /\ stages \in Seq(Dirs)
    /\ links \in Seq(Link)
    /\ seen \in Nat
    /\ broken \in BOOLEAN

\* That the link_hash of the last of some links fixes them: their number and every one
\* of their content hashes can be read off it.
FixedByTip(ls) ==
    /\ Len(TipHash(ls)) = 3 * Len(ls)
    /\ \A i \in DOMAIN ls : ls[i].content = <<TipHash(ls)[Len(ls) + 2 * i - 1]>>

\* Where every link names a manifest, the link_hash of the tip that `chain --verify`
\* prints with its ok fixes every content hash of the chain and their order: no link
\* can be taken out, put in another's place or changed, with all hashes adapted, under
\* the same tip.  It takes the lookup of the manifests, which leaves content hashes of
\* one length only (chain.py:29-31, 199-257).
TipFixesHistory ==
    lpc = "ok" /\ (\A i \in DOMAIN links : links[i].dir # None) => FixedByTip(links)

\* The link_hash of the tip that `chain` prints of manifests with the bodies bs.
TipOf(bs) ==
    LET tip[n \in 0 .. Len(bs)] ==
          IF n = 0 THEN None ELSE LinkHash(tip[n - 1], ContentHash(bs[n]))
    IN  tip[Len(bs)]

\* "``link_hash`` commits to the entire history up to this point" (chain.py:29-31): a
\* chain that `chain --verify` accepts under the tip of some manifests, up to three, is
\* the chain of these manifests.
TipCommits ==
    lpc = "ok" => \A n \in 1 .. 3 : \A bs \in [1 .. n -> Bodies] :
       TipOf(bs) = TipHash(links) =>
          [i \in DOMAIN links |-> links[i].content] = [i \in 1 .. n |-> ContentHash(bs[i])]

\* When the directories are left alone while it runs, `chain --verify` says ok only
\* if every manifest the chain names is there with the recorded content; of a link
\* that names none it says nothing (chain.py:225-250).
ChainOkIntact ==
    calm /\ lpc = "ok" =>
       \A i \in DOMAIN links : links[i].dir # None =>
          /\ manifest[links[i].dir] \in Record
          /\ ContentHash(manifest[links[i].dir].body) = links[i].content
=============================================================================
