-------------------------- MODULE PublicationProofs --------------------------
(***************************************************************************)
(* Proofs about Chain and Archive, for any directories, bodies, chains,    *)
(* lists of files and numbers of deposits, and about Publication, whose    *)
(* parts keep what is proved of each of them.                              *)
(*                                                                         *)
(* That a tip fixes its history is an induction over the links.  verify    *)
(* makes that induction itself, one link at a time, so it becomes an       *)
(* invariant of its steps: as long as every link named a manifest, the     *)
(* content hashes seen so far can be read off the recorded hash of the     *)
(* last link seen.                                                         *)
(*                                                                         *)
(* A deposit is public only by the command that made it, after all of its  *)
(* uploads were answered; so the invariant ties the deposit of the command *)
(* under way to what that command holds, and leaves the others alone.      *)
(***************************************************************************)
EXTENDS Publication, RegistryProofs, WithheldProofs

\* What the invocation holds in memory at each step.
WalkInv ==
    /\ lpc = "idle" => links = <<>>
    /\ lpc \in {"idle", "load", "write"} => seen = 0 /\ ~broken
    /\ lpc = "load" => Len(links) < Len(stages)
    /\ lpc \in {"link", "ok", "errors"} => links # <<>> /\ seen <= Len(links)
    /\ lpc = "ok" => ~broken /\ seen = Len(links)

\* The first n links name manifests.
Named(ls, n) == \A k \in 1 .. n : ls[k].dir # None

\* The hash of link n of some links fixes the contents of the first n.
ReadsOff(ls, n) ==
    /\ Len(ls[n].hash) = 3 * n
    /\ \A k \in 1 .. n : ls[k].content = <<ls[n].hash[n + 2 * k - 1]>>

\* While verify has found nothing, the links it has seen are in order, ...
HistoryInv ==
    lpc \in {"link", "ok"} /\ ~broken /\ seen > 0 /\ Named(links, seen) =>
       ReadsOff(links, seen)

\* ... and, with the directories left alone, their manifests are there.
StagesInv ==
    calm /\ lpc \in {"link", "ok"} /\ ~broken =>
       \A i \in 1 .. seen : links[i].dir # None =>
          /\ manifest[links[i].dir] \in Record
          /\ ContentHash(manifest[links[i].dir].body) = links[i].content

ChainInv == DirsInv /\ ChainTypeOK /\ WalkInv /\ HistoryInv /\ StagesInv
-----------------------------------------------------------------------------
(* Links and their hashes. *)

LEMMA ContentHashType ==
    ASSUME NEW b \in Bodies PROVE ContentHash(b) \in Strings
BY DEF ContentHash, Strings

LEMMA LinkHashType ==
    ASSUME NEW pred \in Strings \cup {None}, NEW content \in Strings
    PROVE  LinkHash(pred, content) \in Strings
<1> DEFINE s == (IF pred = None THEN <<>> ELSE pred) \o content
<1>1. s \in Strings
  <2>1. <<>> \in Strings
    BY DEF Strings
  <2>. QED BY <2>1 DEF Strings
<1>2. <<"(">> \in Strings /\ <<")">> \in Strings
  BY DEF Strings
<1> HIDE DEF s
<1>3. Digest(s) \in Strings
  BY <1>1, <1>2 DEF Digest, Strings
<1>. QED BY <1>3 DEF LinkHash, s

LEMMA TipHashType ==
    ASSUME NEW ls \in Seq(Link)
    PROVE  TipHash(ls) \in Strings \cup {None}
<1>1. CASE ls = <<>>
  BY <1>1 DEF TipHash
<1>2. CASE ls # <<>>
  <2>1. ls[Len(ls)] \in Link
    BY <1>2
  <2>. QED BY <1>2, <2>1 DEF TipHash, Link
<1>. QED BY <1>1, <1>2

LEMMA PrefixType ==
    ASSUME NEW ls \in Seq(Link), NEW i \in 1 .. Len(ls)
    PROVE  SubSeq(ls, 1, i - 1) \in Seq(Link)
OBVIOUS

\* A digest of a hash and one symbol has the hash from its second place on, and the
\* symbol after it.
LEMMA DigestOfNext ==
    ASSUME NEW p \in Strings, NEW b \in Bodies, NEW n \in Nat, Len(p) = n
    PROVE  LET h == Digest(p \o <<b>>) IN
           Len(h) = n + 3 /\ h[n + 2] = b /\ \A k \in 1 .. n : h[k + 1] = p[k]
<1> DEFINE s == p \o <<b>>
<1>1. /\ s \in Strings /\ Len(s) = n + 1 /\ s[n + 1] = b
      /\ \A k \in 1 .. n : s[k] = p[k]
  BY DEF Strings
<1> HIDE DEF s
<1>2. /\ Len(Digest(s)) = n + 3
      /\ \A k \in 1 .. n + 1 : Digest(s)[k + 1] = s[k]
  BY <1>1 DEF Digest, Strings
<1>3. Digest(s)[n + 2] = b
  <2>1. n + 1 \in 1 .. n + 1 /\ (n + 1) + 1 = n + 2
    OBVIOUS
  <2>. QED BY <1>1, <1>2, <2>1
<1>. QED BY <1>1, <1>2, <1>3 DEF s

\* One more link in order, of a manifest, continues the history.
LEMMA LinkContinues ==
    ASSUME ChainTypeOK, seen < Len(links), ~LinkBroken(seen + 1), Named(links, seen + 1),
           seen > 0 => ReadsOff(links, seen)
    PROVE  ReadsOff(links, seen + 1)
<1>1. seen \in Nat /\ links \in Seq(Link) /\ seen + 1 \in 1 .. Len(links)
  BY DEF ChainTypeOK
<1>2. PICK b \in Bodies : links[seen + 1].content = <<b>>
  <2> DEFINE d == links[seen + 1].dir
  <2>1. d # None /\ seen + 1 \in 1 .. seen + 1
    BY <1>1 DEF Named
  <2>2. manifest[d] \in Record /\ ContentHash(manifest[d].body) = links[seen + 1].content
    BY <2>1 DEF LinkBroken, ManifestDiffers
  <2>3. manifest[d].body \in Bodies
    BY <2>2 DEF Record
  <2>. QED BY <2>2, <2>3 DEF ContentHash
<1> DEFINE pre == SubSeq(links, 1, seen)
           p == IF TipHash(pre) = None THEN <<>> ELSE TipHash(pre)
           h == links[seen + 1].hash
<1>3. h = Digest(p \o <<b>>)
  BY <1>1, <1>2 DEF LinkBroken, LinkHash
<1>4. p \in Strings /\ Len(p) = 3 * seen /\ (seen > 0 => p = links[seen].hash)
  <2>1. CASE seen = 0
    <3>1. TipHash(pre) = None
      BY <1>1, <2>1 DEF TipHash
    <3>. QED BY <2>1, <3>1 DEF Strings
  <2>2. CASE seen > 0
    <3>1. pre # <<>> /\ Len(pre) = seen /\ pre[seen] = links[seen] /\ links[seen] \in Link
      BY <1>1, <2>2
    <3>2. TipHash(pre) = links[seen].hash /\ links[seen].hash \in Strings
      BY <3>1 DEF TipHash, Link
    <3>3. TipHash(pre) # None
      BY <3>2, ChainSentinels
    <3>. QED BY <2>2, <3>2, <3>3 DEF ReadsOff
  <2>. QED BY <1>1, <2>1, <2>2
<1> HIDE DEF p, h
<1>5. /\ Len(h) = 3 * seen + 3 /\ h[3 * seen + 2] = b
      /\ \A k \in 1 .. 3 * seen : h[k + 1] = p[k]
  BY <1>1, <1>3, <1>4, DigestOfNext
<1>6. ASSUME NEW k \in 1 .. seen + 1
      PROVE  links[k].content = <<h[(seen + 1) + 2 * k - 1]>>
  <2>1. CASE k = seen + 1
    <3>1. (seen + 1) + 2 * k - 1 = 3 * seen + 2
      BY <1>1, <2>1
    <3>. QED BY <1>2, <1>5, <2>1, <3>1
  <2>2. CASE k # seen + 1
    <3>1. k \in 1 .. seen /\ seen > 0
      BY <1>1, <2>2
    <3>2. links[k].content = <<p[seen + 2 * k - 1]>>
      BY <1>4, <3>1 DEF ReadsOff
    <3>3. /\ seen + 2 * k - 1 \in 1 .. 3 * seen
          /\ (seen + 2 * k - 1) + 1 = (seen + 1) + 2 * k - 1
      BY <1>1, <3>1
    <3>4. h[(seen + 1) + 2 * k - 1] = p[seen + 2 * k - 1]
      BY <1>5, <3>3
    <3>. QED BY <3>2, <3>4
  <2>. QED BY <2>1, <2>2
<1>7. 3 * seen + 3 = 3 * (seen + 1)
  BY <1>1
<1>. QED BY <1>5, <1>6, <1>7 DEF ReadsOff, h
-----------------------------------------------------------------------------
(* Initially, and the steps beside the command. *)

LEMMA ChainRests == ASSUME DirsInv, ChainInit PROVE ChainInv
<1>1. ChainTypeOK
  <2>1. <<>> \in Seq(Dirs) /\ <<>> \in Seq(Link)
    OBVIOUS
  <2>. QED BY <2>1 DEF ChainInit, ChainTypeOK, ChainSteps, DirsInv
<1>. QED BY <1>1 DEF ChainInit, ChainInv, WalkInv, HistoryInv, StagesInv

LEMMA ChainInvInit == RunInit /\ ChainInit => ChainInv
BY RunInitType, ChainRests

\* Steps that leave the command alone.
LEMMA OutsideKeeps ==
    ASSUME ChainInv, DirsInv', chain' \in Seq(Link) \cup {NoFile, Torn},
           UNCHANGED <<lpc, walk, calm>>, calm => lpc = "idle"
    PROVE  ChainInv'
<1>1. ChainTypeOK' /\ WalkInv' /\ HistoryInv'
  BY DEF ChainInv, ChainTypeOK, WalkInv, HistoryInv, walk, DirsInv
<1>2. StagesInv'
  BY DEF ChainInv, StagesInv, walk, DirsInv, RunTypeOK
<1>. QED BY <1>1, <1>2 DEF ChainInv

LEMMA DropLinkType ==
    ASSUME NEW i \in DOMAIN chain, chain \in Seq(Link), DropLink(i)
    PROVE  chain' \in Seq(Link)
<1>1. SubSeq(chain, 1, i - 1) \in Seq(Link) /\ SubSeq(chain, i + 1, Len(chain)) \in Seq(Link)
  OBVIOUS
<1>. QED BY <1>1 DEF DropLink

LEMMA ForgeLinkType ==
    ASSUME NEW i \in DOMAIN chain, chain \in Seq(Link), NEW d \in Dirs \cup {None},
           NEW content \in ContentHashes(i), NEW pred \in Parents(i),
           ForgeLink(i, d, content, pred)
    PROVE  chain' \in Seq(Link)
<1>1. chain[i] \in Link /\ i \in 1 .. Len(chain)
  OBVIOUS
<1>2. pred \in Strings \cup {None}
  BY <1>1, PrefixType, TipHashType DEF Link, Parents
<1>3. content \in Strings
  <2>1. \A p \in Strings : p \o chain[i].content \in Strings
    BY <1>1 DEF Link, Strings
  <2>2. {chain[i].parent} \ {None} \subseteq Strings /\ chain[i].content \in Strings
    BY <1>1 DEF Link
  <2>. QED BY <2>1, <2>2, ContentHashType DEF ContentHashes
<1>4. PICK hash \in {chain[i].hash, LinkHash(pred, content)} :
         chain' = [chain EXCEPT ![i] = [dir |-> d, content |-> content, parent |-> pred,
                                        hash |-> hash]]
  BY DEF ForgeLink
<1>5. hash \in Strings
  BY <1>1, <1>2, <1>3, <1>4, LinkHashType DEF Link
<1> DEFINE link == [dir |-> d, content |-> content, parent |-> pred, hash |-> hash]
<1>6. link \in Link
  BY <1>2, <1>3, <1>5 DEF Link
<1> HIDE DEF link
<1>7. chain' = [chain EXCEPT ![i] = link]
  BY <1>4 DEF link
<1>. QED BY <1>1, <1>6, <1>7

LEMMA EditChainKeeps == ChainInv /\ EditChain /\ (calm => lpc = "idle") => ChainInv'
<1> SUFFICES ASSUME ChainInv, EditChain, calm => lpc = "idle" PROVE ChainInv'
  OBVIOUS
<1>1. chain \in Seq(Link)
  BY DEF EditChain, ChainInv, ChainTypeOK
<1>2. chain' \in Seq(Link)
  BY <1>1, DropLinkType, ForgeLinkType DEF EditChain
<1>3. DirsInv'
  BY EditType DEF EditChain, ChainInv, DirsInv, RunTypeOK, HonestInv
<1>. QED BY <1>2, <1>3, OutsideKeeps, EditType DEF EditChain, ChainInv, DirsInv, RunTypeOK

LEMMA ChainOwnerKeeps == ChainInv /\ ChainOwner => ChainInv'
<1> SUFFICES ASSUME ChainInv, ChainOwner PROVE ChainInv'
  OBVIOUS
<1>1. ASSUME NEW d \in Dirs, NEW b \in Bodies, Rebuild(d, b), UNCHANGED <<commands, chainVars>>
      PROVE  ChainInv'
  <2>1. DirsInv' /\ calm' = calm
    BY <1>1, RebuildKeeps DEF ChainInv, Rebuild, Edit
  <2>. QED BY <1>1, <2>1, OutsideKeeps DEF ChainOwner, ChainInv, ChainTypeOK, chainVars
<1>2. ASSUME NEW d \in Dirs, NEW lost \in {NoFile, Torn}, Spoil(d, lost),
             UNCHANGED <<commands, chainVars>>
      PROVE  ChainInv'
  <2>1. DirsInv' /\ calm' = calm
    BY <1>2, SpoilKeeps DEF ChainInv, Spoil, Edit
  <2>. QED BY <1>2, <2>1, OutsideKeeps DEF ChainOwner, ChainInv, ChainTypeOK, chainVars
<1>. QED BY <1>1, <1>2, EditChainKeeps DEF ChainOwner
-----------------------------------------------------------------------------
(* The command. *)

\* Steps back to "idle" forget what was held.
LEMMA EndKeeps ==
    ASSUME ChainInv, UNCHANGED <<runVars, commands>>, lpc' = "idle", NoWalk,
           chain' \in Seq(Link) \cup {NoFile, Torn}
    PROVE  ChainInv'
<1>1. DirsInv'
  BY UnchangedDirs DEF ChainInv, DirsInv, RunTypeOK
<1>2. <<>> \in Seq(Dirs) /\ <<>> \in Seq(Link)
  OBVIOUS
<1>. QED BY <1>1, <1>2 DEF ChainInv, ChainTypeOK, ChainSteps, NoWalk, WalkInv, HistoryInv,
         StagesInv, DirsInv

LEMMA ChainStartKeeps == ChainInv /\ (\E l \in StageLists : Chain(l)) => ChainInv'
<1> SUFFICES ASSUME ChainInv, NEW l \in StageLists, Chain(l) PROVE ChainInv'
  OBVIOUS
<1>1. l \in Seq(Dirs) /\ l # <<>> /\ Len(l) > 0
  BY StageListsOK
<1>2. DirsInv'
  BY SpendType, UnchangedDirs DEF Chain, ChainInv, DirsInv, RunTypeOK
<1>3. ChainTypeOK'
  BY <1>1, <1>2 DEF Chain, ChainInv, ChainTypeOK, ChainSteps, DirsInv
<1>. QED BY <1>1, <1>2, <1>3 DEF Chain, ChainInv, WalkInv, HistoryInv, StagesInv

LEMMA LoadStageKeeps == ChainInv /\ LoadStage => ChainInv'
<1> SUFFICES ASSUME ChainInv, LoadStage PROVE ChainInv'
  OBVIOUS
<1> DEFINE d == stages[Len(links) + 1]
           content == ContentHash(manifest[d].body)
           link == [dir |-> d, content |-> content, parent |-> TipHash(links),
                    hash |-> LinkHash(TipHash(links), content)]
<1>1. links \in Seq(Link) /\ stages \in Seq(Dirs) /\ Len(links) < Len(stages)
  BY DEF LoadStage, ChainInv, ChainTypeOK, WalkInv
<1>2. d \in Dirs /\ manifest[d].body \in Bodies
  BY <1>1 DEF LoadStage, Record
<1>3. link \in Link
  <2>1. content \in Strings
    BY <1>2, ContentHashType
  <2> HIDE DEF content
  <2>2. TipHash(links) \in Strings \cup {None}
    BY <1>1, TipHashType
  <2>3. LinkHash(TipHash(links), content) \in Strings
    BY <2>1, <2>2, LinkHashType
  <2>. QED BY <1>2, <2>1, <2>2, <2>3 DEF Link
<1>4. links' = Append(links, link) /\ links' \in Seq(Link) /\ Len(links') = Len(links) + 1
  BY <1>1, <1>3 DEF LoadStage
<1>5. DirsInv'
  BY UnchangedDirs DEF LoadStage, ChainInv, DirsInv, RunTypeOK
<1>6. ChainTypeOK'
  BY <1>4, <1>5 DEF LoadStage, ChainInv, ChainTypeOK, ChainSteps, DirsInv
<1>7. WalkInv'
  <2>1. stages' = stages /\ seen' = seen /\ broken' = broken /\ seen = 0 /\ ~broken
    BY DEF LoadStage, ChainInv, WalkInv
  <2>2. /\ lpc' \in {"load", "write"}
        /\ lpc' = "load" => Len(links') # Len(stages)
    BY DEF LoadStage
  <2>. QED BY <1>1, <1>4, <2>1, <2>2 DEF WalkInv
<1>. QED BY <1>5, <1>6, <1>7 DEF LoadStage, ChainInv, HistoryInv, StagesInv

LEMMA VerifyChainKeeps == ChainInv /\ VerifyChain => ChainInv'
<1> SUFFICES ASSUME ChainInv, VerifyChain PROVE ChainInv'
  OBVIOUS
<1>1. links' \in Seq(Link) /\ links' # <<>>
  BY DEF VerifyChain, ChainInv, ChainTypeOK
<1>2. DirsInv'
  BY SpendType, UnchangedDirs DEF VerifyChain, ChainInv, DirsInv, RunTypeOK
<1>3. ChainTypeOK'
  BY <1>1, <1>2 DEF VerifyChain, ChainInv, ChainTypeOK, ChainSteps, DirsInv
<1>4. WalkInv' /\ seen' = 0
  BY <1>1 DEF VerifyChain, ChainInv, WalkInv
<1>. QED BY <1>2, <1>3, <1>4 DEF ChainInv, HistoryInv, StagesInv

LEMMA VerifyLinkKeeps == ChainInv /\ VerifyLink => ChainInv'
<1> SUFFICES ASSUME ChainInv, VerifyLink PROVE ChainInv'
  OBVIOUS
<1>1. /\ seen \in Nat /\ links \in Seq(Link) /\ seen + 1 \in 1 .. Len(links)
      /\ links[seen + 1] \in Link
  BY DEF VerifyLink, ChainInv, ChainTypeOK
<1>2. DirsInv'
  BY UnchangedDirs DEF VerifyLink, ChainInv, DirsInv, RunTypeOK
<1>3. ChainTypeOK'
  BY <1>1, <1>2 DEF VerifyLink, ChainInv, ChainTypeOK, DirsInv
<1>4. WalkInv'
  BY <1>1 DEF VerifyLink, ChainInv, WalkInv
<1>5. ~broken' => ~broken /\ ~LinkBroken(seen + 1)
  BY DEF VerifyLink
<1>6. HistoryInv'
  <2> SUFFICES ASSUME ~broken', Named(links, seen + 1) PROVE ReadsOff(links, seen + 1)
    BY DEF VerifyLink, HistoryInv, Named, ReadsOff
  <2>1. Named(links, seen)
    BY <1>1 DEF Named
  <2>2. seen > 0 => ReadsOff(links, seen)
    BY <1>5, <2>1 DEF VerifyLink, ChainInv, HistoryInv
  <2>. QED BY <1>5, <2>2, LinkContinues DEF VerifyLink, ChainInv
<1>7. StagesInv'
  <2>1. ~LinkBroken(seen + 1) /\ links[seen + 1].dir # None =>
           /\ manifest[links[seen + 1].dir] \in Record
           /\ ContentHash(manifest[links[seen + 1].dir].body) = links[seen + 1].content
    BY DEF LinkBroken, ManifestDiffers
  <2>2. \A i \in 1 .. seen + 1 : i \in 1 .. seen \/ i = seen + 1
    BY <1>1
  <2>. QED BY <1>1, <1>5, <2>1, <2>2 DEF VerifyLink, runVars, ChainInv, StagesInv
<1>. QED BY <1>2, <1>3, <1>4, <1>6, <1>7 DEF ChainInv

LEMMA PrintChainKeeps == ChainInv /\ PrintChain => ChainInv'
<1> SUFFICES ASSUME ChainInv, PrintChain PROVE ChainInv'
  OBVIOUS
<1>1. DirsInv'
  BY UnchangedDirs DEF PrintChain, ChainInv, DirsInv, RunTypeOK
<1>2. ChainTypeOK'
  BY <1>1 DEF PrintChain, walk, ChainInv, ChainTypeOK, ChainSteps, DirsInv
<1>3. WalkInv' /\ HistoryInv'
  BY DEF PrintChain, walk, ChainInv, ChainTypeOK, WalkInv, HistoryInv
<1>4. StagesInv'
  BY DEF PrintChain, walk, runVars, ChainInv, StagesInv
<1>. QED BY <1>1, <1>2, <1>3, <1>4 DEF ChainInv

LEMMA ChainCommandKeeps == ChainInv /\ ChainCommand => ChainInv'
<1>1. ChainInv /\ WriteChain => ChainInv'
  BY EndKeeps DEF WriteChain, ChainInv, ChainTypeOK
<1>2. ChainInv /\ EndChain => ChainInv'
  BY EndKeeps DEF EndChain, ChainInv, ChainTypeOK
<1>3. ChainInv /\ TearChain => ChainInv'
  BY EndKeeps DEF TearChain
<1>. QED BY <1>1, <1>2, <1>3, ChainStartKeeps, LoadStageKeeps, VerifyChainKeeps,
         VerifyLinkKeeps, PrintChainKeeps DEF ChainCommand

LEMMA ChainStutters ==
    ChainInv /\ UNCHANGED <<runVars, commands, chainVars>> => ChainInv'
<1> SUFFICES ASSUME ChainInv, UNCHANGED <<runVars, commands, chainVars>> PROVE ChainInv'
  OBVIOUS
<1>1. DirsInv'
  BY UnchangedDirs DEF ChainInv, DirsInv, RunTypeOK
<1>2. ChainTypeOK' /\ WalkInv' /\ HistoryInv'
  BY <1>1 DEF chainVars, walk, ChainInv, ChainTypeOK, WalkInv, HistoryInv, DirsInv
<1>3. StagesInv'
  BY DEF chainVars, walk, runVars, ChainInv, StagesInv
<1>. QED BY <1>1, <1>2, <1>3 DEF ChainInv

LEMMA ChainStep ==
    ChainInv /\ [ChainNext]_<<runVars, commands, chainVars>> => ChainInv'
BY ChainOwnerKeeps, ChainCommandKeeps, ChainStutters DEF ChainNext
-----------------------------------------------------------------------------
(* What it says of `chain --verify`. *)

LEMMA TipSound == ChainInv => TipFixesHistory
<1> SUFFICES ASSUME ChainInv, lpc = "ok", \A i \in DOMAIN links : links[i].dir # None
             PROVE  FixedByTip(links)
  BY DEF TipFixesHistory
<1>1. links \in Seq(Link) /\ links # <<>> /\ seen = Len(links) /\ ~broken /\ seen > 0
  BY DEF ChainInv, ChainTypeOK, WalkInv
<1>2. ReadsOff(links, seen)
  BY <1>1 DEF ChainInv, HistoryInv, Named
<1>. QED BY <1>1, <1>2 DEF TipHash, FixedByTip, ReadsOff

LEMMA StagesSound == ChainInv => ChainOkIntact
<1> SUFFICES ASSUME ChainInv, calm, lpc = "ok", NEW i \in DOMAIN links,
                    links[i].dir # None
             PROVE  /\ manifest[links[i].dir] \in Record
                    /\ ContentHash(manifest[links[i].dir].body) = links[i].content
  BY DEF ChainOkIntact
<1>1. i \in 1 .. seen /\ ~broken
  BY DEF ChainInv, ChainTypeOK, WalkInv
<1>. QED BY <1>1 DEF ChainInv, StagesInv
-----------------------------------------------------------------------------
(* The theorems of Chain. *)

\* provenance-chain.json and what `chain` holds in memory keep their types, whatever
\* is edited, torn or rebuilt (chain.py:57-165, 275-336).
THEOREM ChainTypeCorrect == ChainSpec => []ChainTypeOK
<1>1. ChainInv => ChainTypeOK
  BY DEF ChainInv
<1>. QED BY <1>1, ChainInvInit, ChainStep, PTL DEF ChainSpec

\* What FixedByTip says: two lists of links fixed by one tip have the same length and the
\* same content hashes in the same order.
THEOREM OneHistoryPerTip ==
    ASSUME NEW a \in Seq(Link), NEW b \in Seq(Link),
           FixedByTip(a), FixedByTip(b), TipHash(a) = TipHash(b)
    PROVE  [i \in DOMAIN a |-> a[i].content] = [i \in DOMAIN b |-> b[i].content]
<1>1. 3 * Len(a) = 3 * Len(b)
  BY DEF FixedByTip
<1>2. Len(a) = Len(b) /\ DOMAIN a = DOMAIN b
  BY <1>1
<1>3. ASSUME NEW i \in DOMAIN a PROVE a[i].content = b[i].content
  BY <1>2 DEF FixedByTip
<1>. QED BY <1>2, <1>3

\* For chains of any length, whatever was edited in the file: where every link names a
\* manifest, the tip printed with an ok fixes the listed content hashes and their order.
\* Without that premise it does not: see TipCommits (chain.py:102-104, 199-259).
THEOREM HistoryFixed == ChainSpec => []TipFixesHistory
BY TipSound, ChainInvInit, ChainStep, PTL DEF ChainSpec

\* For chains of any length over directories nobody touches meanwhile: an ok says that
\* every manifest the chain names is there with its content (chain.py:225-250).
THEOREM StagesIntact == ChainSpec => []ChainOkIntact
BY StagesSound, ChainInvInit, ChainStep, PTL DEF ChainSpec

-----------------------------------------------------------------------------
(* Archive. *)

FileName == {"manifest.json", "artifacts"}

HasManifest(fs) == \E k \in DOMAIN fs : fs[k] = "manifest.json"

\* The deposit of the command under way.
Pending == deposits[Len(deposits)]

\* What the command holds at each step.
OrderInv ==
    /\ apc # "idle" => run \in Dirs /\ loaded \in Bodies /\ HasManifest(wanted)
    /\ apc \in {"idle", "create"} => sent = 0
    /\ apc = "publish" => sent = Len(wanted)

\* Its deposit has the answered uploads, in the order they are asked for.
LastInv ==
    apc \in {"upload", "publish"} =>
       /\ deposits # <<>>
       /\ ~Pending.public /\ Pending.asked = wanted /\ Pending.title = loaded
       /\ Len(Pending.uploads) = sent /\ sent <= Len(wanted)
       /\ \A k \in 1 .. sent : Pending.uploads[k].name = wanted[k]

\* With the directory left alone it still holds the manifest of the title.
StillInv ==
    calm /\ apc \in {"create", "upload"} =>
       manifest[run] \in Record /\ manifest[run].body = loaded

\* A public deposit is whole, ...
WholeInv ==
    \A i \in DOMAIN deposits :
       /\ HasManifest(deposits[i].asked)
       /\ deposits[i].public =>
             /\ Len(deposits[i].uploads) = Len(deposits[i].asked)
             /\ \A k \in DOMAIN deposits[i].asked :
                   deposits[i].uploads[k].name = deposits[i].asked[k]

\* ... and any deposit of a calm behaviour has the manifest of its title.
TitleInv ==
    calm => \A i \in DOMAIN deposits : \A k \in DOMAIN deposits[i].uploads :
       deposits[i].uploads[k].name = "manifest.json" =>
          deposits[i].uploads[k].of = deposits[i].title

ArchiveInv == /\ DirsInv /\ ArchiveTypeOK /\ OrderInv
              /\ LastInv /\ StillInv /\ WholeInv /\ TitleInv
-----------------------------------------------------------------------------
LEMMA UploadListHas ==
    ASSUME NEW fs \in FileLists
    PROVE  UploadList(fs) \in Seq(FileName) /\ HasManifest(UploadList(fs))
<1>1. fs \in Seq(FileName)
  BY FileListsOK DEF FileName
<1>2. CASE \E i \in DOMAIN fs : fs[i] = "manifest.json"
  BY <1>1, <1>2 DEF UploadList, HasManifest
<1>3. CASE ~\E i \in DOMAIN fs : fs[i] = "manifest.json"
  <2>1. <<"manifest.json">> \in Seq(FileName)
    BY DEF FileName
  <2> DEFINE l == <<"manifest.json">> \o fs
  <2>2. l \in Seq(FileName) /\ 1 \in DOMAIN l /\ l[1] = "manifest.json"
    BY <1>1, <2>1
  <2>. QED BY <1>3, <2>2 DEF UploadList, HasManifest
<1>. QED BY <1>2, <1>3

LEMMA ArchiveRests == ASSUME DirsInv, ArchiveInit PROVE ArchiveInv
<1>1. <<>> \in Seq(Deposit) /\ <<>> \in Seq(FileName)
  OBVIOUS
<1>2. ArchiveTypeOK
  BY <1>1 DEF ArchiveInit, ArchiveTypeOK, ArchiveSteps, DirsInv, FileName
<1>3. WholeInv /\ TitleInv
  BY DEF ArchiveInit, WholeInv, TitleInv
<1>. QED BY <1>2, <1>3 DEF ArchiveInit, ArchiveInv, OrderInv, LastInv, StillInv

LEMMA ArchiveInvInit == RunInit /\ ArchiveInit => ArchiveInv
BY RunInitType, ArchiveRests

\* Nothing but the manifest of a run directory has changed.
LEMMA ArchiveOwnerKeeps == ArchiveInv /\ ArchiveOwner => ArchiveInv'
<1> SUFFICES ASSUME ArchiveInv, ArchiveOwner PROVE ArchiveInv'
  OBVIOUS
<1>1. DirsInv' /\ calm' = calm
  <2>1. ASSUME NEW d \in Dirs, NEW b \in Bodies, Rebuild(d, b) PROVE DirsInv' /\ calm' = calm
    BY <2>1, RebuildKeeps DEF ArchiveOwner, ArchiveInv, Rebuild, Edit
  <2>2. ASSUME NEW d \in Dirs, NEW lost \in {NoFile, Torn}, Spoil(d, lost)
        PROVE DirsInv' /\ calm' = calm
    BY <2>2, SpoilKeeps DEF ArchiveOwner, ArchiveInv, Spoil, Edit
  <2>. QED BY <2>1, <2>2 DEF ArchiveOwner
<1>2. UNCHANGED <<deposits, apc, run, loaded, wanted, publish, sent>>
  BY DEF ArchiveOwner, archiveVars, order
<1>3. ArchiveTypeOK' /\ OrderInv'
  BY <1>1, <1>2 DEF ArchiveInv, ArchiveTypeOK, DirsInv, OrderInv
<1>4. LastInv' /\ WholeInv'
  BY <1>2 DEF ArchiveInv, LastInv, Pending, WholeInv
<1>5. TitleInv'
  BY <1>1, <1>2 DEF ArchiveInv, TitleInv
<1>6. StillInv'
  BY <1>1, <1>2 DEF ArchiveOwner, StillInv
<1>. QED BY <1>1, <1>3, <1>4, <1>5, <1>6 DEF ArchiveInv

\* The command ends: what it held is forgotten.
LEMMA OrderEnds ==
    ASSUME ArchiveInv, UNCHANGED <<runVars, commands>>, apc' = "idle", NoOrder,
           deposits' \in Seq(Deposit), WholeInv', TitleInv'
    PROVE  ArchiveInv'
<1>1. DirsInv'
  BY UnchangedDirs DEF ArchiveInv, DirsInv, RunTypeOK
<1>2. <<>> \in Seq(FileName)
  OBVIOUS
<1>3. ArchiveTypeOK'
  BY <1>1, <1>2 DEF ArchiveInv, ArchiveTypeOK, ArchiveSteps, NoOrder, DirsInv, FileName
<1>4. OrderInv' /\ LastInv' /\ StillInv'
  BY DEF NoOrder, OrderInv, LastInv, StillInv
<1>. QED BY <1>1, <1>3, <1>4 DEF ArchiveInv

LEMMA ArchiveStartKeeps ==
    ASSUME ArchiveInv, NEW d \in Dirs, NEW fs \in FileLists, NEW pub \in BOOLEAN,
           Archive(d, fs, pub)
    PROVE  ArchiveInv'
<1>1. DirsInv'
  BY SpendType, UnchangedDirs DEF Archive, ArchiveInv, DirsInv, RunTypeOK
<1>2. wanted' \in Seq(FileName) /\ HasManifest(wanted')
  BY UploadListHas DEF Archive
<1>3. loaded' \in Bodies
  BY DEF Archive, Record
<1>4. ArchiveTypeOK'
  BY <1>1, <1>2, <1>3 DEF Archive, ArchiveInv, ArchiveTypeOK, ArchiveSteps, DirsInv, FileName
<1>5. OrderInv' /\ LastInv'
  BY <1>2, <1>3 DEF Archive, ArchiveInv, OrderInv, LastInv
<1>6. StillInv'
  BY DEF Archive, runVars, StillInv
<1>7. WholeInv' /\ TitleInv'
  BY DEF Archive, runVars, ArchiveInv, WholeInv, TitleInv
<1>. QED BY <1>1, <1>4, <1>5, <1>6, <1>7 DEF ArchiveInv

\* A new deposit is empty and not public.
LEMMA CreateDepositKeeps == ArchiveInv /\ CreateDeposit => ArchiveInv'
<1> SUFFICES ASSUME ArchiveInv, CreateDeposit PROVE ArchiveInv'
  OBVIOUS
<1> DEFINE new == [title |-> loaded, uploads |-> <<>>, public |-> FALSE, asked |-> wanted]
<1>1. /\ deposits \in Seq(Deposit) /\ loaded \in Bodies /\ wanted \in Seq(FileName)
      /\ HasManifest(wanted) /\ sent = 0
  BY DEF CreateDeposit, ArchiveInv, ArchiveTypeOK, OrderInv, FileName
<1>2. new \in Deposit
  <2>1. <<>> \in Seq(Upload)
    OBVIOUS
  <2>. QED BY <1>1, <2>1 DEF Deposit, FileName
<1>3. deposits' = Append(deposits, new)
  BY DEF CreateDeposit
<1>4. /\ deposits' \in Seq(Deposit) /\ Len(deposits') = Len(deposits) + 1
      /\ deposits'[Len(deposits')] = new
      /\ \A i \in DOMAIN deposits : deposits'[i] = deposits[i]
      /\ \A i \in DOMAIN deposits' : i \in DOMAIN deposits \/ i = Len(deposits')
  BY <1>1, <1>2, <1>3
<1>5. WholeInv'
  BY <1>1, <1>4 DEF ArchiveInv, WholeInv
<1>6. TitleInv'
  BY <1>1, <1>4 DEF CreateDeposit, runVars, ArchiveInv, TitleInv
<1>7. CASE apc' = "idle" /\ NoOrder
  BY <1>4, <1>5, <1>6, <1>7, OrderEnds DEF CreateDeposit
<1>8. CASE apc' = "upload" /\ sent' = sent /\ UNCHANGED <<run, loaded, wanted, publish>>
  <2>1. DirsInv'
    BY UnchangedDirs DEF CreateDeposit, ArchiveInv, DirsInv, RunTypeOK
  <2>2. ArchiveTypeOK'
    BY <1>4, <1>8, <2>1 DEF ArchiveInv, ArchiveTypeOK, ArchiveSteps, DirsInv
  <2>3. OrderInv'
    BY <1>8 DEF CreateDeposit, ArchiveInv, OrderInv
  <2>4. LastInv'
    BY <1>1, <1>4, <1>8 DEF LastInv, Pending
  <2>5. StillInv'
    BY <1>8 DEF CreateDeposit, runVars, ArchiveInv, StillInv
  <2>. QED BY <1>5, <1>6, <2>1, <2>2, <2>3, <2>4, <2>5 DEF ArchiveInv
<1>. QED BY <1>7, <1>8 DEF CreateDeposit, Answered

\* One more file, read now.
LEMMA ContentType ==
    ASSUME ArchiveInv, NEW d \in Dirs, NEW name \in FileName,
           name = "manifest.json" => manifest[d] # NoFile
    PROVE  [name |-> name, of |-> Content(d, name)] \in Upload
<1>1. files[d] \in Bodies /\ manifest[d] \in Record \cup {NoFile, Torn}
  BY DEF ArchiveInv, DirsInv, RunTypeOK
<1>. QED BY <1>1 DEF Content, Upload, Record, FileName

LEMMA UploadFileKeeps == ArchiveInv /\ UploadFile => ArchiveInv'
<1> SUFFICES ASSUME ArchiveInv, UploadFile PROVE ArchiveInv'
  OBVIOUS
<1> DEFINE n == Len(deposits)
           name == wanted[sent + 1]
           file == [name |-> name, of |-> Content(run, name)]
           new == [deposits[n] EXCEPT !.uploads = Append(@, file)]
<1>1. /\ deposits \in Seq(Deposit) /\ n \in DOMAIN deposits /\ deposits[n] \in Deposit
      /\ deposits[n].uploads \in Seq(Upload) /\ sent \in Nat /\ sent < Len(wanted)
      /\ wanted \in Seq(FileName) /\ name \in FileName /\ run \in Dirs
  <2>1. deposits \in Seq(Deposit) /\ sent \in Nat /\ wanted \in Seq(FileName)
        /\ deposits # <<>> /\ run \in Dirs /\ sent < Len(wanted)
    BY DEF UploadFile, ArchiveInv, ArchiveTypeOK, LastInv, OrderInv, FileName
  <2>2. n \in DOMAIN deposits /\ deposits[n] \in Deposit /\ name \in FileName
    BY <2>1
  <2>. QED BY <2>1, <2>2 DEF Deposit
<1>2. file \in Upload /\ file.name = name /\ file.of = Content(run, name)
  BY <1>1, ContentType DEF UploadFile
<1>3. /\ new \in Deposit /\ new.uploads = Append(deposits[n].uploads, file)
      /\ new.title = deposits[n].title /\ new.public = deposits[n].public
      /\ new.asked = deposits[n].asked
  <2> HIDE DEF file
  <2>1. Append(deposits[n].uploads, file) \in Seq(Upload)
    BY <1>1, <1>2
  <2>2. deposits[n] \in Deposit
    BY <1>1
  <2>. QED BY <2>1, <2>2 DEF Deposit
<1>4. deposits' = [deposits EXCEPT ![n] = new]
  BY <1>1 DEF UploadFile
<1>5. /\ deposits' \in Seq(Deposit) /\ Len(deposits') = n /\ deposits'[n] = new
      /\ DOMAIN deposits' = DOMAIN deposits
      /\ \A i \in DOMAIN deposits : i # n => deposits'[i] = deposits[i]
  BY <1>1, <1>3, <1>4
<1>6. /\ ~deposits[n].public /\ deposits[n].asked = wanted /\ deposits[n].title = loaded
      /\ Len(deposits[n].uploads) = sent
      /\ \A k \in 1 .. sent : deposits[n].uploads[k].name = wanted[k]
  BY DEF UploadFile, ArchiveInv, LastInv, Pending
<1>7. /\ Len(new.uploads) = sent + 1 /\ new.uploads[sent + 1] = file
      /\ \A k \in 1 .. sent : new.uploads[k] = deposits[n].uploads[k]
      /\ \A k \in DOMAIN new.uploads : k \in 1 .. sent \/ k = sent + 1
  BY <1>1, <1>2, <1>3, <1>6
<1> HIDE DEF new, file
<1>8. WholeInv'
  <2> SUFFICES ASSUME NEW i \in DOMAIN deposits
               PROVE  /\ HasManifest(deposits'[i].asked)
                      /\ deposits'[i].public =>
                            /\ Len(deposits'[i].uploads) = Len(deposits'[i].asked)
                            /\ \A k \in DOMAIN deposits'[i].asked :
                                  deposits'[i].uploads[k].name = deposits'[i].asked[k]
    BY <1>5 DEF WholeInv
  <2>1. CASE i # n
    BY <1>5, <2>1 DEF ArchiveInv, WholeInv
  <2>2. CASE i = n
    BY <1>1, <1>3, <1>5, <1>6, <2>2 DEF ArchiveInv, WholeInv
  <2>. QED BY <2>1, <2>2
<1>9. TitleInv'
  <2> SUFFICES ASSUME calm, NEW i \in DOMAIN deposits, NEW k \in DOMAIN deposits'[i].uploads,
                      deposits'[i].uploads[k].name = "manifest.json"
               PROVE  deposits'[i].uploads[k].of = deposits'[i].title
    BY <1>5 DEF UploadFile, runVars, TitleInv
  <2>1. CASE i # n
    BY <1>5, <2>1 DEF ArchiveInv, TitleInv
  <2>2. CASE i = n /\ k \in 1 .. sent
    <3>1. deposits'[i].uploads[k] = deposits[n].uploads[k] /\ k \in DOMAIN deposits[n].uploads
      BY <1>1, <1>5, <1>6, <1>7, <2>2
    <3>. QED BY <1>1, <1>3, <1>5, <2>2, <3>1 DEF ArchiveInv, TitleInv
  <2>3. CASE i = n /\ k = sent + 1
    <3>1. name = "manifest.json" /\ deposits'[i].uploads[k].of = Content(run, name)
      BY <1>2, <1>5, <1>7, <2>3
    <3>2. manifest[run] \in Record /\ manifest[run].body = loaded
      BY DEF UploadFile, ArchiveInv, StillInv
    <3>3. Content(run, name) = loaded
      BY <3>1, <3>2, DirSentinels DEF Content
    <3>. QED BY <1>3, <1>5, <1>6, <2>3, <3>1, <3>3
  <2>. QED BY <1>5, <1>7, <2>1, <2>2, <2>3
<1>10. CASE apc' = "idle" /\ NoOrder
  BY <1>5, <1>8, <1>9, <1>10, OrderEnds DEF UploadFile
<1>11. CASE apc' = "upload" /\ sent' = sent + 1 /\ UNCHANGED <<run, loaded, wanted, publish>>
  <2>1. DirsInv'
    BY UnchangedDirs DEF UploadFile, ArchiveInv, DirsInv, RunTypeOK
  <2>2. ArchiveTypeOK'
    BY <1>1, <1>5, <1>11, <2>1 DEF ArchiveInv, ArchiveTypeOK, ArchiveSteps, DirsInv
  <2>3. OrderInv'
    BY <1>11 DEF UploadFile, ArchiveInv, OrderInv
  <2>4. LastInv'
    <3>1. Pending' = new /\ deposits' # <<>>
      BY <1>1, <1>5 DEF Pending
    <3>2. \A k \in 1 .. sent + 1 : new.uploads[k].name = wanted[k]
      BY <1>1, <1>2, <1>6, <1>7
    <3>3. ~Pending.public' /\ Pending.asked' = wanted' /\ Pending.title' = loaded'
      BY <1>3, <1>6, <1>11, <3>1
    <3>4. Len(Pending.uploads)' = sent' /\ sent' <= Len(wanted')
      BY <1>1, <1>7, <1>11, <3>1
    <3>5. \A k \in 1 .. sent' : Pending.uploads[k].name' = wanted'[k]
      BY <1>11, <3>1, <3>2
    <3>. QED BY <3>1, <3>3, <3>4, <3>5 DEF LastInv
  <2>5. StillInv'
    BY <1>11 DEF UploadFile, runVars, ArchiveInv, StillInv
  <2>. QED BY <1>8, <1>9, <2>1, <2>2, <2>3, <2>4, <2>5 DEF ArchiveInv
<1>. QED BY <1>10, <1>11 DEF UploadFile, Answered

LEMMA EndUploadKeeps == ArchiveInv /\ EndUpload => ArchiveInv'
<1> SUFFICES ASSUME ArchiveInv, EndUpload PROVE ArchiveInv'
  OBVIOUS
<1>1. DirsInv'
  BY UnchangedDirs DEF EndUpload, ArchiveInv, DirsInv, RunTypeOK
<1>2. UNCHANGED <<deposits, run, loaded, wanted, publish, sent, calm>>
      /\ apc = "upload" /\ apc' \in {"publish", "printed"} /\ sent = Len(wanted)
  BY DEF EndUpload, order, runVars
<1>3. ArchiveTypeOK' /\ OrderInv'
  BY <1>1, <1>2 DEF ArchiveInv, ArchiveTypeOK, ArchiveSteps, DirsInv, OrderInv
<1>4. LastInv' /\ WholeInv' /\ TitleInv' /\ StillInv'
  BY <1>2 DEF ArchiveInv, LastInv, Pending, WholeInv, TitleInv, StillInv
<1>. QED BY <1>1, <1>3, <1>4 DEF ArchiveInv

\* What becomes public is the deposit of the command, with all it was asked for.
LEMMA PublishDepositKeeps == ArchiveInv /\ PublishDeposit => ArchiveInv'
<1> SUFFICES ASSUME ArchiveInv, PublishDeposit PROVE ArchiveInv'
  OBVIOUS
<1> DEFINE n == Len(deposits)
           new == [deposits[n] EXCEPT !.public = TRUE]
<1>1. deposits \in Seq(Deposit) /\ n \in DOMAIN deposits /\ deposits[n] \in Deposit
  <2>1. deposits \in Seq(Deposit) /\ deposits # <<>>
    BY DEF PublishDeposit, ArchiveInv, ArchiveTypeOK, LastInv
  <2>. QED BY <2>1
<1>2. /\ new \in Deposit /\ new.uploads = deposits[n].uploads
      /\ new.title = deposits[n].title /\ new.asked = deposits[n].asked
  BY <1>1 DEF Deposit
<1>3. deposits' = [deposits EXCEPT ![n] = new]
  BY <1>1 DEF PublishDeposit
<1>4. /\ deposits' \in Seq(Deposit) /\ Len(deposits') = n /\ deposits'[n] = new
      /\ DOMAIN deposits' = DOMAIN deposits
      /\ \A i \in DOMAIN deposits : i # n => deposits'[i] = deposits[i]
  BY <1>1, <1>2, <1>3
<1>5. /\ new.asked = wanted /\ Len(new.uploads) = Len(wanted)
      /\ \A k \in 1 .. Len(wanted) : new.uploads[k].name = wanted[k]
  BY <1>2 DEF PublishDeposit, ArchiveInv, LastInv, Pending, OrderInv
<1> HIDE DEF new
<1>6. WholeInv'
  <2> SUFFICES ASSUME NEW i \in DOMAIN deposits
               PROVE  /\ HasManifest(deposits'[i].asked)
                      /\ deposits'[i].public =>
                            /\ Len(deposits'[i].uploads) = Len(deposits'[i].asked)
                            /\ \A k \in DOMAIN deposits'[i].asked :
                                  deposits'[i].uploads[k].name = deposits'[i].asked[k]
    BY <1>4 DEF WholeInv
  <2>1. CASE i # n
    BY <1>4, <2>1 DEF ArchiveInv, WholeInv
  <2>2. CASE i = n
    <3>1. wanted \in Seq(FileName) /\ HasManifest(wanted)
      BY DEF PublishDeposit, ArchiveInv, ArchiveTypeOK, OrderInv, FileName
    <3>. QED BY <1>4, <1>5, <2>2, <3>1
  <2>. QED BY <2>1, <2>2
<1>7. TitleInv'
  BY <1>1, <1>2, <1>4 DEF PublishDeposit, runVars, ArchiveInv, TitleInv
<1>8. CASE apc' = "idle" /\ NoOrder
  BY <1>4, <1>6, <1>7, <1>8, OrderEnds DEF PublishDeposit
<1>9. CASE apc' = "printed" /\ sent' = sent /\ UNCHANGED <<run, loaded, wanted, publish>>
  <2>1. DirsInv'
    BY UnchangedDirs DEF PublishDeposit, ArchiveInv, DirsInv, RunTypeOK
  <2>2. ArchiveTypeOK'
    BY <1>4, <1>9, <2>1 DEF ArchiveInv, ArchiveTypeOK, ArchiveSteps, DirsInv
  <2>3. OrderInv' /\ LastInv' /\ StillInv'
    BY <1>9 DEF PublishDeposit, ArchiveInv, OrderInv, LastInv, StillInv
  <2>. QED BY <1>6, <1>7, <2>1, <2>2, <2>3 DEF ArchiveInv
<1>. QED BY <1>8, <1>9 DEF PublishDeposit, Answered

LEMMA ArchiveStep ==
    ArchiveInv /\ [ArchiveNext]_<<runVars, commands, archiveVars>> => ArchiveInv'
<1>1. ArchiveInv /\ EndArchive => ArchiveInv'
  <2> SUFFICES ASSUME ArchiveInv, EndArchive PROVE ArchiveInv'
    OBVIOUS
  <2>1. WholeInv' /\ TitleInv' /\ deposits' \in Seq(Deposit)
    BY DEF EndArchive, runVars, ArchiveInv, ArchiveTypeOK, WholeInv, TitleInv
  <2>. QED BY <2>1, OrderEnds DEF EndArchive
<1>2. ArchiveInv /\ UNCHANGED <<runVars, commands, archiveVars>> => ArchiveInv'
  <2> SUFFICES ASSUME ArchiveInv, UNCHANGED <<runVars, commands, archiveVars>> PROVE ArchiveInv'
    OBVIOUS
  <2>1. DirsInv'
    BY UnchangedDirs DEF ArchiveInv, DirsInv, RunTypeOK
  <2>2. ArchiveTypeOK' /\ OrderInv'
    BY <2>1 DEF archiveVars, order, ArchiveInv, ArchiveTypeOK, DirsInv, OrderInv
  <2>3. LastInv' /\ WholeInv'
    BY DEF archiveVars, order, ArchiveInv, LastInv, Pending, WholeInv
  <2>4. StillInv' /\ TitleInv'
    BY DEF archiveVars, order, runVars, ArchiveInv, StillInv, TitleInv
  <2>. QED BY <2>1, <2>2, <2>3, <2>4 DEF ArchiveInv
<1>. QED BY <1>1, <1>2, ArchiveOwnerKeeps, ArchiveStartKeeps, CreateDepositKeeps,
         UploadFileKeeps, EndUploadKeeps, PublishDepositKeeps DEF ArchiveNext, ArchiveCommand

LEMMA DepositSound == ArchiveInv => DepositWhole
<1> SUFFICES ASSUME ArchiveInv, NEW i \in DOMAIN deposits
             PROVE  LET uploads == deposits[i].uploads IN
                    /\ deposits[i].public =>
                         /\ [k \in DOMAIN uploads |-> uploads[k].name] = deposits[i].asked
                         /\ \E k \in DOMAIN uploads : uploads[k].name = "manifest.json"
                    /\ calm => \A k \in DOMAIN uploads :
                         uploads[k].name = "manifest.json" =>
                            uploads[k].of = deposits[i].title
  BY DEF DepositWhole
<1> DEFINE uploads == deposits[i].uploads
           request == deposits[i].asked
<1>1. uploads \in Seq(Upload) /\ request \in Seq(FileName)
  <2>1. deposits[i] \in Deposit
    BY DEF ArchiveInv, ArchiveTypeOK
  <2>. QED BY <2>1 DEF Deposit, FileName
<1>2. ASSUME deposits[i].public
      PROVE  /\ [k \in DOMAIN uploads |-> uploads[k].name] = request
             /\ \E k \in DOMAIN uploads : uploads[k].name = "manifest.json"
  <2>1. /\ Len(uploads) = Len(request) /\ HasManifest(request)
        /\ \A k \in DOMAIN request : uploads[k].name = request[k]
    BY <1>2 DEF ArchiveInv, WholeInv
  <2>2. DOMAIN uploads = DOMAIN request
    BY <1>1, <2>1
  <2>3. request = [k \in DOMAIN request |-> request[k]]
    BY <1>1
  <2>. QED BY <2>1, <2>2, <2>3 DEF HasManifest
<1>3. calm => \A k \in DOMAIN uploads :
        uploads[k].name = "manifest.json" => uploads[k].of = deposits[i].title
  BY DEF ArchiveInv, TitleInv
<1>. QED BY <1>2, <1>3
-----------------------------------------------------------------------------
(* The theorems of Archive. *)

\* The deposits and what the command holds keep their types (archive.py:191-291).
THEOREM ArchiveTypeCorrect == ArchiveSpec => []ArchiveTypeOK
<1>1. ArchiveInv => ArchiveTypeOK
  BY DEF ArchiveInv
<1>. QED BY <1>1, ArchiveInvInit, ArchiveStep, PTL DEF ArchiveSpec

\* For any lists of files, whichever requests fail or lose their answer: a public
\* deposit has the manifest and every file asked for, and in a calm behaviour the
\* manifest of its title (archive.py:244-290).
THEOREM DepositsWhole == ArchiveSpec => []DepositWhole
BY DepositSound, ArchiveInvInit, ArchiveStep, PTL DEF ArchiveSpec
-----------------------------------------------------------------------------
(* Publication: what a scene has no part in stays at rest. *)

RestInv ==
    /\ scene \notin {"sweep", "index"} => CampaignInit
    /\ scene # "index" => RegistryInit
    /\ scene # "chain" => ChainInit
    /\ scene # "archive" => ArchiveInit

PublicationInv ==
    RegistryInv /\ ChainInv /\ ArchiveInv /\ WithheldInv /\ RestInv

LEMMA PublicationInvInit == Init => PublicationInv
<1> SUFFICES ASSUME Init PROVE PublicationInv
  OBVIOUS
<1>1. RunInit /\ CampaignInit /\ RegistryInit /\ ChainInit /\ ArchiveInit /\ WithheldInit
  BY DEF Init
<1>2. RegistryInv /\ ChainInv /\ ArchiveInv /\ WithheldInv
  BY <1>1, RegistryInvInit, ChainInvInit, ArchiveInvInit, WithheldInvInit
<1>3. RestInv
  BY <1>1 DEF RestInv
<1>. QED BY <1>2, <1>3 DEF PublicationInv

\* The parts that no step of this one touches.
LEMMA CampaignStays == ASSUME CampaignInit, UNCHANGED campaignVars PROVE CampaignInit'
BY DEF CampaignInit, campaignVars, job

LEMMA RegistryStays == ASSUME RegistryInit, UNCHANGED registryVars PROVE RegistryInit'
BY DEF RegistryInit, registryVars, task

LEMMA ChainStays == ASSUME ChainInit, UNCHANGED chainVars PROVE ChainInit'
BY DEF ChainInit, chainVars, walk

LEMMA ArchiveStays == ASSUME ArchiveInit, UNCHANGED archiveVars PROVE ArchiveInit'
BY DEF ArchiveInit, archiveVars, order

LEMMA WithheldStays == ASSUME WithheldInv, UNCHANGED withheldVars PROVE WithheldInv'
BY WithheldInductive

\* A part at rest has its invariant, before a step and after it.
RestOK ==
    /\ DirsInv /\ CampaignInit => CampaignInv
    /\ CampaignInv /\ RegistryInit => RegistryInv
    /\ DirsInv /\ ChainInit => ChainInv
    /\ DirsInv /\ ArchiveInit => ArchiveInv

LEMMA RestHolds == RestOK'
<1>1. RestOK
  BY CampaignRests, RegistryRests, ChainRests, ArchiveRests DEF RestOK
<1>. QED BY <1>1, PTL

LEMMA SweepingKeeps == ASSUME PublicationInv, Sweeping PROVE PublicationInv'
<1>1. /\ scene = "sweep" /\ CampaignNext
      /\ UNCHANGED <<scene, registryVars, chainVars, archiveVars, withheldVars>>
  BY DEF Sweeping
<1>2. CampaignInv' /\ DirsInv'
  <2>1. CampaignInv'
    BY <1>1, CampaignStep DEF PublicationInv, RegistryInv
  <2>. QED BY <2>1 DEF CampaignInv
<1>3. RegistryInit' /\ ChainInit' /\ ArchiveInit'
  BY <1>1, RegistryStays, ChainStays, ArchiveStays DEF PublicationInv, RestInv
<1>4. RegistryInv' /\ ChainInv' /\ ArchiveInv' /\ WithheldInv'
  BY <1>1, <1>2, <1>3, RestHolds, WithheldStays DEF PublicationInv, RestOK
<1>5. RestInv'
  BY <1>1, <1>3 DEF RestInv
<1>. QED BY <1>2, <1>4, <1>5 DEF PublicationInv

LEMMA IndexingKeeps == ASSUME PublicationInv, Indexing PROVE PublicationInv'
<1>1. /\ scene = "index" /\ RegistryNext
      /\ UNCHANGED <<scene, chainVars, archiveVars, withheldVars>>
  BY DEF Indexing
<1>2. RegistryInv' /\ DirsInv'
  <2>1. RegistryInv'
    BY <1>1, RegistryInductive DEF PublicationInv
  <2>. QED BY <2>1 DEF RegistryInv, CampaignInv
<1>3. ChainInit' /\ ArchiveInit'
  BY <1>1, ChainStays, ArchiveStays DEF PublicationInv, RestInv
<1>4. ChainInv' /\ ArchiveInv' /\ WithheldInv'
  BY <1>1, <1>2, <1>3, RestHolds, WithheldStays DEF PublicationInv, RestOK
<1>5. RestInv'
  BY <1>1, <1>3 DEF RestInv
<1>. QED BY <1>2, <1>4, <1>5 DEF PublicationInv

LEMMA ChainingKeeps == ASSUME PublicationInv, Chaining PROVE PublicationInv'
<1>1. /\ scene = "chain" /\ ChainNext
      /\ UNCHANGED <<scene, campaignVars, registryVars, archiveVars, withheldVars>>
  BY DEF Chaining
<1>2. ChainInv' /\ DirsInv'
  <2>1. ChainInv'
    BY <1>1, ChainStep DEF PublicationInv
  <2>. QED BY <2>1 DEF ChainInv
<1>3. CampaignInit' /\ RegistryInit' /\ ArchiveInit'
  BY <1>1, CampaignStays, RegistryStays, ArchiveStays DEF PublicationInv, RestInv
<1>4. RegistryInv' /\ ArchiveInv' /\ WithheldInv'
  BY <1>1, <1>2, <1>3, RestHolds, WithheldStays DEF PublicationInv, RestOK
<1>5. RestInv'
  BY <1>1, <1>3 DEF RestInv
<1>. QED BY <1>2, <1>4, <1>5 DEF PublicationInv

LEMMA DepositingKeeps == ASSUME PublicationInv, Depositing PROVE PublicationInv'
<1>1. /\ scene = "archive" /\ ArchiveNext
      /\ UNCHANGED <<scene, campaignVars, registryVars, chainVars, withheldVars>>
  BY DEF Depositing
<1>2. ArchiveInv' /\ DirsInv'
  <2>1. ArchiveInv'
    BY <1>1, ArchiveStep DEF PublicationInv
  <2>. QED BY <2>1 DEF ArchiveInv
<1>3. CampaignInit' /\ RegistryInit' /\ ChainInit'
  BY <1>1, CampaignStays, RegistryStays, ChainStays DEF PublicationInv, RestInv
<1>4. RegistryInv' /\ ChainInv' /\ WithheldInv'
  BY <1>1, <1>2, <1>3, RestHolds, WithheldStays DEF PublicationInv, RestOK
<1>5. RestInv'
  BY <1>1, <1>3 DEF RestInv
<1>. QED BY <1>2, <1>4, <1>5 DEF PublicationInv

\* The run directories stay as they are.
LEMMA WithholdingKeeps ==
    ASSUME PublicationInv, [WithheldNext]_withheldVars,
           UNCHANGED <<scene, runVars, commands, campaignVars, registryVars, chainVars,
                       archiveVars>>
    PROVE  PublicationInv'
<1>1. WithheldInv'
  BY WithheldInductive DEF PublicationInv
<1>2. RegistryInv'
  BY RegistryInductive DEF PublicationInv
<1>3. ChainInv' /\ ArchiveInv'
  BY ChainStep, ArchiveStep DEF PublicationInv
<1>4. RestInv'
  BY CampaignStays, RegistryStays, ChainStays, ArchiveStays DEF PublicationInv, RestInv
<1>. QED BY <1>1, <1>2, <1>3, <1>4 DEF PublicationInv

LEMMA PublicationInductive == ASSUME PublicationInv, [Next]_vars PROVE PublicationInv'
<1>1. CASE Withholding \/ UNCHANGED vars
  BY <1>1, WithholdingKeeps DEF Withholding, vars
<1>. QED BY <1>1, SweepingKeeps, IndexingKeeps, ChainingKeeps, DepositingKeeps DEF Next

LEMMA PublicationAlways == Spec => []PublicationInv
<1>. QED BY PublicationInvInit, PublicationInductive, PTL DEF Spec
-----------------------------------------------------------------------------
(* The theorems of Publication. *)

\* Whatever is done with finished runs, every file of the four parts and all that their
\* commands hold in memory keep their types.
THEOREM PublicationTypeCorrect == Spec => []PublicationTypeOK
<1>1. PublicationInv => PublicationTypeOK
  BY DEF PublicationInv, RegistryInv, ChainInv, ArchiveInv, WithheldInv, PublicationTypeOK
<1>. QED BY <1>1, PublicationAlways, PTL

\* The verdicts of `campaign --verify` are right, and a campaign names the plan of a
\* child, with indexes, chains, deposits and reveals around it.
THEOREM PublicationCampaigns ==
    Spec => [](OkMeansIntact /\ FailHasCause /\ PlanOfChild /\ PlanCommitted)
<1>1. PublicationInv => OkMeansIntact /\ FailHasCause /\ PlanOfChild /\ PlanCommitted
  BY VerdictsSound DEF PublicationInv, RegistryInv
<1>. QED BY <1>1, PublicationAlways, PTL

\* So is the registry, ...
THEOREM PublicationRegistry == Spec => [](OneRowPerHash /\ IndexedListed /\ LevelEarned)
<1>1. PublicationInv => OneRowPerHash /\ IndexedListed /\ LevelEarned
  BY RowsFound DEF PublicationInv
<1>. QED BY <1>1, PublicationAlways, PTL

\* ... which loses no row but those its new rows replace.
THEOREM PublicationRowsKept == Spec => RowsKept
<1>1. PublicationInv /\ [Next]_vars => [RowsKeptStep]_registryVars
  <2> SUFFICES ASSUME PublicationInv, [Next]_vars PROVE [RowsKeptStep]_registryVars
    OBVIOUS
  <2>1. CASE Indexing
    BY <2>1, RowsKeptByStep DEF Indexing, PublicationInv
  <2>2. CASE ~Indexing
    BY <2>2 DEF Next, Sweeping, Chaining, Depositing, Withholding, vars
  <2>. QED BY <2>1, <2>2
<1>2. Spec => [][RowsKeptStep]_registryVars
  BY <1>1, PublicationAlways, PTL DEF Spec
<1>. QED BY <1>2 DEF RowsKept, RowsKeptStep

\* Whatever else is done with the directories, a tip fixes the history it is printed for.
THEOREM PublicationTips == Spec => []TipFixesHistory
<1>1. PublicationInv => TipFixesHistory
  BY TipSound DEF PublicationInv
<1>. QED BY <1>1, PublicationAlways, PTL

\* And an ok says that the stages are there.
THEOREM PublicationStages == Spec => []ChainOkIntact
<1>1. PublicationInv => ChainOkIntact
  BY StagesSound DEF PublicationInv
<1>. QED BY <1>1, PublicationAlways, PTL

\* What is public is whole.
THEOREM PublicationDeposits == Spec => []DepositWhole
<1>1. PublicationInv => DepositWhole
  BY DepositSound DEF PublicationInv
<1>. QED BY <1>1, PublicationAlways, PTL

\* And a record is of one directory, a reveal of a file it was committed to.
THEOREM PublicationReveals ==
    Spec => [](DriftCaught /\ RevealSound /\ RevealHasCause /\ RevealWhole)
<1>1. PublicationInv => DriftCaught /\ RevealSound /\ RevealHasCause /\ RevealWhole
  BY DEF PublicationInv, WithheldInv
<1>. QED BY <1>1, PublicationAlways, PTL
-----------------------------------------------------------------------------
(* In its scene, the composition implements the specification of the part. *)

\* `campaign` beside the owner of the directories (cli.py:1294-1334).
THEOREM SceneOfCampaign == Spec /\ scene = "sweep" => CampaignSpec
<1> DEFINE Here == scene = "sweep"
<1>1. Init => RunInit /\ CampaignInit
  BY DEF Init
<1>2. Here /\ [Next]_vars => Here' /\ [CampaignNext]_<<runVars, commands, campaignVars>>
  BY DEF Next, vars, Sweeping, Indexing, Chaining, Depositing, Withholding
<1>. QED BY <1>1, <1>2, PTL DEF Spec, CampaignSpec

\* `index`, by any number of processes, beside `campaign` and the owner.
THEOREM SceneOfRegistry == Spec /\ scene = "index" => RegistrySpec
<1> DEFINE Here == scene = "index"
<1>1. Init => RunInit /\ CampaignInit /\ RegistryInit
  BY DEF Init
<1>2. Here /\ [Next]_vars =>
        Here' /\ [RegistryNext]_<<runVars, commands, campaignVars, registryVars>>
  BY DEF Next, vars, Sweeping, Indexing, Chaining, Depositing, Withholding
<1>. QED BY <1>1, <1>2, PTL DEF Spec, RegistrySpec

\* `chain` beside the owner (cli.py:1730-1789).
THEOREM SceneOfChain == Spec /\ scene = "chain" => ChainSpec
<1> DEFINE Here == scene = "chain"
<1>1. Init => RunInit /\ ChainInit
  BY DEF Init
<1>2. Here /\ [Next]_vars => Here' /\ [ChainNext]_<<runVars, commands, chainVars>>
  BY DEF Next, vars, Sweeping, Indexing, Chaining, Depositing, Withholding
<1>. QED BY <1>1, <1>2, PTL DEF Spec, ChainSpec

\* `archive --zenodo` beside the owner (cli.py:1643-1727).
THEOREM SceneOfArchive == Spec /\ scene = "archive" => ArchiveSpec
<1> DEFINE Here == scene = "archive"
<1>1. Init => RunInit /\ ArchiveInit
  BY DEF Init
<1>2. Here /\ [Next]_vars => Here' /\ [ArchiveNext]_<<runVars, commands, archiveVars>>
  BY DEF Next, vars, Sweeping, Indexing, Chaining, Depositing, Withholding
<1>. QED BY <1>1, <1>2, PTL DEF Spec, ArchiveSpec

\* `manifest` and `reveal-withheld`, in every scene.
THEOREM SceneOfWithheld == Spec => WithheldSpec
<1>1. Init => WithheldInit
  BY DEF Init
<1>2. [Next]_vars => [WithheldNext]_withheldVars
  BY DEF Next, vars, Sweeping, Indexing, Chaining, Depositing, Withholding
<1>. QED BY <1>1, <1>2, PTL DEF Spec, WithheldSpec
=============================================================================
