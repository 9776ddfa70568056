--------------------------- MODULE RunRecordProofs ---------------------------
(***************************************************************************)
(* Proofs about RunRecord, for any number of invocations, bodies, CIDs and *)
(* calendars.  The invariants the runs check are not inductive: what       *)
(* reaches the disk was held in some process's memory before, so each of   *)
(* them is stated of the files and of every copy in memory (IInv).         *)
(***************************************************************************)
EXTENDS RunRecord, TLAPS

\* A proof shows a Bitcoin attestation only of a digest that is in Bitcoin.
Honest(f) == f \in Proof => \A c \in f.bitcoin : f.digest \in inBitcoin[c]

\* A record's stamps were made for its own body.
OwnStamps(r) ==
    r \in Record => /\ r.anchor # None => r.anchor.hash = r.body
                    /\ r.identity # None => r.identity = r.body

\* A record that claims an OpenTimestamps anchor was submitted.
Backed(r) == r \in Record /\ Timestamped(r) => Submitted(r.body)

\* The proof files a record names are on disk.
OnDisk(r) == r \in Record /\ Timestamped(r) =>
                 /\ ots # NoFile
                 /\ r.anchor.binding => cidOts # NoFile

\* What an invocation holds in memory at each step.
Loaded(p) ==
    /\ pc[p] \in {"publish", "submit", "proof", "bind", "save", "verify", "card"}
          => rec[p] \in Record
    /\ pc[p] \in {"proof", "bind", "upgrade", "upgrade both", "upgrade binding"}
          => proof[p] \in Proof
    /\ pc[p] = "bind" => arg[p] \in Cids /\ rec[p].anchor \in AnchorRecord
    /\ pc[p] = "proof" => rec[p].anchor \in AnchorRecord /\ ~rec[p].anchor.binding

LoadedInv == \A p \in Procs : Loaded(p)
HonestInv == Honest(ots) /\ Honest(cidOts) /\ \A p \in Procs : Honest(proof[p])
StampInv  == OwnStamps(manifest) /\ \A p \in Procs : OwnStamps(rec[p])
BackedInv == Backed(manifest) /\ \A p \in Procs : Backed(rec[p])
\* Between anchor_run and write_proof the record runs ahead of the files.
DiskInv   == OnDisk(manifest) /\ \A p \in Procs : pc[p] # "proof" => OnDisk(rec[p])

IInv == TypeOK /\ LoadedInv /\ HonestInv /\ StampInv /\ BackedInv /\ DiskInv

\* With one command at a time, what `verify` compared is still what is there
\* when it reads manifest.ots again.
AloneInv ==
    /\ \A p, q \in Procs : pc[p] # "idle" /\ pc[q] # "idle" => p = q
    /\ \A p \in Procs : pc[p] = "card" => Commits(ots, rec[p].body)
    /\ CardSound
-----------------------------------------------------------------------------
(* What the helpers return. *)

LEMMA FreshType == \A b \in Bodies : Fresh(b) \in Record
BY DEF Fresh, Record

LEMMA PendingType ==
    ASSUME NEW a \in SUBSET Calendars, NEW d \in Digests
    PROVE  Pending(a, d) \in Proof
BY DEF Pending, Proof

LEMMA UpgradedType ==
    ASSUME NEW f \in Proof, NEW done \in SUBSET Calendars
    PROVE  /\ Upgraded(f, done) \in Proof
           /\ Upgraded(f, done).digest = f.digest
           /\ Upgraded(f, done).pending = f.pending \ done
           /\ Upgraded(f, done).bitcoin = f.bitcoin \cup done
BY DEF Upgraded, Proof

LEMMA StampedType ==
    ASSUME NEW p \in Procs, NEW receipt \in AnchorRecord, rec[p] \in Record,
           arg[p] \in Cids \cup {None}
    PROVE  /\ Stamped(p, receipt) \in Record
           /\ Stamped(p, receipt).body = rec[p].body
           /\ Stamped(p, receipt).anchor = receipt
           /\ Stamped(p, receipt).identity = rec[p].identity
BY DEF Stamped, Record

LEMMA BindType ==
    ASSUME NEW b \in Bodies, NEW c \in Cids
    PROVE  Bind(b, c) \in Digests
BY DEF Bind, Digests

LEMMA AcceptType ==
    ASSUME NEW a, NEW d \in Digests, Accept(a, d), held \in [Calendars -> SUBSET Digests]
    PROVE  /\ held' \in [Calendars -> SUBSET Digests]
           /\ \A c \in Calendars : held[c] \subseteq held'[c]
           /\ \A c \in a \cap Calendars : d \in held'[c]
BY DEF Accept
-----------------------------------------------------------------------------
(* Type correctness.  The type of what a step stores depends on what the   *)
(* process loaded before, so TypeOK is proved together with LoadedInv.     *)

TypeInv == TypeOK /\ LoadedInv

LEMMA TypeInit == Init => TypeInv
<1> SUFFICES ASSUME Init PROVE TypeInv
  OBVIOUS
<1>1. manifest \in Record \cup {NoFile, Torn}
  BY FreshType DEF Init
<1>2. TypeOK
  BY <1>1, ConstantsOK DEF Init, TypeOK, Steps
<1>3. LoadedInv
  BY DEF Init, LoadedInv, Loaded
<1>. QED BY <1>2, <1>3 DEF TypeInv

LEMMA SpendType == budget \in Nat /\ Spend => budget' \in Nat
BY DEF Spend

LEMMA FinishType ==
    ASSUME TypeInv, NEW p \in Procs, Finish(p)
    PROVE  /\ pc' \in [Procs -> Steps] /\ rec' \in [Procs -> Record \cup {None}]
           /\ arg' \in [Procs -> Cids \cup {None}]
           /\ proof' \in [Procs -> Proof \cup {None}]
           /\ LoadedInv'
<1>1. /\ pc' \in [Procs -> Steps] /\ rec' \in [Procs -> Record \cup {None}]
      /\ arg' \in [Procs -> Cids \cup {None}]
      /\ proof' \in [Procs -> Proof \cup {None}]
  BY DEF TypeInv, TypeOK, Finish, Goto, Steps
<1>2. ASSUME NEW q \in Procs PROVE Loaded(q)'
  BY DEF TypeInv, TypeOK, LoadedInv, Loaded, Finish, Goto
<1>. QED BY <1>1, <1>2 DEF LoadedInv

LEMMA BindRecord ==
    ASSUME NEW r \in Record, r.anchor \in AnchorRecord
    PROVE  LET bound == [r EXCEPT !.anchor.binding = TRUE]
           IN  /\ bound \in Record
               /\ bound.body = r.body /\ bound.identity = r.identity
               /\ bound.anchor \in AnchorRecord
               /\ bound.anchor.hash = r.anchor.hash
               /\ bound.anchor.backend = r.anchor.backend
BY DEF Record, AnchorRecord

LEMMA TypeStep == TypeInv /\ [Next]_vars => TypeInv'
<1> SUFFICES ASSUME TypeInv, [Next]_vars PROVE TypeInv'
  OBVIOUS
<1> USE DEF TypeInv
<1>1. CASE UNCHANGED vars
  BY <1>1 DEF vars, directory, calendars, memory, TypeOK, LoadedInv, Loaded
<1>2. ASSUME NEW p \in Procs, NEW b \in Bodies, Build(p, b) PROVE TypeInv'
  <2>1. TypeOK'
    BY <1>2, FreshType, SpendType DEF Build, Goto, Steps, directory, calendars, TypeOK
  <2>2. LoadedInv'
    BY <1>2, FreshType DEF Build, Goto, directory, calendars, TypeOK, LoadedInv, Loaded
  <2>. QED BY <2>1, <2>2
<1>3. ASSUME NEW p \in Procs, NEW b \in Bodies, NEW c \in Cids \cup {None}, Notarize(p, b, c)
      PROVE TypeInv'
  <2>1. TypeOK'
    BY <1>3, FreshType, SpendType DEF Notarize, Goto, Steps, directory, calendars, TypeOK
  <2>2. LoadedInv'
    BY <1>3, FreshType DEF Notarize, Goto, directory, calendars, TypeOK, LoadedInv, Loaded
  <2>. QED BY <2>1, <2>2
<1>4. ASSUME NEW p \in Procs, NEW c \in Cids \cup {None}, Anchor(p, c) PROVE TypeInv'
  <2>1. TypeOK'
    BY <1>4, SpendType DEF Anchor, Goto, Steps, directory, calendars, TypeOK
  <2>2. LoadedInv'
    BY <1>4 DEF Anchor, Goto, directory, calendars, TypeOK, LoadedInv, Loaded
  <2>. QED BY <2>1, <2>2
<1>5. ASSUME NEW p \in Procs, Sign(p) PROVE TypeInv'
  <2>1. [manifest EXCEPT !.identity = manifest.body] \in Record
    BY <1>5 DEF Sign, Record
  <2>2. TypeOK'
    BY <1>5, <2>1, SpendType DEF Sign, Goto, Steps, directory, calendars, TypeOK
  <2>3. LoadedInv'
    BY <1>5, <2>1 DEF Sign, Goto, directory, calendars, TypeOK, LoadedInv, Loaded
  <2>. QED BY <2>2, <2>3
<1>6. ASSUME NEW p \in Procs, UpgradeRead(p) PROVE TypeInv'
  <2>1. TypeOK'
    BY <1>6 DEF UpgradeRead, Goto, Steps, directory, calendars, TypeOK
  <2>2. LoadedInv'
    BY <1>6 DEF UpgradeRead, Goto, directory, calendars, TypeOK, LoadedInv, Loaded
  <2>. QED BY <2>1, <2>2
<1>7. ASSUME NEW p \in Procs, VerifyLoad(p) PROVE TypeInv'
  <2>1. TypeOK'
    BY <1>7 DEF VerifyLoad, Goto, Steps, directory, calendars, TypeOK
  <2>2. LoadedInv'
    BY <1>7 DEF VerifyLoad, Goto, directory, calendars, TypeOK, LoadedInv, Loaded
  <2>. QED BY <2>1, <2>2
<1>8. ASSUME NEW p \in Procs, WriteUnstamped(p) PROVE TypeInv'
  <2>1. TypeOK'
    BY <1>8 DEF WriteUnstamped, Goto, Steps, calendars, memory, TypeOK, LoadedInv, Loaded
  <2>2. LoadedInv'
    BY <1>8 DEF WriteUnstamped, Goto, memory, TypeOK, LoadedInv, Loaded
  <2>. QED BY <2>1, <2>2
<1>9. ASSUME NEW p \in Procs, SubmitDryRun(p) PROVE TypeInv'
  <2> DEFINE receipt == [backend |-> "other", hash |-> rec[p].body, binding |-> FALSE]
  <2>1. rec[p] \in Record /\ receipt \in AnchorRecord /\ arg[p] \in Cids \cup {None}
    BY <1>9 DEF SubmitDryRun, TypeOK, LoadedInv, Loaded, Record, AnchorRecord
  <2>2. Stamped(p, receipt) \in Record
    BY <2>1, StampedType
  <2>3. TypeOK'
    BY <1>9, <2>2 DEF SubmitDryRun, Goto, Steps, directory, calendars, TypeOK
  <2>4. LoadedInv'
    BY <1>9, <2>2 DEF SubmitDryRun, Goto, TypeOK, LoadedInv, Loaded
  <2>. QED BY <2>3, <2>4
<1>10. ASSUME NEW p \in Procs, NEW accepted \in SUBSET Calendars, SubmitOts(p, accepted)
       PROVE TypeInv'
  <2> DEFINE receipt ==
        [backend |-> "opentimestamps", hash |-> rec[p].body, binding |-> FALSE]
  <2>1. rec[p] \in Record /\ receipt \in AnchorRecord /\ arg[p] \in Cids \cup {None}
    BY <1>10 DEF SubmitOts, TypeOK, LoadedInv, Loaded, Record, AnchorRecord
  <2>2. Stamped(p, receipt) \in Record /\ Stamped(p, receipt).anchor = receipt
    BY <2>1, StampedType
  <2>3. rec[p].body \in Digests
    BY <2>1 DEF Record, Digests
  <2>4. Pending(accepted, rec[p].body) \in Proof
    BY <2>3, PendingType
  <2>5. held' \in [Calendars -> SUBSET Digests]
    BY <1>10, <2>3, AcceptType DEF SubmitOts, TypeOK
  <2>6. TypeOK'
    BY <1>10, <2>2, <2>4, <2>5 DEF SubmitOts, Goto, Steps, directory, TypeOK
  <2>7. ~Stamped(p, receipt).anchor.binding
    BY <2>2
  <2>8. LoadedInv'
    BY <1>10, <2>1, <2>2, <2>4, <2>7 DEF SubmitOts, Goto, TypeOK, LoadedInv, Loaded
  <2>. QED BY <2>6, <2>8
<1>11. ASSUME NEW p \in Procs, WriteProof(p) PROVE TypeInv'
  <2>1. TypeOK'
    BY <1>11 DEF WriteProof, Goto, Steps, calendars, memory, TypeOK, LoadedInv, Loaded
  <2>2. LoadedInv'
    BY <1>11 DEF WriteProof, Goto, memory, TypeOK, LoadedInv, Loaded
  <2>. QED BY <2>1, <2>2
<1>12. ASSUME NEW p \in Procs, NEW accepted \in SUBSET Calendars, BindCid(p, accepted)
       PROVE TypeInv'
  <2>1. rec[p] \in Record /\ rec[p].anchor \in AnchorRecord /\ arg[p] \in Cids
    BY <1>12 DEF BindCid, LoadedInv, Loaded
  <2>2. [rec[p] EXCEPT !.anchor.binding = TRUE] \in Record
    BY <2>1, BindRecord
  <2>3. Bind(rec[p].body, arg[p]) \in Digests
    BY <2>1, BindType DEF Record
  <2>4. Pending(accepted, Bind(rec[p].body, arg[p])) \in Proof
    BY <2>3, PendingType
  <2>5. held' \in [Calendars -> SUBSET Digests]
    BY <1>12, <2>3, AcceptType DEF BindCid, TypeOK
  <2>6. TypeOK'
    BY <1>12, <2>2, <2>4, <2>5 DEF BindCid, Goto, Steps, TypeOK
  <2>7. LoadedInv'
    BY <1>12, <2>2 DEF BindCid, Goto, TypeOK, LoadedInv, Loaded
  <2>. QED BY <2>6, <2>7
<1>13. ASSUME NEW p \in Procs, BindFails(p) PROVE TypeInv'
  <2>1. TypeOK'
    BY <1>13 DEF BindFails, Goto, Steps, directory, calendars, memory, TypeOK
  <2>2. LoadedInv'
    BY <1>13 DEF BindFails, Goto, memory, TypeOK, LoadedInv, Loaded
  <2>. QED BY <2>1, <2>2
<1>14. ASSUME NEW p \in Procs, SaveManifest(p) PROVE TypeInv'
  <2>1. rec[p] \in Record /\ LoadedInv'
    BY <1>14, FinishType DEF SaveManifest, LoadedInv, Loaded
  <2>2. TypeOK'
    BY <1>14, <2>1, FinishType DEF SaveManifest, calendars, TypeOK
  <2>. QED BY <2>1, <2>2
<1>15. ASSUME NEW p \in Procs, NEW done \in SUBSET Calendars, UpgradeStore(p, done)
       PROVE TypeInv'
  <2>1. Upgraded(proof[p], done) \in Proof
    BY <1>15, UpgradedType DEF UpgradeStore, LoadedInv, Loaded
  <2>2. CASE pc[p] = "upgrade"
    BY <1>15, <2>1, <2>2, FinishType DEF UpgradeStore, calendars, TypeOK
  <2>3. CASE pc[p] = "upgrade both"
    <3>1. TypeOK'
      BY <1>15, <2>1, <2>3 DEF UpgradeStore, Goto, Steps, calendars, memory, TypeOK
    <3>2. LoadedInv'
      BY <1>15, <2>3 DEF UpgradeStore, Goto, memory, TypeOK, LoadedInv, Loaded
    <3>. QED BY <3>1, <3>2
  <2>. QED BY <1>15, <2>2, <2>3 DEF UpgradeStore
<1>16. ASSUME NEW p \in Procs, UpgradeRereadBinding(p) PROVE TypeInv'
  <2>1. TypeOK'
    BY <1>16 DEF UpgradeRereadBinding, Goto, Steps, directory, calendars, TypeOK
  <2>2. LoadedInv'
    BY <1>16 DEF UpgradeRereadBinding, Goto, TypeOK, LoadedInv, Loaded
  <2>. QED BY <2>1, <2>2
<1>17. ASSUME NEW p \in Procs, NEW done \in SUBSET Calendars, UpgradeStoreBinding(p, done)
       PROVE TypeInv'
  <2>1. Upgraded(proof[p], done) \in Proof
    BY <1>17, UpgradedType DEF UpgradeStoreBinding, LoadedInv, Loaded
  <2>. QED BY <1>17, <2>1, FinishType DEF UpgradeStoreBinding, calendars, TypeOK
<1>18. ASSUME NEW p \in Procs, VerifyCheck(p) PROVE TypeInv'
  <2>1. CASE Finish(p)
    BY <1>18, <2>1, FinishType DEF VerifyCheck, directory, calendars, TypeOK
  <2>2. CASE Goto(p, "card") /\ UNCHANGED memory
    <3>1. TypeOK'
      BY <1>18, <2>2 DEF VerifyCheck, Goto, Steps, directory, calendars, memory, TypeOK
    <3>2. LoadedInv'
      BY <1>18, <2>2 DEF VerifyCheck, Goto, memory, TypeOK, LoadedInv, Loaded
    <3>. QED BY <3>1, <3>2
  <2>. QED BY <1>18, <2>1, <2>2 DEF VerifyCheck
<1>19. ASSUME NEW p \in Procs, PrintCard(p) PROVE TypeInv'
  <2>1. rec[p].body \in Bodies
    BY <1>19 DEF PrintCard, LoadedInv, Loaded, Record
  <2>. QED BY <1>19, <2>1, FinishType DEF PrintCard, directory, calendars, TypeOK
<1>20. ASSUME NEW p \in Procs, Stop(p) PROVE TypeInv'
  BY <1>20, FinishType DEF Stop, directory, calendars, TypeOK
<1>21. ASSUME NEW p \in Procs, Tear(p) PROVE TypeInv'
  BY <1>21, FinishType DEF Tear, calendars, TypeOK
<1>22. ASSUME NEW c \in Calendars, NEW d \in Digests, CalendarCommit(c, d) PROVE TypeInv'
  BY <1>22 DEF CalendarCommit, directory, memory, TypeOK, LoadedInv, Loaded
<1>23. ASSUME EditArtifacts PROVE TypeInv'
  BY <1>23 DEF EditArtifacts, calendars, memory, TypeOK, LoadedInv, Loaded
<1>. QED
  BY <1>1, <1>2, <1>3, <1>4, <1>5, <1>6, <1>7, <1>8, <1>9, <1>10, <1>11, <1>12, <1>13,
     <1>14, <1>15, <1>16, <1>17, <1>18, <1>19, <1>20, <1>21, <1>22, <1>23
  DEF Next, Continue

(* Every variable has its type in every reachable state, for any number of *)
(* invocations of the commands, however they interleave or crash.          *)
THEOREM TypeCorrect == Spec => []TypeOK
<1>1. Spec => []TypeInv
  BY TypeInit, TypeStep, PTL DEF Spec
<1>2. TypeInv => TypeOK
  BY DEF TypeInv
<1>. QED BY <1>1, <1>2, PTL
-----------------------------------------------------------------------------
(* Proof files are honest: a Bitcoin attestation enters one only through   *)
(* UpgradeStore, from a calendar that has the digest in a block, and       *)
(* inBitcoin only grows.                                                   *)

LEMMA InBitcoinGrows ==
    ASSUME TypeInv, NEW c \in Calendars, NEW d \in Digests, CalendarCommit(c, d)
    PROVE  /\ \A x \in Calendars : inBitcoin[x] \subseteq inBitcoin'[x]
           /\ \A f : Honest(f) =>
                 (f \in Proof => \A x \in f.bitcoin : f.digest \in inBitcoin'[x])
BY DEF CalendarCommit, TypeInv, TypeOK, Honest, Proof

LEMMA PendingHonest ==
    ASSUME NEW a \in SUBSET Calendars, NEW d \in Digests
    PROVE  Pending(a, d).bitcoin = {}
BY DEF Pending

LEMMA UpgradedHonest ==
    ASSUME NEW f \in Proof, Honest(f), NEW done \in SUBSET Calendars, done \subseteq Ready(f)
    PROVE  \A c \in Upgraded(f, done).bitcoin : Upgraded(f, done).digest \in inBitcoin[c]
BY UpgradedType DEF Ready, Honest

LEMMA FinishHonest ==
    ASSUME TypeInv, HonestInv, NEW p \in Procs, Finish(p), UNCHANGED inBitcoin
    PROVE  \A q \in Procs : Honest(proof[q])'
BY Sentinels DEF TypeInv, TypeOK, HonestInv, Honest, Finish

LEMMA HonestStep == TypeInv /\ HonestInv /\ [Next]_vars => HonestInv'
<1> SUFFICES ASSUME TypeInv, HonestInv, [Next]_vars PROVE HonestInv'
  OBVIOUS
<1>1. CASE UNCHANGED <<ots, cidOts, proof, inBitcoin>>
  BY <1>1 DEF HonestInv, Honest
<1>2. ASSUME NEW p \in Procs, NEW b \in Bodies, Build(p, b) PROVE HonestInv'
  BY <1>1, <1>2 DEF Build, directory, calendars
<1>3. ASSUME NEW p \in Procs, NEW b \in Bodies, NEW c \in Cids \cup {None}, Notarize(p, b, c)
      PROVE HonestInv'
  BY <1>1, <1>3 DEF Notarize, directory, calendars
<1>4. ASSUME NEW p \in Procs, NEW c \in Cids \cup {None}, Anchor(p, c) PROVE HonestInv'
  BY <1>1, <1>4 DEF Anchor, directory, calendars
<1>5. ASSUME NEW p \in Procs, Sign(p) PROVE HonestInv'
  BY <1>1, <1>5 DEF Sign, directory, calendars
<1>6. ASSUME NEW p \in Procs, UpgradeRead(p) PROVE HonestInv'
  BY <1>6 DEF UpgradeRead, directory, calendars, HonestInv, Honest, TypeInv, TypeOK
<1>7. ASSUME NEW p \in Procs, VerifyLoad(p) PROVE HonestInv'
  BY <1>1, <1>7 DEF VerifyLoad, directory, calendars
<1>8. ASSUME NEW p \in Procs, WriteUnstamped(p) PROVE HonestInv'
  BY <1>1, <1>8 DEF WriteUnstamped, calendars, memory
<1>9. ASSUME NEW p \in Procs, SubmitDryRun(p) PROVE HonestInv'
  BY <1>1, <1>9 DEF SubmitDryRun, directory, calendars
<1>10. ASSUME NEW p \in Procs, NEW accepted \in SUBSET Calendars, SubmitOts(p, accepted)
       PROVE HonestInv'
  <2>1. rec[p].body \in Digests
    BY <1>10 DEF SubmitOts, TypeInv, LoadedInv, Loaded, Record, Digests
  <2>2. Pending(accepted, rec[p].body).bitcoin = {}
    BY <2>1, PendingHonest
  <2>. QED
    BY <1>10, <2>2 DEF SubmitOts, directory, HonestInv, Honest, TypeInv, TypeOK
<1>11. ASSUME NEW p \in Procs, WriteProof(p) PROVE HonestInv'
  BY <1>11 DEF WriteProof, calendars, memory, HonestInv, Honest
<1>12. ASSUME NEW p \in Procs, NEW accepted \in SUBSET Calendars, BindCid(p, accepted)
       PROVE HonestInv'
  <2>1. Bind(rec[p].body, arg[p]) \in Digests
    BY <1>12, BindType DEF BindCid, TypeInv, LoadedInv, Loaded, Record
  <2>2. Pending(accepted, Bind(rec[p].body, arg[p])).bitcoin = {}
    BY <2>1, PendingHonest
  <2>. QED BY <1>12, <2>2 DEF BindCid, HonestInv, Honest
<1>13. ASSUME NEW p \in Procs, BindFails(p) PROVE HonestInv'
  BY <1>1, <1>13 DEF BindFails, directory, calendars, memory
<1>14. ASSUME NEW p \in Procs, SaveManifest(p) PROVE HonestInv'
  BY <1>14, FinishHonest DEF SaveManifest, calendars, HonestInv, Honest
<1>15. ASSUME NEW p \in Procs, NEW done \in SUBSET Calendars, UpgradeStore(p, done)
       PROVE HonestInv'
  <2>1. proof[p] \in Proof /\ Honest(proof[p])
    BY <1>15 DEF UpgradeStore, TypeInv, LoadedInv, Loaded, HonestInv
  <2>2. Honest(ots)' /\ UNCHANGED <<cidOts, inBitcoin>>
    BY <1>15, <2>1, UpgradedHonest DEF UpgradeStore, calendars, Honest
  <2>3. CASE pc[p] = "upgrade"
    BY <1>15, <2>2, <2>3, FinishHonest DEF UpgradeStore, HonestInv, Honest
  <2>4. CASE pc[p] # "upgrade"
    BY <1>15, <2>2, <2>4 DEF UpgradeStore, memory, HonestInv, Honest
  <2>. QED BY <2>3, <2>4
<1>16. ASSUME NEW p \in Procs, UpgradeRereadBinding(p) PROVE HonestInv'
  BY <1>16 DEF UpgradeRereadBinding, directory, calendars, HonestInv, Honest, TypeInv, TypeOK
<1>17. ASSUME NEW p \in Procs, NEW done \in SUBSET Calendars, UpgradeStoreBinding(p, done)
       PROVE HonestInv'
  <2>1. proof[p] \in Proof /\ Honest(proof[p])
    BY <1>17 DEF UpgradeStoreBinding, TypeInv, LoadedInv, Loaded, HonestInv
  <2>2. Honest(cidOts)' /\ UNCHANGED <<ots, inBitcoin>>
    BY <1>17, <2>1, UpgradedHonest DEF UpgradeStoreBinding, calendars, Honest
  <2>. QED BY <1>17, <2>2, FinishHonest DEF UpgradeStoreBinding, HonestInv, Honest
<1>18. ASSUME NEW p \in Procs, VerifyCheck(p) PROVE HonestInv'
  <2>1. UNCHANGED <<ots, cidOts, inBitcoin>>
    BY <1>18 DEF VerifyCheck, directory, calendars
  <2>2. CASE Finish(p)
    BY <2>1, <2>2, FinishHonest DEF HonestInv, Honest
  <2>3. CASE UNCHANGED memory
    BY <1>1, <2>1, <2>3 DEF memory
  <2>. QED BY <1>18, <2>2, <2>3 DEF VerifyCheck
<1>19. ASSUME NEW p \in Procs, PrintCard(p) PROVE HonestInv'
  BY <1>19, FinishHonest DEF PrintCard, directory, calendars, HonestInv, Honest
<1>20. ASSUME NEW p \in Procs, Stop(p) PROVE HonestInv'
  BY <1>20, FinishHonest DEF Stop, directory, calendars, HonestInv, Honest
<1>21. ASSUME NEW p \in Procs, Tear(p) PROVE HonestInv'
  BY <1>21, FinishHonest, Sentinels DEF Tear, calendars, HonestInv, Honest
<1>22. ASSUME NEW c \in Calendars, NEW d \in Digests, CalendarCommit(c, d) PROVE HonestInv'
  BY <1>22, InBitcoinGrows DEF CalendarCommit, directory, memory, HonestInv, Honest
<1>23. ASSUME EditArtifacts PROVE HonestInv'
  BY <1>1, <1>23 DEF EditArtifacts, calendars, memory
<1>24. CASE UNCHANGED vars
  BY <1>1, <1>24 DEF vars, directory, calendars, memory
<1>. QED
  BY <1>2, <1>3, <1>4, <1>5, <1>6, <1>7, <1>8, <1>9, <1>10, <1>11, <1>12, <1>13, <1>14,
     <1>15, <1>16, <1>17, <1>18, <1>19, <1>20, <1>21, <1>22, <1>23, <1>24
  DEF Next, Continue
-----------------------------------------------------------------------------
(* Stamps stay with their body: a stamp is made from the copy in memory,   *)
(* which carries its body along to the disk.                               *)

LEMMA FinishStamps ==
    ASSUME TypeInv, StampInv, NEW p \in Procs, Finish(p)
    PROVE  \A q \in Procs : OwnStamps(rec[q])'
BY Sentinels DEF TypeInv, TypeOK, StampInv, OwnStamps, Finish

LEMMA StampStep == TypeInv /\ StampInv /\ [Next]_vars => StampInv'
<1> SUFFICES ASSUME TypeInv, StampInv, [Next]_vars PROVE StampInv'
  OBVIOUS
<1>1. CASE UNCHANGED <<manifest, rec>>
  BY <1>1 DEF StampInv, OwnStamps
<1>2. ASSUME NEW p \in Procs, NEW b \in Bodies, Build(p, b) PROVE StampInv'
  BY <1>2 DEF Build, Fresh, directory, StampInv, OwnStamps, TypeInv, TypeOK
<1>3. ASSUME NEW p \in Procs, NEW b \in Bodies, NEW c \in Cids \cup {None}, Notarize(p, b, c)
      PROVE StampInv'
  BY <1>3 DEF Notarize, Fresh, directory, StampInv, OwnStamps, TypeInv, TypeOK
<1>4. ASSUME NEW p \in Procs, NEW c \in Cids \cup {None}, Anchor(p, c) PROVE StampInv'
  BY <1>4 DEF Anchor, directory, StampInv, OwnStamps, TypeInv, TypeOK
<1>5. ASSUME NEW p \in Procs, Sign(p) PROVE StampInv'
  <2> DEFINE signed == [manifest EXCEPT !.identity = manifest.body]
  <2>1. OwnStamps(signed)
    BY <1>5 DEF Sign, StampInv, OwnStamps, Record
  <2>. QED
    BY <1>5, <2>1 DEF Sign, directory, StampInv, OwnStamps, TypeInv, TypeOK
<1>6. ASSUME NEW p \in Procs, UpgradeRead(p) PROVE StampInv'
  BY <1>1, <1>6 DEF UpgradeRead, directory
<1>7. ASSUME NEW p \in Procs, VerifyLoad(p) PROVE StampInv'
  BY <1>7 DEF VerifyLoad, directory, StampInv, OwnStamps, TypeInv, TypeOK
<1>8. ASSUME NEW p \in Procs, WriteUnstamped(p) PROVE StampInv'
  BY <1>8 DEF WriteUnstamped, memory, StampInv, OwnStamps
<1>9. ASSUME NEW p \in Procs, SubmitDryRun(p) PROVE StampInv'
  <2> DEFINE receipt == [backend |-> "other", hash |-> rec[p].body, binding |-> FALSE]
  <2>1. rec[p] \in Record /\ receipt \in AnchorRecord /\ arg[p] \in Cids \cup {None}
    BY <1>9 DEF SubmitDryRun, TypeInv, TypeOK, LoadedInv, Loaded, Record, AnchorRecord
  <2>2. OwnStamps(Stamped(p, receipt))
    BY <2>1, StampedType DEF StampInv, OwnStamps
  <2>. QED
    BY <1>9, <2>2 DEF SubmitDryRun, directory, StampInv, OwnStamps, TypeInv, TypeOK
<1>10. ASSUME NEW p \in Procs, NEW accepted \in SUBSET Calendars, SubmitOts(p, accepted)
       PROVE StampInv'
  <2> DEFINE receipt ==
        [backend |-> "opentimestamps", hash |-> rec[p].body, binding |-> FALSE]
  <2>1. rec[p] \in Record /\ receipt \in AnchorRecord /\ arg[p] \in Cids \cup {None}
    BY <1>10 DEF SubmitOts, TypeInv, TypeOK, LoadedInv, Loaded, Record, AnchorRecord
  <2>2. OwnStamps(Stamped(p, receipt))
    BY <2>1, StampedType DEF StampInv, OwnStamps
  <2>. QED
    BY <1>10, <2>2 DEF SubmitOts, directory, StampInv, OwnStamps, TypeInv, TypeOK
<1>11. ASSUME NEW p \in Procs, WriteProof(p) PROVE StampInv'
  BY <1>1, <1>11 DEF WriteProof, memory
<1>12. ASSUME NEW p \in Procs, NEW accepted \in SUBSET Calendars, BindCid(p, accepted)
       PROVE StampInv'
  <2> DEFINE bound == [rec[p] EXCEPT !.anchor.binding = TRUE]
  <2>1. OwnStamps(bound)
    BY <1>12, Sentinels, BindRecord
    DEF BindCid, TypeInv, LoadedInv, Loaded, StampInv, OwnStamps
  <2>2. rec' = [rec EXCEPT ![p] = bound] /\ UNCHANGED manifest
    BY <1>12 DEF BindCid
  <2>. QED BY <2>1, <2>2 DEF StampInv, OwnStamps, TypeInv, TypeOK
<1>13. ASSUME NEW p \in Procs, BindFails(p) PROVE StampInv'
  BY <1>1, <1>13 DEF BindFails, directory, memory
<1>14. ASSUME NEW p \in Procs, SaveManifest(p) PROVE StampInv'
  BY <1>14, FinishStamps DEF SaveManifest, StampInv, OwnStamps
<1>15. ASSUME NEW p \in Procs, NEW done \in SUBSET Calendars, UpgradeStore(p, done)
       PROVE StampInv'
  <2>1. CASE pc[p] = "upgrade"
    BY <1>15, <2>1, FinishStamps DEF UpgradeStore, StampInv, OwnStamps
  <2>2. CASE pc[p] # "upgrade"
    BY <1>1, <1>15, <2>2 DEF UpgradeStore, memory
  <2>. QED BY <2>1, <2>2
<1>16. ASSUME NEW p \in Procs, UpgradeRereadBinding(p) PROVE StampInv'
  BY <1>1, <1>16 DEF UpgradeRereadBinding, directory
<1>17. ASSUME NEW p \in Procs, NEW done \in SUBSET Calendars, UpgradeStoreBinding(p, done)
       PROVE StampInv'
  BY <1>17, FinishStamps DEF UpgradeStoreBinding, StampInv, OwnStamps
<1>18. ASSUME NEW p \in Procs, VerifyCheck(p) PROVE StampInv'
  <2>1. CASE Finish(p)
    BY <1>18, <2>1, FinishStamps DEF VerifyCheck, directory, StampInv, OwnStamps
  <2>2. CASE UNCHANGED memory
    BY <1>1, <1>18, <2>2 DEF VerifyCheck, directory, memory
  <2>. QED BY <1>18, <2>1, <2>2 DEF VerifyCheck
<1>19. ASSUME NEW p \in Procs, PrintCard(p) PROVE StampInv'
  BY <1>19, FinishStamps DEF PrintCard, directory, StampInv, OwnStamps
<1>20. ASSUME NEW p \in Procs, Stop(p) PROVE StampInv'
  BY <1>20, FinishStamps DEF Stop, directory, StampInv, OwnStamps
<1>21. ASSUME NEW p \in Procs, Tear(p) PROVE StampInv'
  BY <1>21, FinishStamps, Sentinels DEF Tear, StampInv, OwnStamps
<1>22. ASSUME NEW c \in Calendars, NEW d \in Digests, CalendarCommit(c, d) PROVE StampInv'
  BY <1>1, <1>22 DEF CalendarCommit, directory, memory
<1>23. ASSUME EditArtifacts PROVE StampInv'
  BY <1>1, <1>23 DEF EditArtifacts, memory
<1>24. CASE UNCHANGED vars
  BY <1>1, <1>24 DEF vars, directory, memory
<1>. QED
  BY <1>2, <1>3, <1>4, <1>5, <1>6, <1>7, <1>8, <1>9, <1>10, <1>11, <1>12, <1>13, <1>14,
     <1>15, <1>16, <1>17, <1>18, <1>19, <1>20, <1>21, <1>22, <1>23, <1>24
  DEF Next, Continue
-----------------------------------------------------------------------------
(* A record in memory or on disk that claims an OpenTimestamps anchor was  *)
(* accepted by a calendar: `held` only grows, and SubmitOts stamps the     *)
(* record in the step in which a calendar accepts its hash.                *)

LEMMA HeldGrows ==
    ASSUME TypeInv, NEW a \in SUBSET Calendars, NEW d \in Digests, Accept(a, d)
    PROVE  /\ \A x : Submitted(x) => Submitted(x)'
           /\ a # {} => Submitted(d)'
BY AcceptType DEF TypeInv, TypeOK, Submitted

LEMMA FinishBacked ==
    ASSUME TypeInv, BackedInv, NEW p \in Procs, Finish(p), UNCHANGED held
    PROVE  \A q \in Procs : Backed(rec[q])'
BY Sentinels DEF TypeInv, TypeOK, BackedInv, Backed, Timestamped, Submitted, Finish

LEMMA BackedStep == TypeInv /\ BackedInv /\ [Next]_vars => BackedInv'
<1> SUFFICES ASSUME TypeInv, BackedInv, [Next]_vars PROVE BackedInv'
  OBVIOUS
<1> USE DEF Backed, Timestamped
<1>1. CASE UNCHANGED <<manifest, rec, held>>
  BY <1>1 DEF BackedInv, Submitted
<1>2. ASSUME NEW p \in Procs, NEW b \in Bodies, Build(p, b) PROVE BackedInv'
  BY <1>2 DEF Build, Fresh, directory, calendars, BackedInv, Submitted, TypeInv, TypeOK
<1>3. ASSUME NEW p \in Procs, NEW b \in Bodies, NEW c \in Cids \cup {None}, Notarize(p, b, c)
      PROVE BackedInv'
  BY <1>3 DEF Notarize, Fresh, directory, calendars, BackedInv, Submitted, TypeInv, TypeOK
<1>4. ASSUME NEW p \in Procs, NEW c \in Cids \cup {None}, Anchor(p, c) PROVE BackedInv'
  BY <1>4 DEF Anchor, directory, calendars, BackedInv, Submitted, TypeInv, TypeOK
<1>5. ASSUME NEW p \in Procs, Sign(p) PROVE BackedInv'
  <2> DEFINE signed == [manifest EXCEPT !.identity = manifest.body]
  <2>1. Backed(signed)
    BY <1>5 DEF Sign, BackedInv, Record
  <2>. QED
    BY <1>5, <2>1 DEF Sign, directory, calendars, BackedInv, Submitted, TypeInv, TypeOK
<1>6. ASSUME NEW p \in Procs, UpgradeRead(p) PROVE BackedInv'
  BY <1>1, <1>6 DEF UpgradeRead, directory, calendars
<1>7. ASSUME NEW p \in Procs, VerifyLoad(p) PROVE BackedInv'
  BY <1>7 DEF VerifyLoad, directory, calendars, BackedInv, Submitted, TypeInv, TypeOK
<1>8. ASSUME NEW p \in Procs, WriteUnstamped(p) PROVE BackedInv'
  BY <1>8 DEF WriteUnstamped, calendars, memory, BackedInv, Submitted
<1>9. ASSUME NEW p \in Procs, SubmitDryRun(p) PROVE BackedInv'
  <2> DEFINE receipt == [backend |-> "other", hash |-> rec[p].body, binding |-> FALSE]
  <2>1. rec[p] \in Record /\ receipt \in AnchorRecord /\ arg[p] \in Cids \cup {None}
    BY <1>9 DEF SubmitDryRun, TypeInv, TypeOK, LoadedInv, Loaded, Record, AnchorRecord
  <2>2. Stamped(p, receipt).anchor.backend = "other"
    BY <2>1, StampedType
  <2>. QED
    BY <1>9, <2>2
    DEF SubmitDryRun, directory, calendars, BackedInv, Submitted, TypeInv, TypeOK
<1>10. ASSUME NEW p \in Procs, NEW accepted \in SUBSET Calendars, SubmitOts(p, accepted)
       PROVE BackedInv'
  <2> DEFINE receipt ==
        [backend |-> "opentimestamps", hash |-> rec[p].body, binding |-> FALSE]
  <2>1. rec[p] \in Record /\ receipt \in AnchorRecord /\ arg[p] \in Cids \cup {None}
    BY <1>10 DEF SubmitOts, TypeInv, TypeOK, LoadedInv, Loaded, Record, AnchorRecord
  <2>2. Stamped(p, receipt).body = rec[p].body /\ rec[p].body \in Digests
    BY <2>1, StampedType DEF Record, Digests
  <2>3. /\ \E c \in Calendars : rec[p].body \in held'[c]
        /\ \A x : Submitted(x) => Submitted(x)'
    BY <1>10, <2>2, HeldGrows DEF SubmitOts, Submitted
  <2>. QED
    BY <1>10, <2>2, <2>3 DEF SubmitOts, directory, BackedInv, TypeInv, TypeOK, Submitted
<1>11. ASSUME NEW p \in Procs, WriteProof(p) PROVE BackedInv'
  BY <1>1, <1>11 DEF WriteProof, memory, calendars
<1>12. ASSUME NEW p \in Procs, NEW accepted \in SUBSET Calendars, BindCid(p, accepted)
       PROVE BackedInv'
  <2> DEFINE bound == [rec[p] EXCEPT !.anchor.binding = TRUE]
  <2>1. rec[p] \in Record /\ rec[p].anchor \in AnchorRecord /\ arg[p] \in Cids
    BY <1>12 DEF BindCid, TypeInv, LoadedInv, Loaded
  <2>2. Bind(rec[p].body, arg[p]) \in Digests
    BY <2>1, BindType DEF Record
  <2>3. \A x : Submitted(x) => Submitted(x)'
    BY <1>12, <2>2, HeldGrows DEF BindCid, Submitted
  <2>4. Backed(bound)
    BY <2>1, Sentinels, BindRecord DEF BackedInv
  <2>5. rec' = [rec EXCEPT ![p] = bound] /\ UNCHANGED manifest
    BY <1>12 DEF BindCid
  <2>. QED BY <2>3, <2>4, <2>5 DEF BackedInv, TypeInv, TypeOK, Submitted
<1>13. ASSUME NEW p \in Procs, BindFails(p) PROVE BackedInv'
  BY <1>1, <1>13 DEF BindFails, directory, memory, calendars
<1>14. ASSUME NEW p \in Procs, SaveManifest(p) PROVE BackedInv'
  BY <1>14, FinishBacked DEF SaveManifest, calendars, BackedInv, Submitted
<1>15. ASSUME NEW p \in Procs, NEW done \in SUBSET Calendars, UpgradeStore(p, done)
       PROVE BackedInv'
  <2>1. CASE pc[p] = "upgrade"
    BY <1>15, <2>1, FinishBacked DEF UpgradeStore, calendars, BackedInv, Submitted
  <2>2. CASE pc[p] # "upgrade"
    BY <1>1, <1>15, <2>2 DEF UpgradeStore, memory, calendars
  <2>. QED BY <2>1, <2>2
<1>16. ASSUME NEW p \in Procs, UpgradeRereadBinding(p) PROVE BackedInv'
  BY <1>1, <1>16 DEF UpgradeRereadBinding, directory, calendars
<1>17. ASSUME NEW p \in Procs, NEW done \in SUBSET Calendars, UpgradeStoreBinding(p, done)
       PROVE BackedInv'
  BY <1>17, FinishBacked DEF UpgradeStoreBinding, calendars, BackedInv, Submitted
<1>18. ASSUME NEW p \in Procs, VerifyCheck(p) PROVE BackedInv'
  <2>1. CASE Finish(p)
    BY <1>18, <2>1, FinishBacked DEF VerifyCheck, directory, calendars, BackedInv, Submitted
  <2>2. CASE UNCHANGED memory
    BY <1>1, <1>18, <2>2 DEF VerifyCheck, directory, memory, calendars
  <2>. QED BY <1>18, <2>1, <2>2 DEF VerifyCheck
<1>19. ASSUME NEW p \in Procs, PrintCard(p) PROVE BackedInv'
  BY <1>19, FinishBacked DEF PrintCard, directory, calendars, BackedInv, Submitted
<1>20. ASSUME NEW p \in Procs, Stop(p) PROVE BackedInv'
  BY <1>20, FinishBacked DEF Stop, directory, calendars, BackedInv, Submitted
<1>21. ASSUME NEW p \in Procs, Tear(p) PROVE BackedInv'
  BY <1>21, FinishBacked, Sentinels DEF Tear, calendars, BackedInv, Submitted
<1>22. ASSUME NEW c \in Calendars, NEW d \in Digests, CalendarCommit(c, d) PROVE BackedInv'
  BY <1>1, <1>22 DEF CalendarCommit, directory, memory
<1>23. ASSUME EditArtifacts PROVE BackedInv'
  BY <1>1, <1>23 DEF EditArtifacts, memory, calendars
<1>24. CASE UNCHANGED vars
  BY <1>1, <1>24 DEF vars, directory, memory, calendars
<1>. QED
  BY <1>2, <1>3, <1>4, <1>5, <1>6, <1>7, <1>8, <1>9, <1>10, <1>11, <1>12, <1>13, <1>14,
     <1>15, <1>16, <1>17, <1>18, <1>19, <1>20, <1>21, <1>22, <1>23, <1>24
  DEF Next, Continue
-----------------------------------------------------------------------------
(* The proof files a record names are there: no step removes a file, and a *)
(* record leaves the step "proof" only by writing its proof.               *)

LEMMA FinishDisk ==
    ASSUME TypeInv, DiskInv, NEW p \in Procs, Finish(p),
           ots # NoFile => ots' # NoFile, cidOts # NoFile => cidOts' # NoFile
    PROVE  \A q \in Procs : (pc[q] # "proof" => OnDisk(rec[q]))'
BY Sentinels DEF TypeInv, TypeOK, DiskInv, OnDisk, Timestamped, Finish, Goto

LEMMA DiskStep == TypeInv /\ DiskInv /\ [Next]_vars => DiskInv'
<1> SUFFICES ASSUME TypeInv, DiskInv, [Next]_vars PROVE DiskInv'
  OBVIOUS
<1> USE DEF OnDisk, Timestamped
<1>1. CASE UNCHANGED <<manifest, ots, cidOts, pc, rec>>
  BY <1>1 DEF DiskInv
<1>2. ASSUME NEW p \in Procs, NEW b \in Bodies, Build(p, b) PROVE DiskInv'
  BY <1>2 DEF Build, Goto, Fresh, directory, DiskInv, TypeInv, TypeOK
<1>3. ASSUME NEW p \in Procs, NEW b \in Bodies, NEW c \in Cids \cup {None}, Notarize(p, b, c)
      PROVE DiskInv'
  BY <1>3 DEF Notarize, Goto, Fresh, directory, DiskInv, TypeInv, TypeOK
<1>4. ASSUME NEW p \in Procs, NEW c \in Cids \cup {None}, Anchor(p, c) PROVE DiskInv'
  BY <1>4 DEF Anchor, Goto, directory, DiskInv, TypeInv, TypeOK
<1>5. ASSUME NEW p \in Procs, Sign(p) PROVE DiskInv'
  <2> DEFINE signed == [manifest EXCEPT !.identity = manifest.body]
  <2>1. OnDisk(signed)
    BY <1>5 DEF Sign, DiskInv, Record
  <2>. QED
    BY <1>5, <2>1 DEF Sign, Goto, directory, DiskInv, TypeInv, TypeOK
<1>6. ASSUME NEW p \in Procs, UpgradeRead(p) PROVE DiskInv'
  BY <1>6 DEF UpgradeRead, CanStart, Goto, directory, DiskInv, TypeInv, TypeOK
<1>7. ASSUME NEW p \in Procs, VerifyLoad(p) PROVE DiskInv'
  BY <1>7 DEF VerifyLoad, Goto, directory, DiskInv, TypeInv, TypeOK
<1>8. ASSUME NEW p \in Procs, WriteUnstamped(p) PROVE DiskInv'
  BY <1>8 DEF WriteUnstamped, Goto, memory, DiskInv, TypeInv, TypeOK
<1>9. ASSUME NEW p \in Procs, SubmitDryRun(p) PROVE DiskInv'
  <2> DEFINE receipt == [backend |-> "other", hash |-> rec[p].body, binding |-> FALSE]
  <2>1. rec[p] \in Record /\ receipt \in AnchorRecord /\ arg[p] \in Cids \cup {None}
    BY <1>9 DEF SubmitDryRun, TypeInv, TypeOK, LoadedInv, Loaded, Record, AnchorRecord
  <2>2. Stamped(p, receipt).anchor.backend = "other"
    BY <2>1, StampedType
  <2>. QED
    BY <1>9, <2>2 DEF SubmitDryRun, Goto, directory, DiskInv, TypeInv, TypeOK
<1>10. ASSUME NEW p \in Procs, NEW accepted \in SUBSET Calendars, SubmitOts(p, accepted)
       PROVE DiskInv'
  BY <1>10 DEF SubmitOts, Goto, directory, DiskInv, TypeInv, TypeOK
<1>11. ASSUME NEW p \in Procs, WriteProof(p) PROVE DiskInv'
  <2>1. /\ ots' # NoFile /\ UNCHANGED <<manifest, cidOts, rec>>
        /\ ~rec[p].anchor.binding
    BY <1>11, Sentinels DEF WriteProof, memory, TypeInv, LoadedInv, Loaded
  <2>2. \A q \in Procs \ {p} : pc'[q] = pc[q]
    BY <1>11 DEF WriteProof, Goto, TypeInv, TypeOK
  <2>. QED BY <2>1, <2>2 DEF DiskInv
<1>12. ASSUME NEW p \in Procs, NEW accepted \in SUBSET Calendars, BindCid(p, accepted)
       PROVE DiskInv'
  <2> DEFINE bound == [rec[p] EXCEPT !.anchor.binding = TRUE]
  <2>1. rec[p] \in Record /\ rec[p].anchor \in AnchorRecord /\ arg[p] \in Cids
    BY <1>12 DEF BindCid, TypeInv, LoadedInv, Loaded
  <2>2. Bind(rec[p].body, arg[p]) \in Digests
    BY <2>1, BindType DEF Record
  <2>3. cidOts' # NoFile /\ UNCHANGED <<manifest, ots>>
    BY <1>12, <2>2, PendingType, Sentinels DEF BindCid
  <2>4. bound.anchor.backend = "opentimestamps" => ots # NoFile
    BY <1>12, <2>1, Sentinels, BindRecord DEF BindCid, DiskInv
  <2>5. rec' = [rec EXCEPT ![p] = bound] /\ pc' = [pc EXCEPT ![p] = "save"]
    BY <1>12 DEF BindCid, Goto
  <2>. QED BY <2>3, <2>4, <2>5 DEF DiskInv, TypeInv, TypeOK
<1>13. ASSUME NEW p \in Procs, BindFails(p) PROVE DiskInv'
  BY <1>13 DEF BindFails, Goto, directory, memory, DiskInv, TypeInv, TypeOK
<1>14. ASSUME NEW p \in Procs, SaveManifest(p) PROVE DiskInv'
  BY <1>14, FinishDisk DEF SaveManifest, DiskInv
<1>15. ASSUME NEW p \in Procs, NEW done \in SUBSET Calendars, UpgradeStore(p, done)
       PROVE DiskInv'
  <2>1. ots' # NoFile /\ UNCHANGED <<manifest, cidOts>>
    <3>1. proof[p] \in Proof
      BY <1>15 DEF UpgradeStore, TypeInv, LoadedInv, Loaded
    <3>2. Upgraded(proof[p], done) \in Proof
      BY <3>1, UpgradedType
    <3>. QED BY <1>15, <3>2, Sentinels DEF UpgradeStore
  <2>2. CASE pc[p] = "upgrade"
    BY <1>15, <2>1, <2>2, FinishDisk DEF UpgradeStore, DiskInv
  <2>3. CASE pc[p] # "upgrade"
    BY <1>15, <2>1, <2>3 DEF UpgradeStore, Goto, memory, DiskInv, TypeInv, TypeOK
  <2>. QED BY <2>2, <2>3
<1>16. ASSUME NEW p \in Procs, UpgradeRereadBinding(p) PROVE DiskInv'
  BY <1>16 DEF UpgradeRereadBinding, Goto, directory, DiskInv, TypeInv, TypeOK
<1>17. ASSUME NEW p \in Procs, NEW done \in SUBSET Calendars, UpgradeStoreBinding(p, done)
       PROVE DiskInv'
  <2>1. cidOts' # NoFile /\ UNCHANGED <<manifest, ots>>
    <3>1. proof[p] \in Proof
      BY <1>17 DEF UpgradeStoreBinding, TypeInv, LoadedInv, Loaded
    <3>2. Upgraded(proof[p], done) \in Proof
      BY <3>1, UpgradedType
    <3>. QED BY <1>17, <3>2, Sentinels DEF UpgradeStoreBinding
  <2>. QED BY <1>17, <2>1, FinishDisk DEF UpgradeStoreBinding, DiskInv
<1>18. ASSUME NEW p \in Procs, VerifyCheck(p) PROVE DiskInv'
  <2>1. CASE Finish(p)
    BY <1>18, <2>1, FinishDisk DEF VerifyCheck, directory, DiskInv
  <2>2. CASE Goto(p, "card") /\ UNCHANGED memory
    BY <1>18, <2>2 DEF VerifyCheck, Goto, directory, memory, DiskInv, TypeInv, TypeOK
  <2>. QED BY <1>18, <2>1, <2>2 DEF VerifyCheck
<1>19. ASSUME NEW p \in Procs, PrintCard(p) PROVE DiskInv'
  BY <1>19, FinishDisk DEF PrintCard, directory, DiskInv
<1>20. ASSUME NEW p \in Procs, Stop(p) PROVE DiskInv'
  BY <1>20, FinishDisk DEF Stop, directory, DiskInv
<1>21. ASSUME NEW p \in Procs, Tear(p) PROVE DiskInv'
  BY <1>21, FinishDisk, Sentinels DEF Tear, DiskInv
<1>22. ASSUME NEW c \in Calendars, NEW d \in Digests, CalendarCommit(c, d) PROVE DiskInv'
  BY <1>1, <1>22 DEF CalendarCommit, directory, memory
<1>23. ASSUME EditArtifacts PROVE DiskInv'
  BY <1>1, <1>23 DEF EditArtifacts, memory
<1>24. CASE UNCHANGED vars
  BY <1>1, <1>24 DEF vars, directory, memory
<1>. QED
  BY <1>2, <1>3, <1>4, <1>5, <1>6, <1>7, <1>8, <1>9, <1>10, <1>11, <1>12, <1>13, <1>14,
     <1>15, <1>16, <1>17, <1>18, <1>19, <1>20, <1>21, <1>22, <1>23, <1>24
  DEF Next, Continue
-----------------------------------------------------------------------------
(* The inductive invariant, and what it implies. *)

(* IInv holds in every reachable state: the strengthening from which every *)
(* safety property below is read off (anchor_run, write_proof, _cmd_anchor *)
(* and _cmd_upgrade, over files and memory).                               *)
THEOREM Inductive == Spec => []IInv
<1>1. Init => IInv
  <2> SUFFICES ASSUME Init PROVE IInv
    OBVIOUS
  <2>1. TypeInv
    BY TypeInit
  <2>2. HonestInv
    BY Sentinels DEF Init, HonestInv, Honest
  <2>3. \A b \in Bodies : OwnStamps(Fresh(b)) /\ Backed(Fresh(b)) /\ OnDisk(Fresh(b))
    BY DEF OwnStamps, Backed, OnDisk, Timestamped, Fresh
  <2>4. OwnStamps(NoFile) /\ Backed(NoFile) /\ OnDisk(NoFile)
    BY Sentinels DEF OwnStamps, Backed, OnDisk
  <2>5. OwnStamps(None) /\ Backed(None) /\ OnDisk(None)
    BY Sentinels DEF OwnStamps, Backed, OnDisk
  <2>6. manifest = NoFile \/ \E b \in Bodies : manifest = Fresh(b)
    BY DEF Init
  <2>7. \A p \in Procs : rec[p] = None
    BY DEF Init
  <2>8. StampInv
    BY <2>3, <2>4, <2>5, <2>6, <2>7 DEF StampInv
  <2>9. BackedInv
    BY <2>3, <2>4, <2>5, <2>6, <2>7 DEF BackedInv
  <2>10. DiskInv
    BY <2>3, <2>4, <2>5, <2>6, <2>7 DEF DiskInv
  <2>. QED BY <2>1, <2>2, <2>8, <2>9, <2>10 DEF IInv, TypeInv
<1>2. IInv /\ [Next]_vars => IInv'
  BY TypeStep, HonestStep, StampStep, BackedStep, DiskStep DEF IInv, TypeInv
<1>. QED BY <1>1, <1>2, PTL DEF Spec

LEMMA HonestHeight ==
    ASSUME NEW f, Honest(f), BitcoinHeight(f)
    PROVE  InBitcoin(f.digest)
BY DEF Honest, BitcoinHeight, Proof, InBitcoin

LEMMA L0FromHonest == IInv => L0Sound
<1> SUFFICES ASSUME IInv, manifest \in Record, EarnsL0(manifest) PROVE InBitcoin(manifest.body)
  BY DEF L0Sound
<1>1. ots.digest = manifest.body /\ BitcoinHeight(ots)
  BY DEF EarnsL0, AnchorOK, Timestamped, Commits
<1>. QED BY <1>1, HonestHeight DEF IInv, HonestInv

(* A directory that earns L0 has its own content hash in Bitcoin, however  *)
(* many unlocked commands interleave, fail or tear a file (evaluate_ladder *)
(* over verify_anchor): the digest a proof commits to, never its place on  *)
(* disk, is what ties it to the manifest.                                  *)
THEOREM L0Correct == Spec => []L0Sound
BY Inductive, L0FromHonest, PTL

(* A receipt or signature on disk is for the body on disk (anchor_run and  *)
(* sign_record stamp the copy they write back).                            *)
THEOREM StampsCorrect == Spec => []StampsMatchBody
<1>1. IInv => StampsMatchBody
  BY DEF IInv, StampInv, OwnStamps, StampsMatchBody
<1>. QED BY <1>1, Inductive, PTL

(* An OpenTimestamps anchor on disk was accepted by some calendar          *)
(* (stamp_digest raises when every calendar refuses).                      *)
THEOREM SubmittedCorrect == Spec => []AnchorSubmitted
<1>1. IInv => AnchorSubmitted
  BY DEF IInv, BackedInv, Backed, AnchorSubmitted
<1>. QED BY <1>1, Inductive, PTL

(* No crash leaves a record whose proof files are not there: write_proof   *)
(* and write_cid_binding_proof run before the last write_manifest.         *)
THEOREM ProofOrderCorrect == Spec => []ProofBeforeRecord
<1>1. IInv => ProofBeforeRecord
  BY DEF IInv, DiskInv, OnDisk, ProofBeforeRecord
<1>. QED BY <1>1, Inductive, PTL
-----------------------------------------------------------------------------
(* The directory implements TimeClaim.  A step that leaves every stage     *)
(* alone shows or withdraws the claim; only an acceptance and a commit     *)
(* change a stage, and they touch no file but manifest.cid.ots.            *)

ClaimAttested == Claim # None => Claim \in Bodies /\ Stage[Claim] = "attested"

LEMMA ClaimSound == IInv => ClaimAttested
<1> SUFFICES ASSUME IInv PROVE ClaimAttested
  OBVIOUS
<1>1. CASE manifest \in Record /\ EarnsL0(manifest)
  <2>1. manifest.body \in Bodies /\ InBitcoin(manifest.body)
    BY <1>1, L0FromHonest DEF L0Sound, Record
  <2>. QED BY <1>1, <2>1 DEF Claim, Stage, ClaimAttested
<1>2. CASE ~(manifest \in Record /\ EarnsL0(manifest))
  BY <1>2 DEF Claim, ClaimAttested
<1>. QED BY <1>1, <1>2

LEMMA SameStage == IInv' /\ UNCHANGED Stage => Promise!Next
<1> SUFFICES ASSUME IInv', UNCHANGED Stage PROVE Promise!Next
  OBVIOUS
<1>1. ClaimAttested'
  BY ClaimSound, PTL
<1>2. CASE Claim' = None
  BY <1>2 DEF Promise!Next, Promise!Withdraw
<1>3. CASE Claim' # None
  <2>1. Claim' \in Bodies /\ Stage[Claim'] = "attested"
    BY <1>1, <1>3 DEF ClaimAttested
  <2>2. Promise!Show(Claim')
    BY <2>1 DEF Promise!Show
  <2>. QED BY <2>1, <2>2 DEF Promise!Next
<1>. QED BY <1>2, <1>3

LEMMA SameCalendars == UNCHANGED calendars => UNCHANGED Stage
BY DEF calendars, Stage, InBitcoin, Submitted

LEMMA SameDirectory == UNCHANGED directory => UNCHANGED Claim
BY DEF directory, Claim, EarnsL0, TamperEvident, Timestamped, AnchorOK, BindingOK,
       Commits, BitcoinHeight

LEMMA AcceptStage ==
    ASSUME TypeInv, UNCHANGED <<directory, inBitcoin>>, NEW b \in Bodies,
           NEW a \in SUBSET Calendars, Accept(a, b), a # {}
    PROVE  [Promise!Next]_Promise!vars
<1>1. UNCHANGED Claim
  BY SameDirectory
<1>2. (\A x \in Bodies : InBitcoin(x)' = InBitcoin(x)) /\ Submitted(b)'
  BY HeldGrows DEF Digests, InBitcoin, Submitted
<1>3. \A x \in Bodies \ {b} : Submitted(x)' = Submitted(x)
  BY DEF Accept, TypeInv, TypeOK, Submitted
<1>4. CASE Stage[b] = "new"
  <2>1. Stage' = [Stage EXCEPT ![b] = "submitted"]
    BY <1>2, <1>3, <1>4 DEF Stage
  <2>. QED BY <1>1, <1>4, <2>1 DEF Promise!Next, Promise!Submit
<1>5. CASE Stage[b] # "new"
  <2>1. UNCHANGED Stage
    BY <1>2, <1>3, <1>5 DEF Stage
  <2>. QED BY <1>1, <2>1 DEF Promise!vars
<1>. QED BY <1>4, <1>5

LEMMA CommitStage ==
    ASSUME TypeInv, NEW c \in Calendars, NEW d \in Digests, CalendarCommit(c, d)
    PROVE  [Promise!Next]_Promise!vars
<1>1. UNCHANGED Claim
  BY SameDirectory DEF CalendarCommit
<1>2. \A x \in Bodies : Submitted(x)' = Submitted(x)
  BY DEF CalendarCommit, Submitted
<1>3. \A x \in Bodies \ {d} : InBitcoin(x)' = InBitcoin(x)
  BY DEF CalendarCommit, TypeInv, TypeOK, InBitcoin
<1>4. Submitted(d) /\ InBitcoin(d)'
  BY DEF CalendarCommit, TypeInv, TypeOK, Submitted, InBitcoin
<1>5. CASE d \in Bodies /\ ~InBitcoin(d)
  <2>1. Stage' = [Stage EXCEPT ![d] = "attested"] /\ Stage[d] = "submitted"
    BY <1>2, <1>3, <1>4, <1>5 DEF Stage
  <2>. QED BY <1>1, <1>5, <2>1 DEF Promise!Next, Promise!Attest
<1>6. CASE d \notin Bodies \/ InBitcoin(d)
  <2>1. UNCHANGED Stage
    BY <1>2, <1>3, <1>4, <1>6 DEF Stage
  <2>. QED BY <1>1, <2>1 DEF Promise!vars
<1>. QED BY <1>5, <1>6

LEMMA BindStage ==
    ASSUME TypeInv, NEW p \in Procs, NEW accepted \in SUBSET Calendars, BindCid(p, accepted)
    PROVE  UNCHANGED Stage
<1>1. rec[p].body \in Bodies /\ arg[p] \in Cids
  BY DEF BindCid, TypeInv, LoadedInv, Loaded, Record
<1>2. \A x \in Bodies : Submitted(x)' = Submitted(x)
  BY <1>1, Sentinels DEF BindCid, Accept, TypeInv, TypeOK, Submitted
<1>3. \A x \in Bodies : InBitcoin(x)' = InBitcoin(x)
  BY DEF BindCid, InBitcoin
<1>. QED BY <1>2, <1>3 DEF Stage

LEMMA PromiseStep == IInv /\ IInv' /\ [Next]_vars => [Promise!Next]_Promise!vars
<1> SUFFICES ASSUME IInv, IInv', [Next]_vars PROVE [Promise!Next]_Promise!vars
  OBVIOUS
<1> USE DEF IInv, TypeInv
<1>1. CASE UNCHANGED calendars
  BY <1>1, SameCalendars, SameStage
<1>2. ASSUME NEW p \in Procs, NEW accepted \in SUBSET Calendars, SubmitOts(p, accepted)
      PROVE [Promise!Next]_Promise!vars
  <2>1. rec[p].body \in Bodies
    BY <1>2 DEF SubmitOts, LoadedInv, Loaded, Record
  <2>. QED BY <1>2, <2>1, AcceptStage DEF SubmitOts
<1>3. ASSUME NEW p \in Procs, NEW accepted \in SUBSET Calendars, BindCid(p, accepted)
      PROVE [Promise!Next]_Promise!vars
  BY <1>3, BindStage, SameStage
<1>4. ASSUME NEW c \in Calendars, NEW d \in Digests, CalendarCommit(c, d)
      PROVE [Promise!Next]_Promise!vars
  BY <1>4, CommitStage
<1>5. ASSUME NEW p \in Procs,
             \/ \E b \in Bodies : Build(p, b)
             \/ \E b \in Bodies, c \in Cids \cup {None} : Notarize(p, b, c)
             \/ \E c \in Cids \cup {None} : Anchor(p, c)
             \/ Sign(p) \/ UpgradeRead(p) \/ VerifyLoad(p)
      PROVE UNCHANGED calendars
  BY <1>5 DEF Build, Notarize, Anchor, Sign, UpgradeRead, VerifyLoad
<1>6. ASSUME NEW p \in Procs,
             \/ WriteUnstamped(p) \/ SubmitDryRun(p) \/ WriteProof(p)
             \/ BindFails(p) \/ SaveManifest(p) \/ UpgradeRereadBinding(p)
             \/ \E done \in SUBSET Calendars :
                   UpgradeStore(p, done) \/ UpgradeStoreBinding(p, done)
             \/ VerifyCheck(p) \/ PrintCard(p) \/ Stop(p) \/ Tear(p)
      PROVE UNCHANGED calendars
  BY <1>6 DEF WriteUnstamped, SubmitDryRun, WriteProof, BindFails, SaveManifest,
     UpgradeRereadBinding, UpgradeStore, UpgradeStoreBinding, VerifyCheck, PrintCard,
     Stop, Tear
<1>7. ASSUME EditArtifacts PROVE UNCHANGED calendars
  BY <1>7 DEF EditArtifacts
<1>8. ASSUME UNCHANGED vars PROVE UNCHANGED calendars
  BY <1>8 DEF vars
<1>. QED
  BY <1>1, <1>2, <1>3, <1>4, <1>5, <1>6, <1>7, <1>8 DEF Next, Continue

(* RunRecord implements TimeClaim: content hashes only move from new to    *)
(* submitted to attested, and the directory shows L0 for attested ones     *)
(* only, whatever the interleaving of anchor, upgrade and verify.          *)
THEOREM Implements == Spec => KeepsPromise
<1>1. Init => Promise!Init
  BY Sentinels
  DEF Init, Promise!Init, Stage, Claim, InBitcoin, Submitted, EarnsL0, Timestamped, Fresh
<1>2. Spec => [][Promise!Next]_Promise!vars
  BY Inductive, PromiseStep, PTL DEF Spec
<1>. QED BY <1>1, <1>2, PTL DEF KeepsPromise, Promise!Spec, Spec
-----------------------------------------------------------------------------
(* One command at a time: between the two reads of manifest.ots nothing    *)
(* moves but the calendars and the artifact files.                         *)

AloneStart == Exclusive /\ TypeInv /\ HonestInv /\ AloneInv

LEMMA StartsAlone ==
    ASSUME AloneStart, NEW p \in Procs, CanStart(p), NEW step, step # "card", Goto(p, step),
           UNCHANGED <<calendars, printed>>
    PROVE  AloneInv'
BY DEF AloneStart, TypeInv, TypeOK, AloneInv, CanStart, Goto, calendars, CardSound, InBitcoin

LEMMA MovesAlone ==
    ASSUME AloneStart, NEW p \in Procs, pc[p] # "idle", NEW step, step # "card", Goto(p, step),
           UNCHANGED <<inBitcoin, printed>>
    PROVE  AloneInv'
BY DEF AloneStart, TypeInv, TypeOK, AloneInv, Goto, CardSound, InBitcoin

LEMMA EndsAlone ==
    ASSUME AloneStart, NEW p \in Procs, pc[p] # "idle", Finish(p),
           UNCHANGED inBitcoin, CardSound'
    PROVE  AloneInv'
BY DEF AloneStart, TypeInv, TypeOK, AloneInv, Finish, Goto

LEMMA AloneStep == AloneStart /\ [Next]_vars => AloneInv'
<1> SUFFICES ASSUME AloneStart, [Next]_vars PROVE AloneInv'
  OBVIOUS
<1>1. ASSUME UNCHANGED <<inBitcoin, printed>> PROVE CardSound'
  BY <1>1 DEF AloneStart, AloneInv, CardSound, InBitcoin
<1>2. ASSUME NEW p \in Procs,
             \/ \E b \in Bodies : Build(p, b)
             \/ \E b \in Bodies, c \in Cids \cup {None} : Notarize(p, b, c)
             \/ \E c \in Cids \cup {None} : Anchor(p, c)
             \/ Sign(p) \/ UpgradeRead(p) \/ VerifyLoad(p)
      PROVE AloneInv'
  BY <1>2, StartsAlone DEF Build, Notarize, Anchor, Sign, UpgradeRead, VerifyLoad
<1>3. ASSUME NEW p \in Procs,
             \/ WriteUnstamped(p) \/ SubmitDryRun(p) \/ WriteProof(p) \/ BindFails(p)
             \/ \E accepted \in SUBSET Calendars : SubmitOts(p, accepted) \/ BindCid(p, accepted)
             \/ UpgradeRereadBinding(p)
      PROVE AloneInv'
  BY <1>3, MovesAlone DEF WriteUnstamped, SubmitDryRun, WriteProof, BindFails, SubmitOts,
     BindCid, UpgradeRereadBinding, calendars
<1>4. ASSUME NEW p \in Procs,
             SaveManifest(p) \/ Stop(p) \/ Tear(p)
             \/ \E done \in SUBSET Calendars : UpgradeStoreBinding(p, done)
      PROVE AloneInv'
  BY <1>1, <1>4, EndsAlone DEF SaveManifest, Stop, Tear, UpgradeStoreBinding, calendars
<1>5. ASSUME NEW p \in Procs, NEW done \in SUBSET Calendars, UpgradeStore(p, done)
      PROVE AloneInv'
  <2>1. CASE pc[p] = "upgrade"
    BY <1>1, <1>5, <2>1, EndsAlone DEF UpgradeStore, calendars
  <2>2. CASE pc[p] # "upgrade"
    BY <1>5, <2>2, MovesAlone DEF UpgradeStore, calendars
  <2>. QED BY <2>1, <2>2
<1>6. ASSUME NEW p \in Procs, VerifyCheck(p) PROVE AloneInv'
  <2>1. CASE Finish(p)
    BY <1>1, <1>6, <2>1, EndsAlone DEF VerifyCheck, calendars
  <2>2. CASE Timestamped(rec[p]) /\ AnchorOK(rec[p]) /\ Goto(p, "card") /\ UNCHANGED memory
    <3>1. Commits(ots, rec[p].body)
      BY <2>2 DEF Timestamped, AnchorOK
    <3>2. \A q \in Procs : pc'[q] = "card" => q = p
      BY <1>6, <2>2 DEF VerifyCheck, Goto, AloneStart, AloneInv, TypeInv, TypeOK
    <3>3. \A q, r \in Procs : pc'[q] # "idle" /\ pc'[r] # "idle" => q = r
      BY <1>6, <2>2 DEF VerifyCheck, Goto, AloneStart, AloneInv, TypeInv, TypeOK
    <3>. QED
      BY <1>1, <1>6, <2>2, <3>1, <3>2, <3>3
      DEF VerifyCheck, memory, directory, calendars, AloneInv, Commits
  <2>. QED BY <1>6, <2>1, <2>2 DEF VerifyCheck
<1>7. ASSUME NEW p \in Procs, PrintCard(p) PROVE AloneInv'
  <2>1. BitcoinHeight(ots) => InBitcoin(rec[p].body)
    BY <1>7, HonestHeight DEF PrintCard, AloneStart, AloneInv, Commits, HonestInv
  <2>2. CardSound'
    BY <1>7, <2>1 DEF PrintCard, calendars, AloneStart, AloneInv, CardSound, InBitcoin
  <2>. QED BY <1>7, <2>2, EndsAlone DEF PrintCard, calendars
<1>8. ASSUME NEW c \in Calendars, NEW d \in Digests, CalendarCommit(c, d) PROVE AloneInv'
  <2>1. CardSound'
    BY <1>8, InBitcoinGrows
    DEF CalendarCommit, AloneStart, AloneInv, CardSound, InBitcoin
  <2>. QED
    BY <1>8, <2>1 DEF CalendarCommit, directory, memory, AloneStart, AloneInv, Commits
<1>9. ASSUME EditArtifacts PROVE AloneInv'
  BY <1>1, <1>9 DEF EditArtifacts, calendars, memory, AloneStart, AloneInv, Commits
<1>10. CASE UNCHANGED vars
  BY <1>1, <1>10 DEF vars, directory, calendars, memory, AloneStart, AloneInv, Commits
<1>. QED
  BY <1>2, <1>3, <1>4, <1>5, <1>6, <1>7, <1>8, <1>9, <1>10 DEF Next, Continue

(* When the operator runs one command at a time, every L0 that `verify`    *)
(* ever printed is for a content hash in Bitcoin.  With two at a time this *)
(* is false: the second read of manifest.ots in _existed_by_status may     *)
(* find another proof than the one verify_anchor compared.                 *)
THEOREM CardCorrect == Exclusive => (Spec => []CardSound)
<1> SUFFICES ASSUME Exclusive PROVE Spec => []CardSound
  OBVIOUS
<1>1. Init => AloneInv
  BY DEF Init, AloneInv, CardSound
<1>2. AloneInv /\ IInv /\ [Next]_vars => AloneInv'
  BY AloneStep DEF AloneStart, IInv, TypeInv
<1>3. AloneInv => CardSound
  BY DEF AloneInv
<1>. QED BY <1>1, <1>2, <1>3, Inductive, PTL DEF Spec
-----------------------------------------------------------------------------
(* One command at a time, for the commands that write: what a command      *)
(* holds is what it loaded and what it has since added to it, and what it  *)
(* read is still what the file it will overwrite holds.                    *)

\* What StampingOnlyAdds asks of a record and its successor.
Adds(old, new) ==
    /\ new.body = old.body
    /\ old.cid # None => new.cid # None
    /\ old.anchor # None => new.anchor # None
    /\ old.identity # None => new.identity = old.identity

\* From submit_digest to the last write: record, proof and argument agree.
Anchored(p) ==
    /\ rec[p].anchor =
         [backend |-> "opentimestamps", hash |-> rec[p].body, binding |-> FALSE]
    /\ proof[p].digest = rec[p].body
    /\ proof[p].pending # {}
    /\ arg[p] # None => rec[p].cid = arg[p]

\* What AnchorVerifies asks of the record that is about to be saved.
Verifies(r) ==
    AnchorOK(r) \/ (r.cid # None /\ ~r.anchor.binding /\ cidOts # NoFile)

Sole(p) ==
    /\ pc[p] \in {"idle", "publish", "submit"} => proof[p] = None
    /\ pc[p] \in {"upgrade", "upgrade both"} => proof[p] = ots
    /\ pc[p] = "publish" => rec[p] = Fresh(rec[p].body)
    /\ pc[p] = "submit" => rec[p] = manifest
    /\ pc[p] \in {"proof", "bind"} =>
          Anchored(p) /\ manifest \in Record /\ Adds(manifest, rec[p])
    /\ pc[p] = "bind" => ots = proof[p]
    /\ pc[p] = "save" => \/ rec[p] = Fresh(rec[p].body)
                         \/ manifest \in Record /\ Adds(manifest, rec[p])
    /\ pc[p] = "save" /\ proof[p] \in Proof => Verifies(rec[p])

SoleInv == \A p \in Procs : Sole(p)

SoleStart == AloneStart /\ StampInv /\ SoleInv

LEMMA AddsAnchor ==
    ASSUME NEW p \in Procs, NEW receipt \in AnchorRecord, rec[p] \in Record,
           arg[p] \in Cids \cup {None}
    PROVE  /\ Adds(rec[p], Stamped(p, receipt))
           /\ arg[p] # None => Stamped(p, receipt).cid = arg[p]
BY Sentinels DEF Adds, Stamped, Record

LEMMA AddsBinding ==
    ASSUME NEW m \in Record, NEW r \in Record, r.anchor \in AnchorRecord, Adds(m, r)
    PROVE  Adds(m, [r EXCEPT !.anchor.binding = TRUE])
<1> DEFINE bound == [r EXCEPT !.anchor.binding = TRUE]
<1>1. /\ bound.body = r.body /\ bound.identity = r.identity
      /\ bound.anchor \in AnchorRecord
  BY BindRecord
<1>2. bound.cid = r.cid
  BY DEF Record
<1>3. bound.anchor # None
  BY <1>1, Sentinels
<1> HIDE DEF bound
<1>4. Adds(m, bound)
  BY <1>1, <1>2, <1>3 DEF Adds
<1>. QED BY <1>4 DEF bound

\* The other commands are idle, and an idle command holds no proof.
LEMMA OthersRest ==
    ASSUME SoleStart, NEW p \in Procs, pc[p] # "idle" \/ CanStart(p),
           \A q \in Procs \ {p} : pc'[q] = pc[q] /\ proof'[q] = proof[q]
    PROVE  \A q \in Procs \ {p} : Sole(q)'
<1>1. \A q \in Procs \ {p} : pc[q] = "idle"
  BY DEF SoleStart, AloneStart, AloneInv, CanStart
<1>2. \A q \in Procs \ {p} : proof[q] = None
  BY <1>1 DEF SoleStart, SoleInv, Sole
<1>. QED BY <1>1, <1>2 DEF Sole

LEMMA EndsSole ==
    ASSUME SoleStart, NEW p \in Procs, pc[p] # "idle", Finish(p)
    PROVE  SoleInv'
<1>1. pc'[p] = "idle" /\ proof'[p] = None
  BY DEF Finish, Goto, SoleStart, AloneStart, TypeInv, TypeOK
<1>2. \A q \in Procs \ {p} : pc'[q] = pc[q] /\ proof'[q] = proof[q]
  BY DEF Finish, Goto, SoleStart, AloneStart, TypeInv, TypeOK
<1>3. Sole(p)'
  BY <1>1 DEF Sole
<1>. QED BY <1>2, <1>3, OthersRest DEF SoleInv

LEMMA SoleStep == SoleStart /\ [Next]_vars => SoleInv'
<1> SUFFICES ASSUME SoleStart, [Next]_vars PROVE SoleInv'
  OBVIOUS
<1> USE DEF SoleStart, AloneStart, TypeInv
<1>1. ASSUME NEW p \in Procs, NEW step, Goto(p, step)
      PROVE  pc'[p] = step /\ \A q \in Procs \ {p} : pc'[q] = pc[q]
  BY <1>1 DEF Goto, TypeOK
<1>2. ASSUME NEW p \in Procs, \E b \in Bodies : Build(p, b) PROVE SoleInv'
  <2>1. PICK b \in Bodies : Build(p, b)
    BY <1>2
  <2>2. pc'[p] = "save" /\ rec'[p] = Fresh(b) /\ proof'[p] = None
    BY <2>1, <1>1 DEF Build, CanStart, SoleInv, Sole, TypeOK
  <2>3. Sole(p)'
    BY <2>2, Sentinels DEF Sole, Fresh
  <2>. QED BY <2>1, <2>3, <1>1, OthersRest DEF Build, SoleInv
<1>3. ASSUME NEW p \in Procs, \E b \in Bodies, c \in Cids \cup {None} : Notarize(p, b, c)
      PROVE SoleInv'
  <2>1. PICK b \in Bodies, c \in Cids \cup {None} : Notarize(p, b, c)
    BY <1>3
  <2>2. pc'[p] = "publish" /\ rec'[p] = Fresh(b) /\ proof'[p] = None
    BY <2>1, <1>1 DEF Notarize, CanStart, SoleInv, Sole, TypeOK
  <2>3. Sole(p)'
    BY <2>2 DEF Sole, Fresh
  <2>. QED BY <2>1, <2>3, <1>1, OthersRest DEF Notarize, SoleInv
<1>4. ASSUME NEW p \in Procs, \E c \in Cids \cup {None} : Anchor(p, c) PROVE SoleInv'
  <2>1. PICK c \in Cids \cup {None} : Anchor(p, c)
    BY <1>4
  <2>2. pc'[p] = "submit" /\ rec'[p] = manifest' /\ proof'[p] = None
    BY <2>1, <1>1 DEF Anchor, directory, CanStart, SoleInv, Sole, TypeOK
  <2>3. Sole(p)'
    BY <2>2 DEF Sole
  <2>. QED BY <2>1, <2>3, <1>1, OthersRest DEF Anchor, SoleInv
<1>5. ASSUME NEW p \in Procs, Sign(p) PROVE SoleInv'
  <2> DEFINE signed == [manifest EXCEPT !.identity = manifest.body]
  <2>1. manifest \in Record /\ manifest' = manifest
    BY <1>5 DEF Sign, directory
  <2>2. pc'[p] = "save" /\ rec'[p] = signed /\ proof'[p] = None
    BY <1>5, <1>1 DEF Sign, CanStart, SoleInv, Sole, TypeOK
  <2>3. manifest.identity # None => manifest.identity = manifest.body
    BY <2>1 DEF StampInv, OwnStamps
  <2>4. Adds(manifest, signed)
    BY <2>1, <2>3 DEF Adds, Record
  <2>5. Sole(p)'
    BY <2>1, <2>2, <2>4, Sentinels DEF Sole, Adds
  <2>. QED BY <1>5, <2>5, <1>1, OthersRest DEF Sign, SoleInv
<1>6. ASSUME NEW p \in Procs, UpgradeRead(p) PROVE SoleInv'
  <2>1. pc'[p] \in {"upgrade", "upgrade both"} /\ proof'[p] = ots'
    BY <1>6, <1>1 DEF UpgradeRead, directory, TypeOK
  <2>2. Sole(p)'
    BY <2>1 DEF Sole
  <2>3. \A q \in Procs \ {p} : proof'[q] = proof[q]
    BY <1>6 DEF UpgradeRead, TypeOK
  <2>4. \A q \in Procs \ {p} : pc'[q] = pc[q]
    BY <1>6 DEF UpgradeRead, Goto, TypeOK
  <2>. QED BY <1>6, <2>2, <2>3, <2>4, OthersRest DEF UpgradeRead, SoleInv
<1>7. ASSUME NEW p \in Procs, VerifyLoad(p) PROVE SoleInv'
  <2>1. pc'[p] = "verify"
    BY <1>7, <1>1 DEF VerifyLoad
  <2>2. Sole(p)'
    BY <2>1 DEF Sole
  <2>. QED BY <1>7, <2>2, <1>1, OthersRest DEF VerifyLoad, SoleInv
<1>8. ASSUME NEW p \in Procs, WriteUnstamped(p) PROVE SoleInv'
  <2>1. pc'[p] = "submit" /\ rec'[p] = manifest' /\ proof'[p] = None
    BY <1>8, <1>1 DEF WriteUnstamped, memory, SoleInv, Sole
  <2>2. Sole(p)'
    BY <2>1 DEF Sole
  <2>. QED BY <1>8, <2>2, <1>1, OthersRest DEF WriteUnstamped, memory, SoleInv
<1>9. ASSUME NEW p \in Procs, SubmitDryRun(p) PROVE SoleInv'
  <2> DEFINE receipt == [backend |-> "other", hash |-> rec[p].body, binding |-> FALSE]
  <2>1. rec[p] \in Record /\ receipt \in AnchorRecord /\ arg[p] \in Cids \cup {None}
    BY <1>9 DEF SubmitDryRun, TypeOK, LoadedInv, Loaded, Record, AnchorRecord
  <2>2. rec[p] = manifest /\ manifest' = manifest /\ proof'[p] = None
    BY <1>9 DEF SubmitDryRun, directory, SoleInv, Sole
  <2>3. pc'[p] = "save" /\ rec'[p] = Stamped(p, receipt)
    BY <1>9, <1>1 DEF SubmitDryRun, TypeOK
  <2>4. Adds(rec[p], Stamped(p, receipt))
    BY <2>1, AddsAnchor
  <2>5. manifest' \in Record /\ Adds(manifest', rec'[p])
    BY <2>1, <2>2, <2>3, <2>4
  <2>6. Sole(p)'
    BY <2>2, <2>3, <2>5, Sentinels DEF Sole, Adds
  <2>. QED BY <1>9, <2>6, <1>1, OthersRest DEF SubmitDryRun, SoleInv
<1>10. ASSUME NEW p \in Procs, NEW accepted \in SUBSET Calendars, SubmitOts(p, accepted)
       PROVE SoleInv'
  <2> DEFINE receipt ==
        [backend |-> "opentimestamps", hash |-> rec[p].body, binding |-> FALSE]
  <2>1. rec[p] \in Record /\ receipt \in AnchorRecord /\ arg[p] \in Cids \cup {None}
    BY <1>10 DEF SubmitOts, TypeOK, LoadedInv, Loaded, Record, AnchorRecord
  <2>2. rec[p] = manifest /\ manifest' = manifest
    BY <1>10 DEF SubmitOts, directory, SoleInv, Sole
  <2>3. pc'[p] = "proof" /\ rec'[p] = Stamped(p, receipt) /\ arg'[p] = arg[p]
    BY <1>10, <1>1 DEF SubmitOts, TypeOK
  <2>4. proof'[p] = Pending(accepted, rec[p].body) /\ accepted # {}
    BY <1>10 DEF SubmitOts, TypeOK
  <2>5. /\ Stamped(p, receipt).body = rec[p].body
        /\ Stamped(p, receipt).anchor = receipt
    BY <2>1, StampedType
  <2>6. /\ Adds(rec[p], Stamped(p, receipt))
        /\ arg[p] # None => Stamped(p, receipt).cid = arg[p]
    BY <2>1, AddsAnchor
  <2>7. Anchored(p)'
    <3>1. /\ rec'[p].body = rec[p].body /\ rec'[p].anchor = receipt
          /\ arg'[p] # None => rec'[p].cid = arg'[p]
      BY <2>3, <2>5, <2>6
    <3>2. proof'[p].digest = rec[p].body /\ proof'[p].pending # {}
      BY <2>4 DEF Pending
    <3>. QED BY <3>1, <3>2 DEF Anchored
  <2>8. manifest' \in Record /\ Adds(manifest', rec'[p])
    BY <2>1, <2>2, <2>3, <2>6
  <2>9. Sole(p)'
    BY <2>3, <2>7, <2>8 DEF Sole, Adds
  <2>10. \A q \in Procs \ {p} : proof'[q] = proof[q]
    BY <1>10 DEF SubmitOts, TypeOK
  <2>. QED BY <1>10, <2>9, <2>10, <1>1, OthersRest DEF SubmitOts, SoleInv
<1>11. ASSUME NEW p \in Procs, WriteProof(p) PROVE SoleInv'
  <2>1. /\ Anchored(p) /\ manifest \in Record /\ Adds(manifest, rec[p])
        /\ rec[p] \in Record /\ proof[p] \in Proof
    BY <1>11 DEF WriteProof, SoleInv, Sole, LoadedInv, Loaded
  <2>2. /\ ots' = proof[p] /\ manifest' = manifest /\ cidOts' = cidOts
        /\ rec' = rec /\ proof' = proof /\ arg' = arg
    BY <1>11 DEF WriteProof, memory
  <2>3. pc'[p] = IF arg[p] # None THEN "bind" ELSE "save"
    BY <1>11, <1>1 DEF WriteProof
  <2>4. Commits(ots', rec[p].body)
    BY <2>1, <2>2 DEF Anchored, Commits
  <2>5. Verifies(rec[p])'
    BY <2>1, <2>2, <2>4
    DEF Verifies, AnchorOK, BindingOK, Timestamped, Anchored, Commits
  <2>6. Anchored(p)' /\ manifest' \in Record /\ Adds(manifest', rec'[p])
    BY <2>1, <2>2 DEF Anchored
  <2>7. Sole(p)'
    BY <2>2, <2>3, <2>5, <2>6 DEF Sole
  <2>. QED BY <1>11, <2>2, <2>7, <1>1, OthersRest DEF WriteProof, SoleInv
<1>12. ASSUME NEW p \in Procs, NEW accepted \in SUBSET Calendars, BindCid(p, accepted)
       PROVE SoleInv'
  <2> DEFINE bound == [rec[p] EXCEPT !.anchor.binding = TRUE]
  <2>1. /\ Anchored(p) /\ manifest \in Record /\ Adds(manifest, rec[p])
        /\ rec[p] \in Record /\ rec[p].anchor \in AnchorRecord
        /\ proof[p] \in Proof /\ arg[p] \in Cids /\ ots = proof[p]
    BY <1>12 DEF BindCid, SoleInv, Sole, LoadedInv, Loaded
  <2>2. /\ ots' = ots /\ manifest' = manifest /\ proof' = proof
        /\ cidOts' = Pending(accepted, Bind(rec[p].body, arg[p])) /\ accepted # {}
    BY <1>12 DEF BindCid
  <2>3. pc'[p] = "save" /\ rec'[p] = bound
    BY <1>12, <1>1 DEF BindCid, TypeOK
  <2>4. /\ bound \in Record /\ bound.body = rec[p].body /\ bound.cid = arg[p]
        /\ bound.anchor.hash = bound.body
    <3>1. /\ bound \in Record /\ bound.body = rec[p].body
          /\ bound.anchor.hash = rec[p].anchor.hash
      BY <2>1, BindRecord
    <3>2. bound.cid = rec[p].cid
      BY <2>1 DEF Record
    <3>. QED BY <3>1, <3>2, <2>1, Sentinels DEF Anchored
  <2>5. Commits(ots', bound.body)
    BY <2>1, <2>2, <2>4 DEF Anchored, Commits
  <2>6. Bind(rec[p].body, arg[p]) \in Digests
    BY <2>1, BindType DEF Record
  <2>7. Commits(cidOts', Bind(bound.body, bound.cid)) /\ cidOts' # NoFile
    BY <2>2, <2>4, <2>6, PendingType, Sentinels DEF Commits, Pending
  <2>8. Adds(manifest', rec'[p])
    BY <2>1, <2>2, <2>3, AddsBinding
  <2> HIDE DEF bound
  <2>9. Verifies(rec[p])'
    BY <2>3, <2>4, <2>5, <2>7 DEF Verifies, AnchorOK, BindingOK, Timestamped, Commits
  <2>10. Sole(p)'
    BY <2>1, <2>2, <2>3, <2>8, <2>9 DEF Sole
  <2>. QED BY <1>12, <2>2, <2>10, <1>1, OthersRest DEF BindCid, SoleInv
<1>13. ASSUME NEW p \in Procs, BindFails(p) PROVE SoleInv'
  <2>1. /\ Anchored(p) /\ manifest \in Record /\ Adds(manifest, rec[p])
        /\ rec[p] \in Record /\ proof[p] \in Proof /\ ots = proof[p]
    BY <1>13 DEF BindFails, SoleInv, Sole, LoadedInv, Loaded
  <2>2. /\ ots' = ots /\ manifest' = manifest /\ cidOts' = cidOts
        /\ rec' = rec /\ proof' = proof
    BY <1>13 DEF BindFails, directory, memory
  <2>3. pc'[p] = "save"
    BY <1>13, <1>1 DEF BindFails
  <2>4. Verifies(rec[p])
    BY <2>1 DEF Verifies, AnchorOK, BindingOK, Timestamped, Anchored, Commits
  <2>5. Verifies(rec[p])'
    BY <2>2, <2>4 DEF Verifies, AnchorOK, BindingOK, Timestamped, Commits
  <2>6. Sole(p)'
    BY <2>1, <2>2, <2>3, <2>5 DEF Sole
  <2>. QED BY <1>13, <2>2, <2>6, <1>1, OthersRest DEF BindFails, SoleInv
<1>14. ASSUME NEW p \in Procs, NEW done \in SUBSET Calendars, UpgradeStore(p, done)
       PROVE SoleInv'
  <2>1. CASE pc[p] = "upgrade"
    BY <1>14, <2>1, EndsSole DEF UpgradeStore
  <2>2. CASE pc[p] # "upgrade"
    <3>1. pc'[p] = "reread"
      BY <1>14, <2>2, <1>1 DEF UpgradeStore
    <3>2. Sole(p)'
      BY <3>1 DEF Sole
    <3>. QED BY <1>14, <2>2, <3>2, <1>1, OthersRest DEF UpgradeStore, memory, SoleInv
  <2>. QED BY <2>1, <2>2
<1>15. ASSUME NEW p \in Procs, UpgradeRereadBinding(p) PROVE SoleInv'
  <2>1. pc'[p] = "upgrade binding"
    BY <1>15, <1>1 DEF UpgradeRereadBinding
  <2>2. Sole(p)'
    BY <2>1 DEF Sole
  <2>3. \A q \in Procs \ {p} : proof'[q] = proof[q]
    BY <1>15 DEF UpgradeRereadBinding, TypeOK
  <2>4. \A q \in Procs \ {p} : pc'[q] = pc[q]
    BY <1>15 DEF UpgradeRereadBinding, Goto, TypeOK
  <2>. QED BY <1>15, <2>2, <2>3, <2>4, OthersRest DEF UpgradeRereadBinding, SoleInv
<1>16. ASSUME NEW p \in Procs, VerifyCheck(p) PROVE SoleInv'
  <2>1. CASE Finish(p)
    BY <1>16, <2>1, EndsSole DEF VerifyCheck
  <2>2. CASE Goto(p, "card") /\ UNCHANGED memory
    <3>1. pc'[p] = "card"
      BY <2>2, <1>1
    <3>2. Sole(p)'
      BY <3>1 DEF Sole
    <3>. QED BY <1>16, <2>2, <3>2, <1>1, OthersRest DEF VerifyCheck, memory, SoleInv
  <2>. QED BY <1>16, <2>1, <2>2 DEF VerifyCheck
<1>17. ASSUME NEW p \in Procs,
              SaveManifest(p) \/ PrintCard(p) \/ Stop(p) \/ Tear(p)
              \/ \E done \in SUBSET Calendars : UpgradeStoreBinding(p, done)
       PROVE SoleInv'
  BY <1>17, EndsSole DEF SaveManifest, PrintCard, Stop, Tear, UpgradeStoreBinding
<1>18. CASE UNCHANGED <<manifest, ots, cidOts, pc, memory>>
  <2>1. ASSUME NEW p \in Procs PROVE Sole(p)'
    BY <1>18 DEF memory, SoleInv, Sole, Anchored, Verifies, AnchorOK, BindingOK, Timestamped,
       Commits
  <2>. QED BY <2>1 DEF SoleInv
<1>19. ASSUME \/ \E c \in Calendars, d \in Digests : CalendarCommit(c, d)
              \/ EditArtifacts
              \/ UNCHANGED vars
       PROVE UNCHANGED <<manifest, ots, cidOts, pc, memory>>
  BY <1>19 DEF CalendarCommit, EditArtifacts, vars, directory, memory
<1>. QED
  BY <1>2, <1>3, <1>4, <1>5, <1>6, <1>7, <1>8, <1>9, <1>10, <1>11, <1>12, <1>13, <1>14,
     <1>15, <1>16, <1>17, <1>18, <1>19
  DEF Next, Continue

\* With Exclusive, both invariants hold in every reachable state.
LEMMA SoleInductive == Exclusive => (Spec => [](TypeInv /\ AloneInv /\ SoleInv))
<1> SUFFICES ASSUME Exclusive PROVE Spec => [](TypeInv /\ AloneInv /\ SoleInv)
  OBVIOUS
<1>1. Init => AloneInv
  BY DEF Init, AloneInv, CardSound
<1>2. Init => SoleInv
  BY Sentinels DEF Init, SoleInv, Sole
<1>3. AloneInv /\ SoleInv /\ IInv /\ [Next]_vars => AloneInv' /\ SoleInv'
  BY AloneStep, SoleStep DEF SoleStart, AloneStart, IInv, TypeInv
<1>4. IInv => TypeInv
  BY DEF IInv, TypeInv
<1>. QED BY <1>1, <1>2, <1>3, <1>4, Inductive, PTL DEF Spec

\* The steps that write manifest.json, and those that write manifest.ots.
LEMMA ManifestWrites ==
    ASSUME [Next]_vars, manifest' # manifest
    PROVE  \/ \E p \in Procs : WriteUnstamped(p) \/ SaveManifest(p)
           \/ manifest' = Torn
<1>1. ASSUME NEW p \in Procs,
             \/ \E b \in Bodies : Build(p, b)
             \/ \E b \in Bodies, c \in Cids \cup {None} : Notarize(p, b, c)
             \/ \E c \in Cids \cup {None} : Anchor(p, c)
             \/ Sign(p) \/ UpgradeRead(p) \/ VerifyLoad(p)
      PROVE FALSE
  BY <1>1 DEF Build, Notarize, Anchor, Sign, UpgradeRead, VerifyLoad, directory
<1>2. ASSUME NEW p \in Procs,
             \/ SubmitDryRun(p) \/ WriteProof(p) \/ BindFails(p) \/ UpgradeRereadBinding(p)
             \/ \E a \in SUBSET Calendars :
                   \/ SubmitOts(p, a) \/ BindCid(p, a)
                   \/ UpgradeStore(p, a) \/ UpgradeStoreBinding(p, a)
             \/ VerifyCheck(p) \/ PrintCard(p) \/ Stop(p)
      PROVE FALSE
  BY <1>2 DEF SubmitDryRun, WriteProof, BindFails, UpgradeRereadBinding, SubmitOts, BindCid,
     UpgradeStore, UpgradeStoreBinding, VerifyCheck, PrintCard, Stop, directory
<1>3. ASSUME \/ \E c \in Calendars, d \in Digests : CalendarCommit(c, d)
             \/ EditArtifacts
             \/ UNCHANGED vars
      PROVE FALSE
  BY <1>3 DEF CalendarCommit, EditArtifacts, vars, directory
<1>4. ASSUME NEW p \in Procs, Tear(p) PROVE manifest' = Torn
  BY <1>4 DEF Tear
<1>. QED BY <1>1, <1>2, <1>3, <1>4 DEF Next, Continue

LEMMA ProofWrites ==
    ASSUME [Next]_vars, ots' # ots
    PROVE  \E p \in Procs :
              \/ WriteProof(p) \/ Tear(p)
              \/ \E done \in SUBSET Calendars : UpgradeStore(p, done)
<1>1. ASSUME NEW p \in Procs,
             \/ \E b \in Bodies : Build(p, b)
             \/ \E b \in Bodies, c \in Cids \cup {None} : Notarize(p, b, c)
             \/ \E c \in Cids \cup {None} : Anchor(p, c)
             \/ Sign(p) \/ UpgradeRead(p) \/ VerifyLoad(p)
      PROVE FALSE
  BY <1>1 DEF Build, Notarize, Anchor, Sign, UpgradeRead, VerifyLoad, directory
<1>2. ASSUME NEW p \in Procs,
             \/ WriteUnstamped(p) \/ SubmitDryRun(p) \/ BindFails(p) \/ SaveManifest(p)
             \/ UpgradeRereadBinding(p)
             \/ \E a \in SUBSET Calendars :
                   SubmitOts(p, a) \/ BindCid(p, a) \/ UpgradeStoreBinding(p, a)
             \/ VerifyCheck(p) \/ PrintCard(p) \/ Stop(p)
      PROVE FALSE
  BY <1>2 DEF WriteUnstamped, SubmitDryRun, BindFails, SaveManifest, UpgradeRereadBinding,
     SubmitOts, BindCid, UpgradeStoreBinding, VerifyCheck, PrintCard, Stop, directory
<1>3. ASSUME \/ \E c \in Calendars, d \in Digests : CalendarCommit(c, d)
             \/ EditArtifacts
             \/ UNCHANGED vars
      PROVE FALSE
  BY <1>3 DEF CalendarCommit, EditArtifacts, vars, directory
<1>. QED BY <1>1, <1>2, <1>3 DEF Next, Continue

(* One command at a time, `upgrade` gives no Bitcoin attestation up: what  *)
(* it writes back is the proof that is still on disk, with more heights.   *)
(* Two at a time this is false (the later writer wins), so the theorem     *)
(* needs to know that nothing was written since UpgradeRead (_cmd_upgrade).*)
THEOREM AttestationsStay == Exclusive => (Spec => AttestationKept)
<1> SUFFICES ASSUME Exclusive PROVE Spec => AttestationKept
  OBVIOUS
<1> DEFINE Kept ==
      BitcoinHeight(ots) =>
          \/ BitcoinHeight(ots') /\ ots'.digest = ots.digest
          \/ \E p \in Procs : WriteProof(p) \/ Tear(p)
<1>1. ASSUME TypeInv, SoleInv, [Next]_vars PROVE Kept
  <2>1. CASE ots' = ots
    BY <2>1
  <2>2. ASSUME NEW p \in Procs, NEW done \in SUBSET Calendars, UpgradeStore(p, done)
        PROVE Kept
    <3>1. proof[p] = ots /\ proof[p] \in Proof /\ ots' = Upgraded(proof[p], done)
      BY <1>1, <2>2 DEF UpgradeStore, SoleInv, Sole, TypeInv, LoadedInv, Loaded
    <3>2. ots' \in Proof /\ ots'.digest = ots.digest /\ ots'.bitcoin = ots.bitcoin \cup done
      BY <3>1, UpgradedType
    <3>. QED BY <3>2 DEF BitcoinHeight
  <2>. QED BY <1>1, <2>1, <2>2, ProofWrites
<1>2. TypeInv /\ AloneInv /\ SoleInv /\ [Next]_vars => [Kept]_vars
  BY <1>1
<1>3. Spec => [][Kept]_vars
  BY <1>2, SoleInductive, PTL DEF Spec
<1>. QED BY <1>3 DEF AttestationKept

(* One command at a time, stamping only adds to manifest.json: `anchor`    *)
(* and `sign` write back what is on disk with one more stamp, a build is   *)
(* the only way to lose one (anchor_run, sign_record, write_manifest).     *)
THEOREM StampsStay == Exclusive => (Spec => StampingOnlyAdds)
<1> SUFFICES ASSUME Exclusive PROVE Spec => StampingOnlyAdds
  OBVIOUS
<1> DEFINE OnlyAdds ==
      {manifest, manifest'} \subseteq Record =>
          \/ manifest' = Fresh(manifest'.body)
          \/ /\ manifest'.body = manifest.body
             /\ manifest.cid # None => manifest'.cid # None
             /\ manifest.anchor # None => manifest'.anchor # None
             /\ manifest.identity # None => manifest'.identity = manifest.identity
<1>1. ASSUME SoleInv, [Next]_vars PROVE OnlyAdds
  <2>1. CASE manifest' = manifest
    BY <2>1
  <2>2. ASSUME NEW p \in Procs, WriteUnstamped(p) PROVE OnlyAdds
    <3>1. manifest' = rec[p] /\ rec[p] = Fresh(rec[p].body)
      BY <1>1, <2>2 DEF WriteUnstamped, SoleInv, Sole
    <3>. QED BY <3>1
  <2>3. ASSUME NEW p \in Procs, SaveManifest(p) PROVE OnlyAdds
    <3>1. manifest' = rec[p]
      BY <2>3 DEF SaveManifest
    <3>2. \/ rec[p] = Fresh(rec[p].body)
          \/ Adds(manifest, rec[p])
      BY <1>1, <2>3 DEF SaveManifest, SoleInv, Sole
    <3>. QED BY <3>1, <3>2 DEF Adds
  <2>4. ASSUME manifest' = Torn PROVE OnlyAdds
    BY <2>4, Sentinels
  <2>. QED BY <1>1, <2>1, <2>2, <2>3, <2>4, ManifestWrites
<1>2. TypeInv /\ AloneInv /\ SoleInv /\ [Next]_vars => [OnlyAdds]_vars
  BY <1>1
<1>3. Spec => [][OnlyAdds]_vars
  BY <1>2, SoleInductive, PTL DEF Spec
<1>. QED BY <1>3 DEF StampingOnlyAdds

(* One command at a time, when `anchor --backend ots` returns 0 the record *)
(* it saved passes verify_anchor with the files it leaves: proof and       *)
(* binding are those it wrote in this very call, or the binding could not  *)
(* be stamped and an older one is there.                                   *)
THEOREM AnchorsVerify == Exclusive => (Spec => AnchorVerifies)
<1> SUFFICES ASSUME Exclusive PROVE Spec => AnchorVerifies
  OBVIOUS
<1> DEFINE Verified ==
      \A p \in Procs : SaveManifest(p) /\ proof[p] \in Proof =>
          AnchorOK(manifest)' \/ StaleBinding'
<1>1. ASSUME SoleInv, NEW p \in Procs, SaveManifest(p), proof[p] \in Proof
      PROVE  AnchorOK(manifest)' \/ StaleBinding'
  <2>1. Verifies(rec[p])
    BY <1>1 DEF SaveManifest, SoleInv, Sole
  <2>2. manifest' = rec[p] /\ ots' = ots /\ cidOts' = cidOts
    BY <1>1 DEF SaveManifest
  <2>. QED
    BY <2>1, <2>2 DEF Verifies, StaleBinding, AnchorOK, BindingOK, Timestamped, Commits
<1>2. TypeInv /\ AloneInv /\ SoleInv /\ [Next]_vars => [Verified]_vars
  BY <1>1
<1>3. Spec => [][Verified]_vars
  BY <1>2, SoleInductive, PTL DEF Spec
<1>. QED BY <1>3 DEF AnchorVerifies
=============================================================================
