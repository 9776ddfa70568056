---------------------------- MODULE ReceiptProofs ----------------------------
(***************************************************************************)
(* Proofs about Receipt, for any number of invocations, manifest bodies    *)
(* and artifacts.  What verify prints was read in several steps, so each   *)
(* invariant follows the receipt from the process that made it, through    *)
(* reproduction.json, to the process that reads it.                        *)
(***************************************************************************)
EXTENDS Receipt, TLAPS

Making == {"write", "stamp", "write proof", "sign", "write signed"}

\* What an invocation holds in memory at each step.
Loaded(p) ==
    /\ pc[p] \in {"rerun", "check receipt", "check proof", "row", "rung"} => rec[p] \in Bodies
    /\ pc[p] \in {"rerun"} \cup Making => opts[p] \in Options
    /\ pc[p] \in Making => mine[p] \in Payload
    /\ pc[p] = "check proof" => seen[p] \in File

LoadedInv == \A p \in Procs : Loaded(p)
TypeInv == TypeOK /\ LoadedInv

\* A receipt tells of a command that was run.
MadeInv ==
    /\ receipt \in File => receipt.payload \in made
    /\ \A p \in Procs : pc[p] \in Making => mine[p] \in made

\* The bodies that were reproduced, and those a good receipt was signed for.
ReproducedBodies == {b \in Bodies : Reproduced(b)}
SignedBodies == {b \in Bodies : \E r \in log : r.body = b /\ Ok(r)}

\* A row is justified from the step that computes it to the printed card.
RowOf(p) ==
    /\ pc[p] = "rung" /\ row[p] = "identical" => rec[p] \in ReproducedBodies
    /\ card[p] # None => (card[p].row = "identical" => card[p].body \in ReproducedBodies)

RowInv == \A p \in Procs : RowOf(p)

\* A bundle is the signature of the receipt it lies in.
LogInv ==
    /\ receipt \in File => (receipt.bundle # None => receipt.payload \in log)
    /\ \A p \in Procs : pc[p] = "write signed" => mine[p] \in log

\* One command at a time: the receipt verify reads again is the one it found
\* no problem in.
Checked(p) ==
    /\ pc[p] \in {"check proof", "row", "rung"} /\ fine[p] /\ receipt \in File =>
         OfManifest(receipt, rec[p])
    /\ card[p] # None => (card[p].rung = "L3" => card[p].body \in SignedBodies)

Single == \A p, q \in Procs : pc[p] # "idle" /\ pc[q] # "idle" => p = q

AloneInv == alone => Single /\ \A p \in Procs : Checked(p)

IInv == TypeInv /\ MadeInv /\ RowInv /\ LogInv /\ AloneInv
-----------------------------------------------------------------------------
(* Type correctness. *)

LEMMA TypeInit == Init => TypeInv
BY ConstantsOK DEF Init, TypeInv, TypeOK, LoadedInv, Loaded, Steps, Rows, Making

LEMMA SpendType == budget \in Nat /\ Spend => budget' \in Nat
BY DEF Spend

LEMMA FinishType ==
    ASSUME TypeInv, NEW p \in Procs, Finish(p)
    PROVE  /\ pc' \in [Procs -> Steps]
           /\ rec' \in [Procs -> Bodies \cup {None}]
           /\ opts' \in [Procs -> Options \cup {None}]
           /\ mine' \in [Procs -> Payload \cup {None}]
           /\ seen' \in [Procs -> File \cup {NoFile, Torn, None}]
           /\ fine' \in [Procs -> BOOLEAN]
           /\ row' \in [Procs -> Rows]
           /\ card' \in [Procs -> Card \cup {None}]
           /\ LoadedInv'
<1>1. /\ pc' \in [Procs -> Steps]
      /\ rec' \in [Procs -> Bodies \cup {None}]
      /\ opts' \in [Procs -> Options \cup {None}]
      /\ mine' \in [Procs -> Payload \cup {None}]
  BY DEF Finish, Goto, Steps, TypeInv, TypeOK
<1>2. /\ seen' \in [Procs -> File \cup {NoFile, Torn, None}]
      /\ fine' \in [Procs -> BOOLEAN]
      /\ row' \in [Procs -> Rows]
      /\ card' \in [Procs -> Card \cup {None}]
  BY DEF Finish, Rows, TypeInv, TypeOK
<1>3. ASSUME NEW q \in Procs PROVE Loaded(q)'
  BY DEF Finish, Goto, TypeInv, TypeOK, LoadedInv, Loaded, Making
<1>. QED BY <1>1, <1>2, <1>3 DEF LoadedInv

LEMMA OnwardType ==
    ASSUME TypeInv, NEW p \in Procs, pc[p] \in Making, Onward(p)
    PROVE  /\ pc' \in [Procs -> Steps]
           /\ rec' \in [Procs -> Bodies \cup {None}]
           /\ opts' \in [Procs -> Options \cup {None}]
           /\ mine' \in [Procs -> Payload \cup {None}]
           /\ seen' \in [Procs -> File \cup {NoFile, Torn, None}]
           /\ fine' \in [Procs -> BOOLEAN]
           /\ row' \in [Procs -> Rows]
           /\ card' \in [Procs -> Card \cup {None}]
           /\ LoadedInv'
<1>1. CASE Finish(p)
  BY <1>1, FinishType
<1>2. CASE Goto(p, "sign") /\ UNCHANGED memory
  <2>1. pc' \in [Procs -> Steps]
    BY <1>2 DEF Goto, Steps, TypeInv, TypeOK
  <2>2. ASSUME NEW q \in Procs PROVE Loaded(q)'
    BY <1>2 DEF Goto, memory, Making, TypeInv, TypeOK, LoadedInv, Loaded
  <2>. QED BY <1>2, <2>1, <2>2 DEF memory, TypeInv, TypeOK, LoadedInv
<1>. QED BY <1>1, <1>2 DEF Onward

LEMMA TypeStep == TypeInv /\ [Next]_vars => TypeInv'
<1> SUFFICES ASSUME TypeInv, [Next]_vars PROVE TypeInv'
  OBVIOUS
<1>1. CASE UNCHANGED vars
  BY <1>1 DEF vars, files, services, memory, TypeInv, TypeOK, LoadedInv, Loaded, Making,
         Steps
<1>2. ASSUME NEW p \in Procs, NEW b \in Bodies, Rebuild(p, b) PROVE TypeInv'
  <2>1. pc[p] = "idle" /\ budget' \in Nat
    BY <1>2, SpendType DEF Rebuild, CanStart, TypeInv, TypeOK
  <2>2. TypeOK'
    BY <1>2, <2>1 DEF Rebuild, TypeInv, TypeOK, services, memory
  <2>3. LoadedInv'
    BY <1>2 DEF Rebuild, TypeInv, LoadedInv, Loaded, memory
  <2>. QED BY <2>2, <2>3 DEF TypeInv
<1>3. ASSUME NEW p \in Procs, NEW o \in Options, Reproduce(p, o) PROVE TypeInv'
  <2>1. budget' \in Nat
    BY <1>3, SpendType DEF Reproduce, TypeInv, TypeOK
  <2>2. pc' \in [Procs -> Steps]
    BY <1>3 DEF Reproduce, Goto, Steps, TypeInv, TypeOK
  <2>3. /\ rec' \in [Procs -> Bodies \cup {None}]
        /\ opts' \in [Procs -> Options \cup {None}]
    BY <1>3 DEF Reproduce, TypeInv, TypeOK
  <2>4. TypeOK'
    BY <1>3, <2>1, <2>2, <2>3 DEF Reproduce, TypeInv, TypeOK, files, services
  <2>5. ASSUME NEW q \in Procs PROVE Loaded(q)'
    BY <1>3 DEF Reproduce, Goto, TypeInv, TypeOK, LoadedInv, Loaded, Making
  <2>. QED BY <2>4, <2>5 DEF TypeInv, LoadedInv
<1>4. ASSUME NEW p \in Procs, NEW zero \in BOOLEAN, NEW out \in [Artifacts -> {"ignored",
       "same", "other", "absent"}], Rerun(p, zero, out) PROVE TypeInv'
  <2>1. mine'[p] \in Payload /\ mine' \in [Procs -> Payload \cup {None}]
    BY <1>4 DEF Rerun, TypeInv, TypeOK, LoadedInv, Loaded, Payload
  <2>2. /\ clock' \in Nat
        /\ made' \subseteq Payload
    <3>1. clock \in Nat /\ clock' = clock + 1 /\ made' = made \cup {mine'[p]}
      BY <1>4 DEF Rerun, TypeInv, TypeOK
    <3>2. made \subseteq Payload
      BY DEF TypeInv, TypeOK
    <3>3. clock' \in Nat
      BY <3>1
    <3>. QED BY <2>1, <3>1, <3>2, <3>3
  <2>3. pc' \in [Procs -> Steps]
    BY <1>4 DEF Rerun, Goto, TypeInv, TypeOK, Steps
  <2>4. TypeOK'
    BY <1>4, <2>1, <2>2, <2>3 DEF Rerun, TypeInv, TypeOK, files, services
  <2>5. ASSUME NEW q \in Procs PROVE Loaded(q)'
    BY <1>4, <2>1 DEF Rerun, Goto, TypeInv, TypeOK, LoadedInv, Loaded, Making
  <2>. QED BY <2>4, <2>5 DEF TypeInv, LoadedInv
<1>5. ASSUME NEW p \in Procs, WriteReceipt(p) PROVE TypeInv'
  <2>1. mine[p] \in Payload
    BY <1>5 DEF WriteReceipt, TypeInv, LoadedInv, Loaded, Making
  <2>2. receipt' \in File
    BY <1>5, <2>1 DEF WriteReceipt, File
  <2>3. CASE Goto(p, "stamp") /\ UNCHANGED memory
    <3>1. pc' \in [Procs -> Steps]
      BY <2>3 DEF Goto, Steps, TypeInv, TypeOK
    <3>2. ASSUME NEW q \in Procs PROVE Loaded(q)'
      BY <1>5, <2>3 DEF WriteReceipt, Goto, memory, Making, TypeInv, TypeOK, LoadedInv, Loaded
    <3>. QED BY <1>5, <2>2, <2>3, <3>1, <3>2
             DEF WriteReceipt, memory, services, TypeInv, TypeOK, LoadedInv
  <2>4. CASE Onward(p)
    BY <1>5, <2>2, <2>4, OnwardType DEF WriteReceipt, Making, services, TypeInv, TypeOK
  <2>. QED BY <1>5, <2>3, <2>4 DEF WriteReceipt
<1>6. ASSUME NEW p \in Procs, StampReceipt(p) PROVE TypeInv'
  <2>1. mine[p] \in Payload
    BY <1>6 DEF StampReceipt, TypeInv, LoadedInv, Loaded, Making
  <2>2. held' \subseteq Payload
    BY <1>6, <2>1 DEF StampReceipt, TypeInv, TypeOK
  <2>3. pc' \in [Procs -> Steps]
    BY <1>6 DEF StampReceipt, Goto, Steps, TypeInv, TypeOK
  <2>4. TypeOK'
    BY <1>6, <2>2, <2>3 DEF StampReceipt, TypeInv, TypeOK, files, memory
  <2>5. ASSUME NEW q \in Procs PROVE Loaded(q)'
    BY <1>6 DEF StampReceipt, Goto, TypeInv, TypeOK, LoadedInv, Loaded, Making, memory
  <2>. QED BY <2>4, <2>5 DEF TypeInv, LoadedInv
<1>7. ASSUME NEW p \in Procs, WriteReceiptProof(p) PROVE TypeInv'
  <2>1. proof' \in Payload
    BY <1>7 DEF WriteReceiptProof, TypeInv, LoadedInv, Loaded, Making
  <2>. QED BY <1>7, <2>1, OnwardType
           DEF WriteReceiptProof, Making, services, TypeInv, TypeOK
<1>8. ASSUME NEW p \in Procs, SignReceipt(p) PROVE TypeInv'
  <2>1. mine[p] \in Payload
    BY <1>8 DEF SignReceipt, TypeInv, LoadedInv, Loaded, Making
  <2>2. log' \subseteq Payload
    BY <1>8, <2>1 DEF SignReceipt, TypeInv, TypeOK
  <2>3. pc' \in [Procs -> Steps]
    BY <1>8 DEF SignReceipt, Goto, Steps, TypeInv, TypeOK
  <2>4. TypeOK'
    BY <1>8, <2>2, <2>3 DEF SignReceipt, TypeInv, TypeOK, files, memory
  <2>5. ASSUME NEW q \in Procs PROVE Loaded(q)'
    BY <1>8 DEF SignReceipt, Goto, TypeInv, TypeOK, LoadedInv, Loaded, Making, memory
  <2>. QED BY <2>4, <2>5 DEF TypeInv, LoadedInv
<1>9. ASSUME NEW p \in Procs, WriteSigned(p) PROVE TypeInv'
  <2>1. receipt' \in File
    BY <1>9 DEF WriteSigned, File, TypeInv, LoadedInv, Loaded, Making
  <2>. QED BY <1>9, <2>1, FinishType DEF WriteSigned, services, TypeInv, TypeOK
<1>10. ASSUME NEW p \in Procs, VerifyLoad(p) PROVE TypeInv'
  <2>1. TypeOK'
    BY <1>10 DEF VerifyLoad, CanStart, Goto, TypeInv, TypeOK, LoadedInv, Loaded, Steps,
           files, services, memory
  <2>2. ASSUME NEW q \in Procs PROVE Loaded(q)'
    BY <1>10 DEF VerifyLoad, CanStart, Goto, TypeInv, TypeOK, LoadedInv, Loaded, Making,
           files, services, memory
  <2>. QED BY <2>1, <2>2 DEF TypeInv, LoadedInv
<1>11. ASSUME NEW p \in Procs, CheckReceipt(p) PROVE TypeInv'
  <2>1. seen' \in [Procs -> File \cup {NoFile, Torn, None}]
    BY <1>11 DEF CheckReceipt, TypeInv, TypeOK
  <2>2. fine' \in [Procs -> BOOLEAN]
    BY <1>11 DEF CheckReceipt, OfManifest, TypeInv, TypeOK
  <2>3. pc' \in [Procs -> Steps]
    BY <1>11 DEF CheckReceipt, Goto, Steps, TypeInv, TypeOK
  <2>4. TypeOK'
    BY <1>11, <2>1, <2>2, <2>3 DEF CheckReceipt, TypeInv, TypeOK, files, services
  <2>5. ASSUME NEW q \in Procs PROVE Loaded(q)'
    BY <1>11 DEF CheckReceipt, Goto, TypeInv, TypeOK, LoadedInv, Loaded, Making
  <2>. QED BY <2>4, <2>5 DEF TypeInv, LoadedInv
<1>12. ASSUME NEW p \in Procs, NEW cosign \in BOOLEAN, CheckProof(p, cosign) PROVE TypeInv'
  <2>1. fine' \in [Procs -> BOOLEAN]
    BY <1>12 DEF CheckProof, ProofOK, BundleOK, TypeInv, TypeOK
  <2>2. TypeOK'
    BY <1>12, <2>1 DEF CheckProof, Goto, Steps, TypeInv, TypeOK, files, services
  <2>3. ASSUME NEW q \in Procs PROVE Loaded(q)'
    BY <1>12 DEF CheckProof, Goto, TypeInv, TypeOK, LoadedInv, Loaded, Making
  <2>. QED BY <2>2, <2>3 DEF TypeInv, LoadedInv
<1>13. ASSUME NEW p \in Procs, PrintRow(p) PROVE TypeInv'
  <2>1. row' \in [Procs -> Rows]
    BY <1>13 DEF PrintRow, BitwiseRow, Rows, TypeInv, TypeOK
  <2>2. TypeOK'
    BY <1>13, <2>1 DEF PrintRow, Goto, TypeInv, TypeOK, Steps, files, services
  <2>3. ASSUME NEW q \in Procs PROVE Loaded(q)'
    BY <1>13 DEF PrintRow, Goto, TypeInv, TypeOK, LoadedInv, Loaded, Making
  <2>. QED BY <2>2, <2>3 DEF TypeInv, LoadedInv
<1>14. ASSUME NEW p \in Procs, NEW facts \in Facts, NEW cosign \in BOOLEAN, PrintCard(p,
       facts, cosign) PROVE TypeInv'
  <2>1. EvaluateLadder(facts, SignatureVerified(receipt, fine[p], cosign)) \in Levels
    BY DEF EvaluateLadder, Levels
  <2>2. (fine[p] /\ facts.tamper /\ facts.others) \in BOOLEAN
    OBVIOUS
  <2>3. card' \in [Procs -> Card \cup {None}]
    BY <1>14, <2>1, <2>2 DEF PrintCard, TypeInv, TypeOK, LoadedInv, Loaded, Card
  <2>4. TypeOK'
    BY <1>14, <2>3 DEF PrintCard, Goto, TypeInv, TypeOK, Steps, files, services
  <2>5. ASSUME NEW q \in Procs PROVE Loaded(q)'
    BY <1>14 DEF PrintCard, Goto, TypeInv, TypeOK, LoadedInv, Loaded, Making
  <2>. QED BY <2>4, <2>5 DEF TypeInv, LoadedInv
<1>15. ASSUME NEW p \in Procs, Stop(p) PROVE TypeInv'
  BY <1>15, FinishType DEF Stop, files, services, TypeInv, TypeOK
<1>16. ASSUME NEW p \in Procs, Tear(p) PROVE TypeInv'
  BY <1>16, FinishType DEF Tear, services, TypeInv, TypeOK
<1>. QED BY <1>1, <1>2, <1>3, <1>4, <1>5, <1>6, <1>7, <1>8, <1>9, <1>10, <1>11, <1>12,
       <1>13, <1>14, <1>15, <1>16 DEF Next

(* Every variable of Receipt keeps its type. *)
THEOREM TypeCorrect == Spec => []TypeOK
<1>1. TypeInv => TypeOK
  BY DEF TypeInv
<1>. QED BY TypeInit, TypeStep, <1>1, PTL DEF Spec
-----------------------------------------------------------------------------
(* A receipt tells of a command that was run. *)

LEMMA OnwardMoves ==
    ASSUME TypeInv, NEW p \in Procs, Onward(p)
    PROVE  /\ \A q \in Procs \ {p} : /\ pc'[q] = pc[q] /\ rec'[q] = rec[q]
                                     /\ mine'[q] = mine[q] /\ fine'[q] = fine[q]
                                     /\ row'[q] = row[q] /\ card'[q] = card[q]
           /\ pc'[p] \in {"idle", "sign"}
           /\ pc'[p] = "sign" => mine'[p] = mine[p]
           /\ card'[p] \in {card[p], None}
<1>1. CASE Finish(p)
  BY <1>1 DEF Finish, Goto, TypeInv, TypeOK
<1>2. CASE Goto(p, "sign") /\ UNCHANGED memory
  BY <1>2 DEF Goto, memory, TypeInv, TypeOK
<1>. QED BY <1>1, <1>2 DEF Onward

LEMMA WriteMoves ==
    ASSUME TypeInv, NEW p \in Procs, WriteReceipt(p) \/ WriteReceiptProof(p)
    PROVE  /\ \A q \in Procs \ {p} : /\ pc'[q] = pc[q] /\ rec'[q] = rec[q]
                                     /\ mine'[q] = mine[q] /\ fine'[q] = fine[q]
                                     /\ row'[q] = row[q] /\ card'[q] = card[q]
           /\ pc[p] \in {"write", "write proof"} /\ pc'[p] \in {"idle", "sign", "stamp"}
           /\ pc'[p] # "idle" => mine'[p] = mine[p]
           /\ card'[p] \in {card[p], None}
           /\ UNCHANGED <<manifest, log, made, alone>>
<1>1. pc[p] \in {"write", "write proof"} /\ UNCHANGED <<manifest, log, made, alone>>
  BY DEF WriteReceipt, WriteReceiptProof, services
<1>2. CASE Onward(p)
  BY <1>1, <1>2, OnwardMoves
<1>3. CASE Goto(p, "stamp") /\ UNCHANGED memory
  BY <1>1, <1>3 DEF Goto, memory, TypeInv, TypeOK
<1>. QED BY <1>2, <1>3 DEF WriteReceipt, WriteReceiptProof

LEMMA MadeStep == TypeInv /\ MadeInv /\ [Next]_vars => MadeInv'
<1> SUFFICES ASSUME TypeInv, MadeInv, [Next]_vars PROVE MadeInv'
  OBVIOUS
<1>1. CASE UNCHANGED vars
  BY <1>1, Sentinels DEF vars, files, services, memory, MadeInv, Making, TypeInv, TypeOK
<1>2. ASSUME NEW p \in Procs, NEW b \in Bodies, Rebuild(p, b) PROVE MadeInv'
  BY <1>2, Sentinels DEF Rebuild, CanStart, Spend, MadeInv, Making, TypeInv, TypeOK, files,
         services, memory
<1>3. ASSUME NEW p \in Procs, NEW o \in Options, Reproduce(p, o) PROVE MadeInv'
  BY <1>3, Sentinels DEF Reproduce, CanStart, Spend, Goto, MadeInv, Making, TypeInv, TypeOK,
         files, services, memory
<1>4. ASSUME NEW p \in Procs, NEW zero \in BOOLEAN, NEW out \in [Artifacts -> {"ignored",
       "same", "other", "absent"}], Rerun(p, zero, out) PROVE MadeInv'
  BY <1>4, Sentinels DEF Rerun, Goto, MadeInv, Making, TypeInv, TypeOK, files, services,
         memory
<1>5. ASSUME NEW p \in Procs, WriteReceipt(p) PROVE MadeInv'
  <2>1. receipt' \in File => receipt'.payload \in made'
    BY <1>5, WriteMoves DEF WriteReceipt, MadeInv, Making
  <2>. QED BY <1>5, <2>1, WriteMoves DEF MadeInv, Making
<1>6. ASSUME NEW p \in Procs, StampReceipt(p) PROVE MadeInv'
  BY <1>6, Sentinels DEF StampReceipt, Goto, MadeInv, Making, TypeInv, TypeOK, files,
         services, memory
<1>7. ASSUME NEW p \in Procs, WriteReceiptProof(p) PROVE MadeInv'
  <2>1. UNCHANGED receipt
    BY <1>7 DEF WriteReceiptProof
  <2>. QED BY <1>7, <2>1, WriteMoves DEF MadeInv, Making
<1>8. ASSUME NEW p \in Procs, SignReceipt(p) PROVE MadeInv'
  BY <1>8, Sentinels DEF SignReceipt, Goto, MadeInv, Making, TypeInv, TypeOK, files,
         services, memory
<1>9. ASSUME NEW p \in Procs, WriteSigned(p) PROVE MadeInv'
  BY <1>9, Sentinels DEF WriteSigned, Goto, Finish, MadeInv, Making, TypeInv, TypeOK, files,
         services, memory
<1>10. ASSUME NEW p \in Procs, VerifyLoad(p) PROVE MadeInv'
  BY <1>10, Sentinels DEF VerifyLoad, CanStart, Goto, MadeInv, Making, TypeInv, TypeOK,
         files, services, memory
<1>11. ASSUME NEW p \in Procs, CheckReceipt(p) PROVE MadeInv'
  BY <1>11, Sentinels DEF CheckReceipt, Goto, MadeInv, Making, TypeInv, TypeOK, files,
         services, memory
<1>12. ASSUME NEW p \in Procs, NEW cosign \in BOOLEAN, CheckProof(p, cosign) PROVE MadeInv'
  BY <1>12, Sentinels DEF CheckProof, Goto, MadeInv, Making, TypeInv, TypeOK, files,
         services, memory
<1>13. ASSUME NEW p \in Procs, PrintRow(p) PROVE MadeInv'
  BY <1>13, Sentinels DEF PrintRow, Goto, MadeInv, Making, TypeInv, TypeOK, files, services,
         memory
<1>14. ASSUME NEW p \in Procs, NEW facts \in Facts, NEW cosign \in BOOLEAN, PrintCard(p,
       facts, cosign) PROVE MadeInv'
  BY <1>14, Sentinels DEF PrintCard, Goto, MadeInv, Making, TypeInv, TypeOK, files,
         services, memory
<1>15. ASSUME NEW p \in Procs, Stop(p) PROVE MadeInv'
  BY <1>15, Sentinels DEF Stop, Goto, Finish, MadeInv, Making, TypeInv, TypeOK, files,
         services, memory
<1>16. ASSUME NEW p \in Procs, Tear(p) PROVE MadeInv'
  BY <1>16, Sentinels DEF Tear, Goto, Finish, MadeInv, Making, TypeInv, TypeOK, files,
         services, memory
<1>. QED BY <1>1, <1>2, <1>3, <1>4, <1>5, <1>6, <1>7, <1>8, <1>9, <1>10, <1>11, <1>12,
       <1>13, <1>14, <1>15, <1>16 DEF Next
-----------------------------------------------------------------------------
(* The bitwise row. *)

\* What was reproduced stays so.
LEMMA ReproducedGrows == made \subseteq made' => ReproducedBodies \subseteq ReproducedBodies'
BY DEF ReproducedBodies, Reproduced

LEMMA RowJustified ==
    ASSUME TypeInv, MadeInv, NEW b \in Bodies, NEW ok \in BOOLEAN,
           BitwiseRow(receipt, b, ok) = "identical"
    PROVE  b \in ReproducedBodies
<1>1. receipt \in File
  BY DEF BitwiseRow, TypeInv, TypeOK
<1>2. receipt.payload.body = b /\ Ok(receipt.payload) /\ Compared(receipt.payload) # {}
  BY <1>1, Sentinels DEF BitwiseRow
<1>3. receipt.payload \in made /\ receipt.payload.matched # {}
  BY <1>1, <1>2 DEF MadeInv, Ok, Compared
<1>. QED BY <1>2, <1>3 DEF ReproducedBodies, Reproduced, Ok

LEMMA RowStep == TypeInv /\ MadeInv /\ RowInv /\ [Next]_vars => RowInv'
<1> SUFFICES ASSUME TypeInv, MadeInv, RowInv, [Next]_vars PROVE RowInv'
  OBVIOUS
<1>1. CASE UNCHANGED vars
  <2>1. ReproducedBodies \subseteq ReproducedBodies'
    BY <1>1, ReproducedGrows DEF vars
  <2>. QED BY <1>1, <2>1 DEF vars, memory, RowInv, RowOf
<1>2. ASSUME NEW p \in Procs, NEW b \in Bodies, Rebuild(p, b) PROVE RowInv'
  <2>1. ReproducedBodies \subseteq ReproducedBodies'
    BY <1>2, ReproducedGrows DEF Rebuild
  <2>2. ASSUME NEW q \in Procs PROVE RowOf(q)'
    BY <1>2, <2>1 DEF Rebuild, CanStart, Spend, RowInv, RowOf, TypeInv, TypeOK, files,
           services, memory
  <2>. QED BY <2>2 DEF RowInv
<1>3. ASSUME NEW p \in Procs, NEW o \in Options, Reproduce(p, o) PROVE RowInv'
  <2>1. ReproducedBodies \subseteq ReproducedBodies'
    BY <1>3, ReproducedGrows DEF Reproduce
  <2>2. ASSUME NEW q \in Procs PROVE RowOf(q)'
    BY <1>3, <2>1 DEF Reproduce, CanStart, Spend, Goto, RowInv, RowOf, TypeInv, TypeOK,
           files, services, memory
  <2>. QED BY <2>2 DEF RowInv
<1>4. ASSUME NEW p \in Procs, NEW zero \in BOOLEAN, NEW out \in [Artifacts -> {"ignored",
       "same", "other", "absent"}], Rerun(p, zero, out) PROVE RowInv'
  <2>1. ReproducedBodies \subseteq ReproducedBodies'
    BY <1>4, ReproducedGrows DEF Rerun
  <2>2. ASSUME NEW q \in Procs PROVE RowOf(q)'
    BY <1>4, <2>1 DEF Rerun, Goto, RowInv, RowOf, TypeInv, TypeOK, files, services, memory
  <2>. QED BY <2>2 DEF RowInv
<1>5. ASSUME NEW p \in Procs, WriteReceipt(p) PROVE RowInv'
  <2>1. ReproducedBodies \subseteq ReproducedBodies'
    BY <1>5, WriteMoves, ReproducedGrows
  <2>2. ASSUME NEW q \in Procs PROVE RowOf(q)'
    BY <1>5, <2>1, WriteMoves DEF RowInv, RowOf
  <2>. QED BY <2>2 DEF RowInv
<1>6. ASSUME NEW p \in Procs, StampReceipt(p) PROVE RowInv'
  <2>1. ReproducedBodies \subseteq ReproducedBodies'
    BY <1>6, ReproducedGrows DEF StampReceipt
  <2>2. ASSUME NEW q \in Procs PROVE RowOf(q)'
    BY <1>6, <2>1 DEF StampReceipt, Goto, RowInv, RowOf, TypeInv, TypeOK, files, services,
           memory
  <2>. QED BY <2>2 DEF RowInv
<1>7. ASSUME NEW p \in Procs, WriteReceiptProof(p) PROVE RowInv'
  <2>1. ReproducedBodies \subseteq ReproducedBodies'
    BY <1>7, WriteMoves, ReproducedGrows
  <2>2. ASSUME NEW q \in Procs PROVE RowOf(q)'
    BY <1>7, <2>1, WriteMoves DEF RowInv, RowOf
  <2>. QED BY <2>2 DEF RowInv
<1>8. ASSUME NEW p \in Procs, SignReceipt(p) PROVE RowInv'
  <2>1. ReproducedBodies \subseteq ReproducedBodies'
    BY <1>8, ReproducedGrows DEF SignReceipt
  <2>2. ASSUME NEW q \in Procs PROVE RowOf(q)'
    BY <1>8, <2>1 DEF SignReceipt, Goto, RowInv, RowOf, TypeInv, TypeOK, files, services,
           memory
  <2>. QED BY <2>2 DEF RowInv
<1>9. ASSUME NEW p \in Procs, WriteSigned(p) PROVE RowInv'
  <2>1. ReproducedBodies \subseteq ReproducedBodies'
    BY <1>9, ReproducedGrows DEF WriteSigned
  <2>2. ASSUME NEW q \in Procs PROVE RowOf(q)'
    BY <1>9, <2>1 DEF WriteSigned, Goto, Finish, RowInv, RowOf, TypeInv, TypeOK, files,
           services, memory
  <2>. QED BY <2>2 DEF RowInv
<1>10. ASSUME NEW p \in Procs, VerifyLoad(p) PROVE RowInv'
  <2>1. ReproducedBodies \subseteq ReproducedBodies'
    BY <1>10, ReproducedGrows DEF VerifyLoad
  <2>2. ASSUME NEW q \in Procs PROVE RowOf(q)'
    BY <1>10, <2>1 DEF VerifyLoad, CanStart, Goto, RowInv, RowOf, TypeInv, TypeOK, files,
           services, memory
  <2>. QED BY <2>2 DEF RowInv
<1>11. ASSUME NEW p \in Procs, CheckReceipt(p) PROVE RowInv'
  <2>1. ReproducedBodies \subseteq ReproducedBodies'
    BY <1>11, ReproducedGrows DEF CheckReceipt
  <2>2. ASSUME NEW q \in Procs PROVE RowOf(q)'
    BY <1>11, <2>1 DEF CheckReceipt, Goto, RowInv, RowOf, TypeInv, TypeOK, files, services,
           memory
  <2>. QED BY <2>2 DEF RowInv
<1>12. ASSUME NEW p \in Procs, NEW cosign \in BOOLEAN, CheckProof(p, cosign) PROVE RowInv'
  <2>1. ReproducedBodies \subseteq ReproducedBodies'
    BY <1>12, ReproducedGrows DEF CheckProof
  <2>2. ASSUME NEW q \in Procs PROVE RowOf(q)'
    BY <1>12, <2>1 DEF CheckProof, Goto, RowInv, RowOf, TypeInv, TypeOK, files, services,
           memory
  <2>. QED BY <2>2 DEF RowInv
<1>13. ASSUME NEW p \in Procs, PrintRow(p) PROVE RowInv'
  <2>1. ReproducedBodies \subseteq ReproducedBodies'
    BY <1>13, ReproducedGrows DEF PrintRow
  <2>2. rec[p] \in Bodies /\ fine[p] \in BOOLEAN
    BY <1>13 DEF PrintRow, TypeInv, TypeOK, LoadedInv, Loaded
  <2>3. row'[p] = "identical" => rec[p] \in ReproducedBodies
    BY <1>13, <2>2, RowJustified DEF PrintRow, TypeInv, TypeOK
  <2>4. ASSUME NEW q \in Procs PROVE RowOf(q)'
    BY <1>13, <2>1, <2>3 DEF PrintRow, Goto, RowInv, RowOf, TypeInv, TypeOK
  <2>. QED BY <2>4 DEF RowInv
<1>14. ASSUME NEW p \in Procs, NEW facts \in Facts, NEW cosign \in BOOLEAN, PrintCard(p,
       facts, cosign) PROVE RowInv'
  <2>1. ReproducedBodies \subseteq ReproducedBodies'
    BY <1>14, ReproducedGrows DEF PrintCard
  <2>2. ASSUME NEW q \in Procs PROVE RowOf(q)'
    BY <1>14, <2>1 DEF PrintCard, Goto, RowInv, RowOf, TypeInv, TypeOK, files, services,
           memory
  <2>. QED BY <2>2 DEF RowInv
<1>15. ASSUME NEW p \in Procs, Stop(p) PROVE RowInv'
  <2>1. ReproducedBodies \subseteq ReproducedBodies'
    BY <1>15, ReproducedGrows DEF Stop
  <2>2. ASSUME NEW q \in Procs PROVE RowOf(q)'
    BY <1>15, <2>1 DEF Stop, Goto, Finish, RowInv, RowOf, TypeInv, TypeOK, files, services,
           memory
  <2>. QED BY <2>2 DEF RowInv
<1>16. ASSUME NEW p \in Procs, Tear(p) PROVE RowInv'
  <2>1. ReproducedBodies \subseteq ReproducedBodies'
    BY <1>16, ReproducedGrows DEF Tear
  <2>2. ASSUME NEW q \in Procs PROVE RowOf(q)'
    BY <1>16, <2>1 DEF Tear, Goto, Finish, RowInv, RowOf, TypeInv, TypeOK, files, services,
           memory
  <2>. QED BY <2>2 DEF RowInv
<1>. QED BY <1>1, <1>2, <1>3, <1>4, <1>5, <1>6, <1>7, <1>8, <1>9, <1>10, <1>11, <1>12,
       <1>13, <1>14, <1>15, <1>16 DEF Next
-----------------------------------------------------------------------------
(* The signature. *)

LEMMA LogStep == TypeInv /\ LogInv /\ [Next]_vars => LogInv'
<1> SUFFICES ASSUME TypeInv, LogInv, [Next]_vars PROVE LogInv'
  OBVIOUS
<1>1. CASE UNCHANGED vars
  BY <1>1, Sentinels DEF vars, files, services, memory, LogInv, TypeInv, TypeOK
<1>2. ASSUME NEW p \in Procs, NEW b \in Bodies, Rebuild(p, b) PROVE LogInv'
  BY <1>2, Sentinels DEF Rebuild, CanStart, Spend, LogInv, TypeInv, TypeOK, files, services,
         memory
<1>3. ASSUME NEW p \in Procs, NEW o \in Options, Reproduce(p, o) PROVE LogInv'
  BY <1>3, Sentinels DEF Reproduce, CanStart, Spend, Goto, LogInv, TypeInv, TypeOK, files,
         services, memory
<1>4. ASSUME NEW p \in Procs, NEW zero \in BOOLEAN, NEW out \in [Artifacts -> {"ignored",
       "same", "other", "absent"}], Rerun(p, zero, out) PROVE LogInv'
  BY <1>4, Sentinels DEF Rerun, Goto, LogInv, TypeInv, TypeOK, files, services, memory
<1>5. ASSUME NEW p \in Procs, WriteReceipt(p) PROVE LogInv'
  <2>1. receipt' \in File => receipt'.bundle = None
    BY <1>5 DEF WriteReceipt
  <2>. QED BY <1>5, <2>1, WriteMoves DEF LogInv
<1>6. ASSUME NEW p \in Procs, StampReceipt(p) PROVE LogInv'
  BY <1>6, Sentinels DEF StampReceipt, Goto, LogInv, TypeInv, TypeOK, files, services,
         memory
<1>7. ASSUME NEW p \in Procs, WriteReceiptProof(p) PROVE LogInv'
  <2>1. UNCHANGED receipt
    BY <1>7 DEF WriteReceiptProof
  <2>. QED BY <1>7, <2>1, WriteMoves DEF LogInv
<1>8. ASSUME NEW p \in Procs, SignReceipt(p) PROVE LogInv'
  BY <1>8, Sentinels DEF SignReceipt, Goto, LogInv, TypeInv, TypeOK, files, services, memory
<1>9. ASSUME NEW p \in Procs, WriteSigned(p) PROVE LogInv'
  BY <1>9, Sentinels DEF WriteSigned, Goto, Finish, LogInv, TypeInv, TypeOK, files,
         services, memory
<1>10. ASSUME NEW p \in Procs, VerifyLoad(p) PROVE LogInv'
  BY <1>10, Sentinels DEF VerifyLoad, CanStart, Goto, LogInv, TypeInv, TypeOK, files,
         services, memory
<1>11. ASSUME NEW p \in Procs, CheckReceipt(p) PROVE LogInv'
  BY <1>11, Sentinels DEF CheckReceipt, Goto, LogInv, TypeInv, TypeOK, files, services,
         memory
<1>12. ASSUME NEW p \in Procs, NEW cosign \in BOOLEAN, CheckProof(p, cosign) PROVE LogInv'
  BY <1>12, Sentinels DEF CheckProof, Goto, LogInv, TypeInv, TypeOK, files, services, memory
<1>13. ASSUME NEW p \in Procs, PrintRow(p) PROVE LogInv'
  BY <1>13, Sentinels DEF PrintRow, Goto, LogInv, TypeInv, TypeOK, files, services, memory
<1>14. ASSUME NEW p \in Procs, NEW facts \in Facts, NEW cosign \in BOOLEAN, PrintCard(p,
       facts, cosign) PROVE LogInv'
  BY <1>14, Sentinels DEF PrintCard, Goto, LogInv, TypeInv, TypeOK, files, services, memory
<1>15. ASSUME NEW p \in Procs, Stop(p) PROVE LogInv'
  BY <1>15, Sentinels DEF Stop, Goto, Finish, LogInv, TypeInv, TypeOK, files, services,
         memory
<1>16. ASSUME NEW p \in Procs, Tear(p) PROVE LogInv'
  BY <1>16, Sentinels DEF Tear, Goto, Finish, LogInv, TypeInv, TypeOK, files, services,
         memory
<1>. QED BY <1>1, <1>2, <1>3, <1>4, <1>5, <1>6, <1>7, <1>8, <1>9, <1>10, <1>11, <1>12,
       <1>13, <1>14, <1>15, <1>16 DEF Next
-----------------------------------------------------------------------------
(* One command at a time. *)

LEMMA SignedGrows == log \subseteq log' => SignedBodies \subseteq SignedBodies'
BY DEF SignedBodies, Ok

LEMMA AloneStep == TypeInv /\ LogInv /\ AloneInv /\ [Next]_vars => AloneInv'
<1> SUFFICES ASSUME TypeInv, LogInv, AloneInv, [Next]_vars PROVE AloneInv'
  OBVIOUS
<1>1. CASE UNCHANGED vars
  <2>1. SignedBodies \subseteq SignedBodies'
    BY <1>1, SignedGrows DEF vars, services
  <2>2. ASSUME alone, NEW q \in Procs PROVE Checked(q)'
    BY <1>1, <2>1, <2>2 DEF vars, files, memory, AloneInv, Checked
  <2>3. UNCHANGED <<alone, pc>>
    BY <1>1 DEF vars
  <2>. QED BY <2>2, <2>3 DEF AloneInv, Single
<1>2. ASSUME NEW p \in Procs, NEW b \in Bodies, Rebuild(p, b) PROVE AloneInv'
  <2>. SUFFICES ASSUME alone' PROVE Single' /\ \A q \in Procs : Checked(q)'
    BY DEF AloneInv
  <2>. alone
    BY <1>2 DEF Rebuild
  <2>1. SignedBodies \subseteq SignedBodies'
    BY <1>2, SignedGrows DEF Rebuild, services
  <2>2. Single' /\ \A q \in Procs : pc[q] = "idle"
    BY <1>2 DEF Rebuild, CanStart, Spend, AloneInv, Single, TypeInv, TypeOK, files,
           services, memory
  <2>3. ASSUME NEW q \in Procs PROVE Checked(q)'
    BY <1>2, <2>1, <2>2, Sentinels DEF Rebuild, CanStart, Spend, AloneInv, Checked, TypeInv,
           TypeOK, files, services, memory
  <2>. QED BY <2>2, <2>3
<1>3. ASSUME NEW p \in Procs, NEW o \in Options, Reproduce(p, o) PROVE AloneInv'
  <2>. SUFFICES ASSUME alone' PROVE Single' /\ \A q \in Procs : Checked(q)'
    BY DEF AloneInv
  <2>. alone
    BY <1>3 DEF Reproduce
  <2>1. SignedBodies \subseteq SignedBodies'
    BY <1>3, SignedGrows DEF Reproduce, services
  <2>2. Single' /\ \A q \in Procs : pc[q] = "idle"
    BY <1>3 DEF Reproduce, CanStart, Spend, Goto, AloneInv, Single, TypeInv, TypeOK, files,
           services, memory
  <2>3. ASSUME NEW q \in Procs PROVE Checked(q)'
    BY <1>3, <2>1, <2>2, Sentinels DEF Reproduce, CanStart, Spend, Goto, AloneInv, Checked,
           TypeInv, TypeOK, files, services, memory
  <2>. QED BY <2>2, <2>3
<1>4. ASSUME NEW p \in Procs, NEW zero \in BOOLEAN, NEW out \in [Artifacts -> {"ignored",
       "same", "other", "absent"}], Rerun(p, zero, out) PROVE AloneInv'
  <2>. SUFFICES ASSUME alone' PROVE Single' /\ \A q \in Procs : Checked(q)'
    BY DEF AloneInv
  <2>. alone
    BY <1>4 DEF Rerun
  <2>1. SignedBodies \subseteq SignedBodies'
    BY <1>4, SignedGrows DEF Rerun, services
  <2>2. Single' /\ \A q \in Procs \ {p} : pc[q] = "idle"
    BY <1>4 DEF Rerun, Goto, AloneInv, Single, TypeInv, TypeOK, files, services, memory
  <2>3. ASSUME NEW q \in Procs PROVE Checked(q)'
    BY <1>4, <2>1, <2>2, Sentinels DEF Rerun, Goto, AloneInv, Checked, TypeInv, TypeOK,
           files, services, memory
  <2>. QED BY <2>2, <2>3
<1>5. ASSUME NEW p \in Procs, WriteReceipt(p) PROVE AloneInv'
  <2>. SUFFICES ASSUME alone' PROVE Single' /\ \A q \in Procs : Checked(q)'
    BY DEF AloneInv
  <2>. alone
    BY <1>5 DEF WriteReceipt
  <2>1. SignedBodies \subseteq SignedBodies'
    BY <1>5, WriteMoves, SignedGrows
  <2>2. Single' /\ \A q \in Procs \ {p} : pc[q] = "idle"
    BY <1>5, WriteMoves DEF AloneInv, Single
  <2>3. ASSUME NEW q \in Procs PROVE Checked(q)'
    BY <1>5, <2>1, <2>2, WriteMoves DEF AloneInv, Checked
  <2>. QED BY <2>2, <2>3
<1>6. ASSUME NEW p \in Procs, StampReceipt(p) PROVE AloneInv'
  <2>. SUFFICES ASSUME alone' PROVE Single' /\ \A q \in Procs : Checked(q)'
    BY DEF AloneInv
  <2>. alone
    BY <1>6 DEF StampReceipt
  <2>1. SignedBodies \subseteq SignedBodies'
    BY <1>6, SignedGrows DEF StampReceipt, services
  <2>2. Single' /\ \A q \in Procs \ {p} : pc[q] = "idle"
    BY <1>6 DEF StampReceipt, Goto, AloneInv, Single, TypeInv, TypeOK, files, services,
           memory
  <2>3. ASSUME NEW q \in Procs PROVE Checked(q)'
    BY <1>6, <2>1, <2>2, Sentinels DEF StampReceipt, Goto, AloneInv, Checked, TypeInv,
           TypeOK, files, services, memory
  <2>. QED BY <2>2, <2>3
<1>7. ASSUME NEW p \in Procs, WriteReceiptProof(p) PROVE AloneInv'
  <2>. SUFFICES ASSUME alone' PROVE Single' /\ \A q \in Procs : Checked(q)'
    BY DEF AloneInv
  <2>. alone
    BY <1>7 DEF WriteReceiptProof
  <2>1. SignedBodies \subseteq SignedBodies'
    BY <1>7, WriteMoves, SignedGrows
  <2>2. Single' /\ \A q \in Procs \ {p} : pc[q] = "idle"
    BY <1>7, WriteMoves DEF AloneInv, Single
  <2>3. ASSUME NEW q \in Procs PROVE Checked(q)'
    BY <1>7, <2>1, <2>2, WriteMoves DEF AloneInv, Checked
  <2>. QED BY <2>2, <2>3
<1>8. ASSUME NEW p \in Procs, SignReceipt(p) PROVE AloneInv'
  <2>. SUFFICES ASSUME alone' PROVE Single' /\ \A q \in Procs : Checked(q)'
    BY DEF AloneInv
  <2>. alone
    BY <1>8 DEF SignReceipt
  <2>1. SignedBodies \subseteq SignedBodies'
    BY <1>8, SignedGrows DEF SignReceipt, services
  <2>2. Single' /\ \A q \in Procs \ {p} : pc[q] = "idle"
    BY <1>8 DEF SignReceipt, Goto, AloneInv, Single, TypeInv, TypeOK, files, services,
           memory
  <2>3. ASSUME NEW q \in Procs PROVE Checked(q)'
    BY <1>8, <2>1, <2>2, Sentinels DEF SignReceipt, Goto, AloneInv, Checked, TypeInv,
           TypeOK, files, services, memory
  <2>. QED BY <2>2, <2>3
<1>9. ASSUME NEW p \in Procs, WriteSigned(p) PROVE AloneInv'
  <2>. SUFFICES ASSUME alone' PROVE Single' /\ \A q \in Procs : Checked(q)'
    BY DEF AloneInv
  <2>. alone
    BY <1>9 DEF WriteSigned
  <2>1. SignedBodies \subseteq SignedBodies'
    BY <1>9, SignedGrows DEF WriteSigned, services
  <2>2. Single' /\ \A q \in Procs \ {p} : pc[q] = "idle"
    BY <1>9 DEF WriteSigned, Goto, Finish, AloneInv, Single, TypeInv, TypeOK, files,
           services, memory
  <2>3. ASSUME NEW q \in Procs PROVE Checked(q)'
    BY <1>9, <2>1, <2>2, Sentinels DEF WriteSigned, Goto, Finish, AloneInv, Checked,
           TypeInv, TypeOK, files, services, memory
  <2>. QED BY <2>2, <2>3
<1>10. ASSUME NEW p \in Procs, VerifyLoad(p) PROVE AloneInv'
  <2>. SUFFICES ASSUME alone' PROVE Single' /\ \A q \in Procs : Checked(q)'
    BY DEF AloneInv
  <2>. alone
    BY <1>10 DEF VerifyLoad
  <2>1. SignedBodies \subseteq SignedBodies'
    BY <1>10, SignedGrows DEF VerifyLoad, services
  <2>2. Single' /\ \A q \in Procs : pc[q] = "idle"
    BY <1>10 DEF VerifyLoad, CanStart, Goto, AloneInv, Single, TypeInv, TypeOK, files,
           services, memory
  <2>3. ASSUME NEW q \in Procs PROVE Checked(q)'
    BY <1>10, <2>1, <2>2, Sentinels DEF VerifyLoad, CanStart, Goto, AloneInv, Checked,
           TypeInv, TypeOK, files, services, memory
  <2>. QED BY <2>2, <2>3
<1>11. ASSUME NEW p \in Procs, CheckReceipt(p) PROVE AloneInv'
  <2>. SUFFICES ASSUME alone' PROVE Single' /\ \A q \in Procs : Checked(q)'
    BY DEF AloneInv
  <2>. alone
    BY <1>11 DEF CheckReceipt
  <2>1. SignedBodies \subseteq SignedBodies'
    BY <1>11, SignedGrows DEF CheckReceipt, services
  <2>2. Single' /\ \A q \in Procs \ {p} : pc[q] = "idle"
    BY <1>11 DEF CheckReceipt, Goto, AloneInv, Single, TypeInv, TypeOK, files, services,
           memory
  <2>3. ASSUME NEW q \in Procs PROVE Checked(q)'
    BY <1>11, <2>1, <2>2, Sentinels DEF CheckReceipt, Goto, AloneInv, Checked, TypeInv,
           TypeOK, files, services, memory
  <2>. QED BY <2>2, <2>3
<1>12. ASSUME NEW p \in Procs, NEW cosign \in BOOLEAN, CheckProof(p, cosign) PROVE AloneInv'
  <2>. SUFFICES ASSUME alone' PROVE Single' /\ \A q \in Procs : Checked(q)'
    BY DEF AloneInv
  <2>. alone
    BY <1>12 DEF CheckProof
  <2>1. SignedBodies \subseteq SignedBodies'
    BY <1>12, SignedGrows DEF CheckProof, services
  <2>2. Single' /\ \A q \in Procs \ {p} : pc[q] = "idle"
    BY <1>12 DEF CheckProof, Goto, AloneInv, Single, TypeInv, TypeOK, files, services,
           memory
  <2>3. ASSUME NEW q \in Procs PROVE Checked(q)'
    BY <1>12, <2>1, <2>2, Sentinels DEF CheckProof, Goto, AloneInv, Checked, TypeInv,
           TypeOK, files, services, memory
  <2>. QED BY <2>2, <2>3
<1>13. ASSUME NEW p \in Procs, PrintRow(p) PROVE AloneInv'
  <2>. SUFFICES ASSUME alone' PROVE Single' /\ \A q \in Procs : Checked(q)'
    BY DEF AloneInv
  <2>. alone
    BY <1>13 DEF PrintRow
  <2>1. SignedBodies \subseteq SignedBodies'
    BY <1>13, SignedGrows DEF PrintRow, services
  <2>2. Single' /\ \A q \in Procs \ {p} : pc[q] = "idle"
    BY <1>13 DEF PrintRow, Goto, AloneInv, Single, TypeInv, TypeOK, files, services, memory
  <2>3. ASSUME NEW q \in Procs PROVE Checked(q)'
    BY <1>13, <2>1, <2>2, Sentinels DEF PrintRow, Goto, AloneInv, Checked, TypeInv, TypeOK,
           files, services, memory
  <2>. QED BY <2>2, <2>3
<1>14. ASSUME NEW p \in Procs, NEW facts \in Facts, NEW cosign \in BOOLEAN, PrintCard(p,
       facts, cosign) PROVE AloneInv'
  <2>. SUFFICES ASSUME alone' PROVE Single' /\ \A q \in Procs : Checked(q)'
    BY DEF AloneInv
  <2>. alone
    BY <1>14 DEF PrintCard
  <2>1. SignedBodies' = SignedBodies
    BY <1>14 DEF PrintCard, services, SignedBodies, Ok
  <2>2. Single' /\ \A q \in Procs \ {p} : pc[q] = "idle"
    BY <1>14 DEF PrintCard, Goto, AloneInv, Single, TypeInv, TypeOK
  <2>3. ASSUME SignatureVerified(receipt, fine[p], cosign) PROVE rec[p] \in SignedBodies
    <3>1. receipt \in File /\ receipt.bundle # None /\ fine[p]
      BY <2>3 DEF SignatureVerified, TypeInv, TypeOK
    <3>2. receipt.payload \in log /\ OfManifest(receipt, rec[p])
      BY <1>14, <3>1 DEF LogInv, AloneInv, Checked, PrintCard
    <3>. QED BY <1>14, <3>2
             DEF SignedBodies, OfManifest, PrintCard, TypeInv, LoadedInv, Loaded
  <2>4. card'[p].body = rec[p] /\ (card'[p].rung = "L3" => rec[p] \in SignedBodies)
    BY <1>14, <2>3 DEF PrintCard, EvaluateLadder, TypeInv, TypeOK
  <2>5. ASSUME NEW q \in Procs PROVE Checked(q)'
    BY <1>14, <2>1, <2>2, <2>4
       DEF PrintCard, Goto, AloneInv, Checked, TypeInv, TypeOK, files
  <2>. QED BY <2>2, <2>5
<1>15. ASSUME NEW p \in Procs, Stop(p) PROVE AloneInv'
  <2>. SUFFICES ASSUME alone' PROVE Single' /\ \A q \in Procs : Checked(q)'
    BY DEF AloneInv
  <2>. alone
    BY <1>15 DEF Stop
  <2>1. SignedBodies \subseteq SignedBodies'
    BY <1>15, SignedGrows DEF Stop, services
  <2>2. Single' /\ \A q \in Procs \ {p} : pc[q] = "idle"
    BY <1>15 DEF Stop, Goto, Finish, AloneInv, Single, TypeInv, TypeOK, files, services,
           memory
  <2>3. ASSUME NEW q \in Procs PROVE Checked(q)'
    BY <1>15, <2>1, <2>2, Sentinels DEF Stop, Goto, Finish, AloneInv, Checked, TypeInv,
           TypeOK, files, services, memory
  <2>. QED BY <2>2, <2>3
<1>16. ASSUME NEW p \in Procs, Tear(p) PROVE AloneInv'
  <2>. SUFFICES ASSUME alone' PROVE Single' /\ \A q \in Procs : Checked(q)'
    BY DEF AloneInv
  <2>. alone
    BY <1>16 DEF Tear
  <2>1. SignedBodies \subseteq SignedBodies'
    BY <1>16, SignedGrows DEF Tear, services
  <2>2. Single' /\ \A q \in Procs \ {p} : pc[q] = "idle"
    BY <1>16 DEF Tear, Goto, Finish, AloneInv, Single, TypeInv, TypeOK, files, services,
           memory
  <2>3. ASSUME NEW q \in Procs PROVE Checked(q)'
    BY <1>16, <2>1, <2>2, Sentinels DEF Tear, Goto, Finish, AloneInv, Checked, TypeInv,
           TypeOK, files, services, memory
  <2>. QED BY <2>2, <2>3
<1>. QED BY <1>1, <1>2, <1>3, <1>4, <1>5, <1>6, <1>7, <1>8, <1>9, <1>10, <1>11, <1>12,
       <1>13, <1>14, <1>15, <1>16 DEF Next
-----------------------------------------------------------------------------
LEMMA IInvInit == Init => IInv
<1> SUFFICES ASSUME Init PROVE IInv
  OBVIOUS
<1>1. TypeInv
  BY TypeInit
<1>2. MadeInv /\ LogInv
  BY Sentinels DEF Init, MadeInv, LogInv, Making
<1>3. RowInv
  BY DEF Init, RowInv, RowOf
<1>4. AloneInv
  BY DEF Init, AloneInv, Single, Checked
<1>. QED BY <1>1, <1>2, <1>3, <1>4 DEF IInv

(* The inductive invariant of Receipt. *)
THEOREM Inductive == Spec => []IInv
<1>1. IInv /\ [Next]_vars => IInv'
  BY TypeStep, MadeStep, RowStep, LogStep, AloneStep DEF IInv
<1>. QED BY IInvInit, <1>1, PTL DEF Spec

(* "byte-identical" is printed for a manifest only if its own command was  *)
(* run again with that result (_bitwise_status).                           *)
THEOREM RowCorrect == Spec => []RowSound
<1>1. IInv => RowSound
  BY DEF IInv, RowInv, RowOf, RowSound, ReproducedBodies
<1>. QED BY Inductive, <1>1, PTL

(* With one command at a time, L3 is printed for a manifest only if a      *)
(* successful receipt of it was signed (evaluate_claims).                  *)
THEOREM RungCorrect == Spec => []L3Signed
<1>1. IInv => L3Signed
  BY DEF IInv, AloneInv, Checked, SignedBodies, L3Signed
<1>. QED BY Inductive, <1>1, PTL

-----------------------------------------------------------------------------
(* One command at a time, for `reproduce`: the manifest it loaded is still *)
(* there, and what it wrote so far is still what it made.                  *)

Held(p) ==
    /\ pc[p] \in {"rerun"} \cup Making => rec[p] = manifest
    /\ pc[p] \in Making => mine[p].body = manifest
    /\ pc[p] \in {"stamp", "write proof", "sign"} =>
          receipt = [payload |-> mine[p], bundle |-> None]
    /\ pc[p] \in {"sign", "write signed"} /\ opts[p].anchor => proof = mine[p]

HeldInv == alone => \A p \in Procs : Held(p)

HeldStart == alone /\ TypeInv /\ AloneInv /\ HeldInv

\* The other invocations are idle and stay so.
LEMMA OthersIdle ==
    ASSUME HeldStart, NEW p \in Procs, pc[p] # "idle" \/ CanStart(p),
           \A q \in Procs \ {p} : pc'[q] = pc[q]
    PROVE  \A q \in Procs \ {p} : Held(q)'
<1>1. \A q \in Procs \ {p} : pc[q] = "idle"
  BY DEF HeldStart, AloneInv, Single, CanStart
<1>. QED BY <1>1 DEF Held, Making

LEMMA MovesHeld ==
    ASSUME HeldStart, NEW p \in Procs, pc[p] # "idle" \/ CanStart(p),
           NEW step, Goto(p, step), Held(p)'
    PROVE  HeldInv'
<1>1. \A q \in Procs \ {p} : pc'[q] = pc[q]
  BY DEF Goto, HeldStart, TypeInv, TypeOK
<1>. QED BY <1>1, OthersIdle DEF HeldInv

LEMMA EndsHeld ==
    ASSUME HeldStart, NEW p \in Procs, pc[p] # "idle", Finish(p)
    PROVE  HeldInv'
<1>1. pc'[p] = "idle"
  BY DEF Finish, Goto, HeldStart, TypeInv, TypeOK
<1>2. Held(p)'
  BY <1>1 DEF Held, Making
<1>. QED BY <1>2, MovesHeld DEF Finish

LEMMA HeldStep == TypeInv /\ AloneInv /\ HeldInv /\ [Next]_vars => HeldInv'
<1> SUFFICES ASSUME TypeInv, AloneInv, HeldInv, [Next]_vars, alone' PROVE HeldInv'
  BY DEF HeldInv
<1>1. alone
  BY DEF Next, vars, Rebuild, Reproduce, Rerun, WriteReceipt, StampReceipt,
     WriteReceiptProof, SignReceipt, WriteSigned, VerifyLoad, CheckReceipt, CheckProof,
     PrintRow, PrintCard, Stop, Tear
<1>2. HeldStart
  BY <1>1 DEF HeldStart
<1>3. ASSUME NEW p \in Procs, NEW step, Goto(p, step) PROVE pc'[p] = step
  BY <1>3 DEF Goto, TypeInv, TypeOK
<1>4. CASE UNCHANGED vars
  BY <1>1, <1>4 DEF vars, files, memory, HeldInv, Held
<1>5. ASSUME NEW p \in Procs, NEW b \in Bodies, Rebuild(p, b) PROVE HeldInv'
  <2>1. \A q \in Procs : pc'[q] = "idle"
    BY <1>1, <1>5 DEF Rebuild, CanStart
  <2>. QED BY <2>1 DEF HeldInv, Held, Making
<1>6. ASSUME NEW p \in Procs, NEW o \in Options, Reproduce(p, o) PROVE HeldInv'
  <2>1. pc'[p] = "rerun" /\ rec'[p] = manifest /\ manifest' = manifest
    BY <1>3, <1>6 DEF Reproduce, files, TypeInv, TypeOK
  <2>2. Held(p)'
    BY <2>1 DEF Held, Making
  <2>. QED BY <1>2, <1>6, <2>2, MovesHeld DEF Reproduce
<1>7. ASSUME NEW p \in Procs, NEW zero \in BOOLEAN,
             NEW out \in [Artifacts -> {"ignored", "same", "other", "absent"}],
             Rerun(p, zero, out)
      PROVE HeldInv'
  <2>1. rec[p] = manifest
    BY <1>1, <1>7 DEF Rerun, HeldInv, Held
  <2>2. pc'[p] = "write" /\ rec' = rec /\ manifest' = manifest /\ mine'[p].body = rec[p]
    BY <1>3, <1>7 DEF Rerun, files, TypeInv, TypeOK
  <2>3. Held(p)'
    BY <2>1, <2>2 DEF Held, Making
  <2>. QED BY <1>2, <1>7, <2>3, MovesHeld DEF Rerun
<1>8. ASSUME NEW p \in Procs, WriteReceipt(p) PROVE HeldInv'
  <2>1. rec[p] = manifest /\ mine[p].body = manifest
    BY <1>1, <1>8 DEF WriteReceipt, HeldInv, Held, Making
  <2>2. receipt' = [payload |-> mine[p], bundle |-> None] /\ manifest' = manifest
    BY <1>8 DEF WriteReceipt
  <2>3. CASE opts[p].anchor /\ Goto(p, "stamp") /\ UNCHANGED memory
    <3>1. pc'[p] = "stamp" /\ rec' = rec /\ mine' = mine
      BY <1>3, <2>3 DEF memory
    <3>2. Held(p)'
      BY <2>1, <2>2, <3>1 DEF Held
    <3>. QED BY <1>2, <1>8, <2>3, <3>2, MovesHeld DEF WriteReceipt
  <2>4. CASE ~opts[p].anchor /\ Goto(p, "sign") /\ UNCHANGED memory
    <3>1. pc'[p] = "sign" /\ rec' = rec /\ mine' = mine /\ opts' = opts
      BY <1>3, <2>4 DEF memory
    <3>2. Held(p)'
      BY <2>1, <2>2, <2>4, <3>1 DEF Held
    <3>. QED BY <1>2, <1>8, <2>4, <3>2, MovesHeld DEF WriteReceipt
  <2>5. CASE Finish(p)
    BY <1>2, <1>8, <2>5, EndsHeld DEF WriteReceipt
  <2>. QED BY <1>8, <2>3, <2>4, <2>5 DEF WriteReceipt, Onward
<1>9. ASSUME NEW p \in Procs, StampReceipt(p) PROVE HeldInv'
  <2>1. /\ rec[p] = manifest /\ mine[p].body = manifest
        /\ receipt = [payload |-> mine[p], bundle |-> None]
    BY <1>1, <1>9 DEF StampReceipt, HeldInv, Held, Making
  <2>2. /\ pc'[p] = "write proof" /\ rec' = rec /\ mine' = mine
        /\ manifest' = manifest /\ receipt' = receipt
    BY <1>3, <1>9 DEF StampReceipt, files, memory
  <2>3. Held(p)'
    BY <2>1, <2>2 DEF Held
  <2>. QED BY <1>2, <1>9, <2>3, MovesHeld DEF StampReceipt
<1>10. ASSUME NEW p \in Procs, WriteReceiptProof(p) PROVE HeldInv'
  <2>1. /\ rec[p] = manifest /\ mine[p].body = manifest
        /\ receipt = [payload |-> mine[p], bundle |-> None]
    BY <1>1, <1>10 DEF WriteReceiptProof, HeldInv, Held, Making
  <2>2. manifest' = manifest /\ receipt' = receipt /\ proof' = mine[p]
    BY <1>10 DEF WriteReceiptProof
  <2>3. CASE Goto(p, "sign") /\ UNCHANGED memory
    <3>1. pc'[p] = "sign" /\ rec' = rec /\ mine' = mine
      BY <1>3, <2>3 DEF memory
    <3>2. Held(p)'
      BY <2>1, <2>2, <3>1 DEF Held
    <3>. QED BY <1>2, <1>10, <2>3, <3>2, MovesHeld DEF WriteReceiptProof
  <2>4. CASE Finish(p)
    BY <1>2, <1>10, <2>4, EndsHeld DEF WriteReceiptProof
  <2>. QED BY <1>10, <2>3, <2>4 DEF WriteReceiptProof, Onward
<1>11. ASSUME NEW p \in Procs, SignReceipt(p) PROVE HeldInv'
  <2>1. /\ rec[p] = manifest /\ mine[p].body = manifest
        /\ opts[p].anchor => proof = mine[p]
    BY <1>1, <1>11 DEF SignReceipt, HeldInv, Held, Making
  <2>2. /\ pc'[p] = "write signed" /\ rec' = rec /\ mine' = mine /\ opts' = opts
        /\ manifest' = manifest /\ proof' = proof
    BY <1>3, <1>11 DEF SignReceipt, files, memory
  <2>3. Held(p)'
    BY <2>1, <2>2 DEF Held
  <2>. QED BY <1>2, <1>11, <2>3, MovesHeld DEF SignReceipt
<1>12. ASSUME NEW p \in Procs, WriteSigned(p) \/ Stop(p) \/ Tear(p) PROVE HeldInv'
  BY <1>2, <1>12, EndsHeld DEF WriteSigned, Stop, Tear
<1>13. ASSUME NEW p \in Procs,
              \/ VerifyLoad(p) \/ CheckReceipt(p) \/ PrintRow(p)
              \/ \E cosign \in BOOLEAN :
                   CheckProof(p, cosign) \/ \E facts \in Facts : PrintCard(p, facts, cosign)
       PROVE HeldInv'
  <2>1. PICK step \in {"check receipt", "check proof", "row", "rung", "printed"} : Goto(p, step)
    BY <1>13 DEF VerifyLoad, CheckReceipt, PrintRow, CheckProof, PrintCard
  <2>2. Held(p)'
    BY <1>3, <2>1 DEF Held, Making
  <2>3. pc[p] # "idle" \/ CanStart(p)
    BY <1>13 DEF VerifyLoad, CheckReceipt, PrintRow, CheckProof, PrintCard
  <2>. QED BY <1>2, <2>1, <2>2, <2>3, MovesHeld
<1>. QED
  BY <1>4, <1>5, <1>6, <1>7, <1>8, <1>9, <1>10, <1>11, <1>12, <1>13 DEF Next

\* A step that ends `reproduce` is its own last write, or a kill.
LEMMA ReturnWrites ==
    ASSUME TypeInv, AloneInv, alone, [Next]_vars, NEW p \in Procs, Returns(p)
    PROVE  \/ WriteReceipt(p) \/ WriteReceiptProof(p) \/ WriteSigned(p)
           \/ Stop(p) \/ Tear(p)
<1>1. pc[p] \in {"write", "write proof", "write signed"} /\ pc'[p] = "idle"
  BY DEF Returns
<1>2. \A q \in Procs \ {p} : pc[q] = "idle" /\ ~CanStart(q)
  BY <1>1 DEF AloneInv, Single, CanStart
<1>3. ~UNCHANGED vars
  BY <1>1 DEF vars
<1>4. ASSUME NEW q \in Procs \ {p} PROVE
        /\ \A b \in Bodies : ~Rebuild(q, b)
        /\ \A o \in Options : ~Reproduce(q, o)
        /\ ~VerifyLoad(q)
  BY <1>2 DEF Rebuild, Reproduce, VerifyLoad
<1>5. ASSUME NEW q \in Procs \ {p} PROVE
        /\ \A zero \in BOOLEAN,
              out \in [Artifacts -> {"ignored", "same", "other", "absent"}] :
              ~Rerun(q, zero, out)
        /\ ~WriteReceipt(q) /\ ~StampReceipt(q) /\ ~WriteReceiptProof(q)
        /\ ~SignReceipt(q) /\ ~WriteSigned(q) /\ ~CheckReceipt(q) /\ ~PrintRow(q)
        /\ \A cosign \in BOOLEAN :
              ~CheckProof(q, cosign) /\ \A facts \in Facts : ~PrintCard(q, facts, cosign)
        /\ ~Stop(q) /\ ~Tear(q)
  BY <1>2 DEF Rerun, WriteReceipt, StampReceipt, WriteReceiptProof, SignReceipt, WriteSigned,
     CheckReceipt, PrintRow, CheckProof, PrintCard, Stop, Tear
<1>6. /\ \A b \in Bodies : ~Rebuild(p, b)
      /\ \A o \in Options : ~Reproduce(p, o)
      /\ \A zero \in BOOLEAN,
            out \in [Artifacts -> {"ignored", "same", "other", "absent"}] :
            ~Rerun(p, zero, out)
      /\ ~StampReceipt(p) /\ ~SignReceipt(p)
      /\ ~VerifyLoad(p) /\ ~CheckReceipt(p) /\ ~PrintRow(p)
      /\ \A cosign \in BOOLEAN :
            ~CheckProof(p, cosign) /\ \A facts \in Facts : ~PrintCard(p, facts, cosign)
  BY <1>1 DEF Rebuild, Reproduce, CanStart, Rerun, StampReceipt, SignReceipt, VerifyLoad,
     CheckReceipt, PrintRow, CheckProof, PrintCard
<1>. QED BY <1>3, <1>4, <1>5, <1>6 DEF Next

(* One command at a time, when `reproduce` returns 0, verify_receipt finds *)
(* no problem in the files it left: the manifest it loaded is still there, *)
(* the proof it wrote commits to the receipt, and signing changes no byte  *)
(* that the proof covers.  A proof of an earlier receipt that was not      *)
(* asked to be renewed is the one exception, as is a killed command.       *)
THEOREM ReproduceCorrect == Spec => ReproduceVerifies
<1> DEFINE Verified ==
      \A p \in Procs : alone /\ Returns(p) =>
          \/ ReceiptOK'
          \/ ~opts[p].anchor /\ proof # NoFile
          \/ Stop(p) \/ Tear(p)
<1>1. ASSUME IInv, HeldInv, [Next]_vars, NEW p \in Procs, alone, Returns(p),
             opts[p].anchor \/ proof = NoFile, ~Stop(p), ~Tear(p)
      PROVE  ReceiptOK'
  <2>1. WriteReceipt(p) \/ WriteReceiptProof(p) \/ WriteSigned(p)
    BY <1>1, ReturnWrites DEF IInv
  <2>2. pc[p] \in Making /\ Ok(mine[p]) /\ pc'[p] = "idle" /\ mine[p] \in Payload
    BY <1>1 DEF Returns, Making, IInv, TypeInv, LoadedInv, Loaded
  <2>3. mine[p].body = manifest
    BY <1>1, <2>2 DEF HeldInv, Held
  <2>4. ASSUME NEW bundle, receipt' = [payload |-> mine[p], bundle |-> bundle],
               manifest' = manifest, proof' \in {mine[p], NoFile},
               bundle # None => bundle = mine[p] /\ mine[p] \in log'
        PROVE  ReceiptOK'
    <3>1. receipt'.payload = mine[p] /\ receipt'.bundle = bundle
      BY <2>4
    <3>2. OfManifest(receipt, manifest)'
      BY <2>2, <2>3, <2>4, <3>1 DEF OfManifest
    <3>3. ProofOK(receipt, proof)'
      BY <2>4, <3>1 DEF ProofOK, ReceiptHash
    <3>4. BundleOK(receipt, TRUE)'
      BY <2>4, <3>1 DEF BundleOK
    <3>. QED BY <3>2, <3>3, <3>4 DEF ReceiptOK
  <2>5. CASE WriteReceipt(p)
    <3>1. ~opts[p].anchor
      <4>1. opts[p].anchor => Goto(p, "stamp")
        BY <2>5, Zenon DEF WriteReceipt
      <4>2. Goto(p, "stamp") => pc'[p] = "stamp"
        BY <1>1 DEF Goto, IInv, TypeInv, TypeOK
      <4>. QED BY <2>2, <4>1, <4>2
    <3>2. proof' = NoFile /\ manifest' = manifest
      BY <1>1, <2>5, <3>1 DEF WriteReceipt
    <3>. QED BY <2>4, <2>5, <3>2 DEF WriteReceipt
  <2>6. CASE WriteReceiptProof(p)
    <3>1. receipt = [payload |-> mine[p], bundle |-> None]
      BY <1>1, <2>6 DEF WriteReceiptProof, HeldInv, Held
    <3>2. receipt' = receipt /\ manifest' = manifest /\ proof' = mine[p]
      BY <2>6 DEF WriteReceiptProof
    <3>. QED BY <2>4, <3>1, <3>2
  <2>7. CASE WriteSigned(p)
    <3>1. (opts[p].anchor => proof = mine[p]) /\ mine[p] \in log
      BY <1>1, <2>7 DEF WriteSigned, HeldInv, Held, IInv, LogInv
    <3>2. /\ receipt' = [payload |-> mine[p], bundle |-> mine[p]]
          /\ manifest' = manifest /\ proof' = proof /\ log' = log
      BY <2>7 DEF WriteSigned, services
    <3>. QED BY <1>1, <2>4, <3>1, <3>2
  <2>. QED BY <2>1, <2>5, <2>6, <2>7
<1>2. IInv /\ HeldInv /\ [Next]_vars => [Verified]_vars
  BY <1>1
<1>3. Init => HeldInv
  BY DEF Init, HeldInv, Held, Making
<1>4. IInv /\ HeldInv /\ [Next]_vars => HeldInv'
  BY HeldStep DEF IInv
<1>5. Spec => [][Verified]_vars
  BY <1>2, <1>3, <1>4, Inductive, PTL DEF Spec
<1>. QED BY <1>5 DEF ReproduceVerifies
=============================================================================
