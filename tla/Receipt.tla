------------------------------- MODULE Receipt -------------------------------
(***************************************************************************)
(* The reproduction receipt of a run and what `verify` makes of it:        *)
(* `reproduce [--anchor] [--sign]`, a rebuilt manifest, and the bitwise    *)
(* row and the ladder of the claim card.                                   *)
(*                                                                         *)
(* `reproduce` loads the manifest, runs its command for as long as that    *)
(* takes, writes reproduction.json, has a calendar stamp its hash in       *)
(* reproduction.ots, has cosign sign the same bytes and writes the receipt *)
(* again with the bundle in it.  `verify` reads reproduction.json three    *)
(* times: for its problems, for the bitwise row and for the L3 rung.       *)
(*                                                                         *)
(* A manifest body stands for its content hash and a receipt without its   *)
(* bundle for its own (receipt_payload).  What the other checks of the     *)
(* card find (RunRecord, SeedPlan) is an input here.  A bundle on disk     *)
(* comes from cosign: the timeout of cosign verify-blob and a bundle made  *)
(* by hand are left out.                                                   *)
(***************************************************************************)
EXTENDS Naturals

CONSTANTS
    Procs,        \* farm-notary invocations that may run side by side
    Bodies,       \* manifest bodies, each recording a command
    Artifacts,    \* the files every body lists
    MaxCommands,  \* bound on the invocations that write files
    None, NoFile, Torn

\* reproduction.json without its bundle; artifacts in neither set were ignored.
Payload == [body : Bodies, created : Nat, zero : BOOLEAN,
            matched : SUBSET Artifacts, mismatched : SUBSET Artifacts,
            missing : SUBSET Artifacts]

File == [payload : Payload, bundle : Payload \cup {None}]

Options == [anchor : BOOLEAN, sign : BOOLEAN]

Rows == {"missing", "fail", "differs", "identical"}
Levels == {"none", "L0", "L1", "L2", "L3"}

\* The card of one verify.
Card == [body : Bodies, row : Rows, rung : Levels, exit0 : BOOLEAN]

\* What the checks of the lower rungs find, and `others`, those of no rung: the plan's
\* row, ci_provenance.
Facts == [tamper : BOOLEAN, height : BOOLEAN, inputs : BOOLEAN, beacon : BOOLEAN,
          others : BOOLEAN]

Steps == {"idle", "rerun", "write", "stamp", "write proof", "sign", "write signed",
          "check receipt", "check proof", "row", "rung", "printed"}

ASSUME ConstantsOK == MaxCommands \in Nat

ASSUME Sentinels ==
    /\ None \notin Payload /\ None \notin File /\ None \notin Card
    /\ None \notin Bodies /\ None \notin Options
    /\ {NoFile, Torn} \cap (File \cup Payload) = {}
    /\ NoFile # Torn

VARIABLES
    manifest,  \* the body of manifest.json
    receipt,   \* reproduction.json
    proof,     \* reproduction.ots: the receipt it commits to
    held,      \* receipts a calendar accepted
    log,       \* receipts signed, as Rekor has them
    made,      \* receipts of commands that really were run again
    clock,     \* created_utc of the next receipt
    alone,     \* the operator runs one command at a time
    pc,        \* the step each invocation is about to take
    rec,       \* the manifest it holds in memory
    opts,      \* its options
    mine,      \* the receipt it made
    seen,      \* the receipt it read
    fine,      \* verify_receipt found no problem
    row,       \* the bitwise row
    card,      \* the card it printed
    budget     \* writing invocations left

files == <<manifest, receipt, proof>>
services == <<held, log>>
memory == <<rec, opts, mine, seen, fine, row, card>>
vars == <<files, services, made, clock, alone, pc, memory, budget>>

Init ==
    /\ manifest \in Bodies
    /\ receipt = NoFile /\ proof = NoFile
    /\ held = {} /\ log = {} /\ made = {}
    /\ clock = 0
    /\ alone \in BOOLEAN
    /\ pc = [p \in Procs |-> "idle"]
    /\ rec = [p \in Procs |-> None]
    /\ opts = [p \in Procs |-> None]
    /\ mine = [p \in Procs |-> None]
    /\ seen = [p \in Procs |-> None]
    /\ fine = [p \in Procs |-> FALSE]
    /\ row = [p \in Procs |-> "missing"]
    /\ card = [p \in Procs |-> None]
    /\ budget = MaxCommands
-----------------------------------------------------------------------------
(* Starting, moving and ending an invocation. *)

CanStart(p) ==
    /\ pc[p] = "idle"
    /\ alone => \A q \in Procs : pc[q] = "idle"

Spend == budget > 0 /\ budget' = budget - 1

Goto(p, step) == pc' = [pc EXCEPT ![p] = step]

Finish(p) ==
    /\ Goto(p, "idle")
    /\ rec' = [rec EXCEPT ![p] = None]
    /\ opts' = [opts EXCEPT ![p] = None]
    /\ mine' = [mine EXCEPT ![p] = None]
    /\ seen' = [seen EXCEPT ![p] = None]
    /\ fine' = [fine EXCEPT ![p] = FALSE]
    /\ row' = [row EXCEPT ![p] = "missing"]
    /\ card' = [card EXCEPT ![p] = None]

\* The manifest is built again; RunRecord has the steps of this.
Rebuild(p, b) ==
    /\ CanStart(p) /\ Spend
    /\ manifest' = b
    /\ UNCHANGED <<receipt, proof, services, made, clock, alone, pc, memory>>
-----------------------------------------------------------------------------
(* `reproduce`. *)

Ok(r) == r.zero /\ r.mismatched = {} /\ r.missing = {}

Compared(r) == r.matched \cup r.mismatched \cup r.missing

Reproduce(p, o) ==
    /\ CanStart(p) /\ Spend
    /\ rec' = [rec EXCEPT ![p] = manifest]
    /\ opts' = [opts EXCEPT ![p] = o]
    /\ Goto(p, "rerun")
    /\ UNCHANGED <<files, services, made, clock, alone, mine, seen, fine, row, card>>

\* Mutant: a command that cannot be run is written down all the same.
RerunAborted(p, zero, out) ==
    /\ pc[p] = "rerun"
    /\ Goto(p, "write")
    /\ UNCHANGED <<files, services, made, clock, alone, memory, budget>>

\* The command runs; each artifact is ignored, the same, another or absent.
Rerun(p, zero, out) ==
    /\ pc[p] = "rerun"
    /\ mine' = [mine EXCEPT ![p] =
           [body |-> rec[p], created |-> clock, zero |-> zero,
            matched |-> {a \in Artifacts : out[a] = "same"},
            mismatched |-> {a \in Artifacts : out[a] = "other"},
            missing |-> {a \in Artifacts : out[a] = "absent"}]]
    /\ made' = made \cup {mine'[p]}
    /\ clock' = clock + 1
    /\ Goto(p, "write")
    /\ UNCHANGED <<files, services, alone, rec, opts, seen, fine, row, card, budget>>

\* After writing the receipt, and after anchoring it.
Onward(p) == IF opts[p].sign /\ Ok(mine[p]) THEN Goto(p, "sign") /\ UNCHANGED memory
             ELSE Finish(p)

WriteReceipt(p) ==
    /\ pc[p] = "write"
    /\ receipt' = [payload |-> mine[p], bundle |-> None]
    /\ IF opts[p].anchor THEN Goto(p, "stamp") /\ UNCHANGED memory ELSE Onward(p)
    /\ UNCHANGED <<manifest, proof, services, made, clock, alone, budget>>

\* Mutant: the bundle is hashed too.
ReceiptHashWithBundle(f) == IF f.bundle = None THEN f.payload ELSE f

\* receipt_hash: the "sigstore" field is left out.
ReceiptHash(f) == f.payload

StampReceipt(p) ==
    /\ pc[p] = "stamp"
    /\ held' = held \cup {mine[p]}
    /\ Goto(p, "write proof")
    /\ UNCHANGED <<files, log, made, clock, alone, memory, budget>>

WriteReceiptProof(p) ==
    /\ pc[p] = "write proof"
    /\ proof' = mine[p]
    /\ Onward(p)
    /\ UNCHANGED <<manifest, receipt, services, made, clock, alone, budget>>

SignReceipt(p) ==
    /\ pc[p] = "sign"
    /\ log' = log \cup {mine[p]}
    /\ Goto(p, "write signed")
    /\ UNCHANGED <<files, held, made, clock, alone, memory, budget>>

WriteSigned(p) ==
    /\ pc[p] = "write signed"
    /\ receipt' = [payload |-> mine[p], bundle |-> mine[p]]
    /\ Finish(p)
    /\ UNCHANGED <<manifest, proof, services, made, clock, alone, budget>>
-----------------------------------------------------------------------------
(* `verify`. *)

VerifyLoad(p) ==
    /\ CanStart(p)
    /\ rec' = [rec EXCEPT ![p] = manifest]
    /\ Goto(p, "check receipt")
    /\ UNCHANGED <<files, services, made, clock, alone, opts, mine, seen, fine, row, card,
                   budget>>

\* verify_receipt, first half: the receipt is of this manifest and succeeded.
OfManifest(f, b) == f.payload.body = b /\ Ok(f.payload)

\* Without a receipt there is no problem, with a torn one there is.
CheckReceipt(p) ==
    /\ pc[p] = "check receipt"
    /\ seen' = [seen EXCEPT ![p] = receipt]
    /\ fine' = [fine EXCEPT ![p] =
           IF receipt \in {NoFile, Torn} THEN receipt = NoFile ELSE OfManifest(receipt, rec[p])]
    /\ Goto(p, IF receipt \in {NoFile, Torn} THEN "row" ELSE "check proof")
    /\ UNCHANGED <<files, services, made, clock, alone, rec, opts, mine, row, card, budget>>

\* A torn proof parses as nothing.
ProofOK(f, ots) == ots # NoFile => ots = ReceiptHash(f)

\* cosign verify-blob; without cosign a bundle is only noted.
BundleOK(f, cosign) ==
    cosign /\ f.bundle # None => f.bundle = f.payload /\ f.bundle \in log

\* verify_receipt, second half.
CheckProof(p, cosign) ==
    /\ pc[p] = "check proof"
    /\ fine' = [fine EXCEPT ![p] =
           fine[p] /\ ProofOK(seen[p], proof) /\ BundleOK(seen[p], cosign)]
    /\ Goto(p, "row")
    /\ UNCHANGED <<files, services, made, clock, alone, rec, opts, mine, seen, row, card,
                   budget>>

\* Mutant: the row is computed from any receipt.
BitwiseRowOfAny(f, b, ok) ==
    CASE f = NoFile -> "missing"
      [] f = Torn -> "fail"
      [] OTHER -> IF Compared(f.payload) = {} THEN "missing"
                  ELSE IF ok /\ Ok(f.payload) THEN "identical" ELSE "differs"

BitwiseRow(f, b, ok) ==
    CASE f = NoFile -> "missing"
      [] f = Torn -> "fail"
      [] OTHER -> IF f.payload.body # b THEN "fail"
                  ELSE IF Compared(f.payload) = {} THEN "missing"
                  ELSE IF ok /\ Ok(f.payload) THEN "identical" ELSE "differs"

PrintRow(p) ==
    /\ pc[p] = "row"
    /\ row' = [row EXCEPT ![p] = BitwiseRow(receipt, rec[p], fine[p])]
    /\ Goto(p, "rung")
    /\ UNCHANGED <<files, services, made, clock, alone, rec, opts, mine, seen, fine, card,
                   budget>>

\* Mutant: other problems of the receipt do not matter.
SignatureCounts(f, ok, cosign) == f \notin {NoFile, Torn} /\ f.bundle # None /\ cosign

\* The bundle is that of a third read, the problems are those of the first.
SignatureVerified(f, ok, cosign) ==
    f \notin {NoFile, Torn} /\ f.bundle # None /\ cosign /\ ok

EvaluateLadder(facts, signed) ==
    CASE ~(facts.tamper /\ facts.height) -> "none"
      [] facts.tamper /\ facts.height /\ ~facts.inputs -> "L0"
      [] facts.tamper /\ facts.height /\ facts.inputs /\ ~facts.beacon -> "L1"
      [] OTHER -> IF signed THEN "L3" ELSE "L2"

PrintCard(p, facts, cosign) ==
    /\ pc[p] = "rung"
    /\ card' = [card EXCEPT ![p] =
           [body |-> rec[p],
            row |-> row[p],
            rung |-> EvaluateLadder(facts, SignatureVerified(receipt, fine[p], cosign)),
            exit0 |-> fine[p] /\ facts.tamper /\ facts.others]]
    /\ Goto(p, "printed")
    /\ UNCHANGED <<files, services, made, clock, alone, rec, opts, mine, seen, fine, row,
                   budget>>
-----------------------------------------------------------------------------
\* The end of verify; refusal, a command that cannot be run, no calendar, no signature, a kill.
Stop(p) ==
    /\ pc[p] # "idle"
    /\ Finish(p)
    /\ UNCHANGED <<files, services, made, clock, alone, budget>>

\* A kill in the middle of a write.
Tear(p) ==
    /\ \/ pc[p] \in {"write", "write signed"} /\ receipt' = Torn /\ UNCHANGED proof
       \/ pc[p] = "write proof" /\ proof' = Torn /\ UNCHANGED receipt
    /\ Finish(p)
    /\ UNCHANGED <<manifest, services, made, clock, alone, budget>>

Next ==
    \E p \in Procs :
      \/ \E b \in Bodies : Rebuild(p, b)
      \/ \E o \in Options : Reproduce(p, o)
      \/ \E zero \in BOOLEAN, out \in [Artifacts -> {"ignored", "same", "other", "absent"}] :
           Rerun(p, zero, out)
      \/ WriteReceipt(p) \/ StampReceipt(p) \/ WriteReceiptProof(p)
      \/ SignReceipt(p) \/ WriteSigned(p)
      \/ VerifyLoad(p) \/ CheckReceipt(p) \/ PrintRow(p)
      \/ \E cosign \in BOOLEAN :
           CheckProof(p, cosign) \/ \E facts \in Facts : PrintCard(p, facts, cosign)
      \/ Stop(p) \/ Tear(p)

Spec == Init /\ [][Next]_vars
-----------------------------------------------------------------------------
(* Every variable has its type. *)
TypeOK ==
    /\ manifest \in Bodies
    /\ receipt \in File \cup {NoFile, Torn}
    /\ proof \in Payload \cup {NoFile, Torn}
    /\ held \subseteq Payload /\ log \subseteq Payload /\ made \subseteq Payload
    /\ clock \in Nat
    /\ alone \in BOOLEAN
    /\ pc \in [Procs -> Steps]
    /\ rec \in [Procs -> Bodies \cup {None}]
    /\ opts \in [Procs -> Options \cup {None}]
    /\ mine \in [Procs -> Payload \cup {None}]
    /\ seen \in [Procs -> File \cup {NoFile, Torn, None}]
    /\ fine \in [Procs -> BOOLEAN]
    /\ row \in [Procs -> Rows]
    /\ card \in [Procs -> Card \cup {None}]
    /\ budget \in Nat

\* The command of body b was run again, exited 0 and gave every artifact that
\* was compared, at least one.
Reproduced(b) ==
    \E r \in made : /\ r.body = b
                    /\ r.zero /\ r.mismatched = {} /\ r.missing = {}
                    /\ r.matched # {}

(* "byte-identical" is printed for a manifest only if its own command was  *)
(* run again with that result, however receipts and manifests are replaced *)
(* while verify reads them (_bitwise_status).                              *)
RowSound ==
    \A p \in Procs : card[p] # None =>
        (card[p].row = "identical" => Reproduced(card[p].body))

(* With one command at a time, L3 is printed for a manifest only if a      *)
(* successful receipt of this very manifest was signed, whatever receipt   *)
(* an earlier or interrupted command left (docs/CLAIMS.md row L3).         *)
L3Signed ==
    \A p \in Procs : alone /\ card[p] # None =>
        (card[p].rung = "L3" => \E r \in log : r.body = card[p].body /\ Ok(r))

(* What ReproduceVerifies says of the directory.                           *)
ReceiptOK ==
    receipt \in File =>
        /\ OfManifest(receipt, manifest)
        /\ ProofOK(receipt, proof)
        /\ BundleOK(receipt, TRUE)

\* `reproduce` is about to return 0.
Returns(p) ==
    pc[p] \in {"write", "write proof", "write signed"} /\ Ok(mine[p]) /\ pc'[p] = "idle"

(* With one command at a time, when `reproduce` returns 0, verify_receipt  *)
(* finds no problem in what it left: signing does not spoil the stamp.  A  *)
(* reproduction.ots of an earlier receipt, which `reproduce` without       *)
(* --anchor leaves, is the one exception, as is a killed command.          *)
ReproduceVerifies ==
    [][\A p \in Procs : alone /\ Returns(p) =>
          \/ ReceiptOK'
          \/ ~opts[p].anchor /\ proof # NoFile
          \/ Stop(p) \/ Tear(p)]_vars

=============================================================================
