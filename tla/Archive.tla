------------------------------ MODULE Archive ------------------------------
(***************************************************************************)
(* `archive --zenodo`: a deposit is created under the hash of the loaded   *)
(* manifest, files of the run directory are uploaded one request at a      *)
(* time, each read as it is then, and the deposit is published if asked.   *)
(* A request may fail, or be carried out and its answer lost: both end the *)
(* command, and the next one starts over with another deposit.             *)
(*                                                                         *)
(* The server is modelled from the requests deposit_manifest makes of it.  *)
(* Token, creator and the refusal of paths outside the run directory come  *)
(* before the first request and change nothing.                            *)
(***************************************************************************)
EXTENDS RunDirs

CONSTANTS
    FileLists,    \* the --zenodo-files lists; <<>> where there is none
    MaxDeposits   \* bound on the deposits of the account

\* What an uploaded file holds: a manifest with that body, or the artifacts of it.
Upload == [name : {"manifest.json", "artifacts"}, of : Bodies \cup {Torn}]

\* `asked` is history: the files of the request that made the deposit.
Deposit == [title : Bodies, uploads : Seq(Upload), public : BOOLEAN,
            asked : Seq({"manifest.json", "artifacts"})]

ArchiveSteps == {"idle", "create", "upload", "publish", "printed"}

ASSUME FileListsOK ==
    FileLists \subseteq Seq({"manifest.json", "artifacts"}) /\ MaxDeposits \in Nat

VARIABLES
    deposits,   \* the deposits of the account
    apc,        \* the step the command is about to take
    run,        \* its run directory
    loaded,     \* the body of the manifest it loaded
    wanted,     \* the files it uploads
    publish,    \* --zenodo-publish
    sent        \* how many uploads were answered

order == <<run, loaded, wanted, publish, sent>>
archiveVars == <<deposits, apc, order>>

NoOrder == /\ run' = None /\ loaded' = None /\ wanted' = <<>>
           /\ publish' = FALSE /\ sent' = 0

ArchiveInit ==
    /\ deposits = <<>> /\ apc = "idle"
    /\ run = None /\ loaded = None /\ wanted = <<>> /\ publish = FALSE /\ sent = 0
-----------------------------------------------------------------------------
\* manifest.json goes first unless the list has it.
UploadList(fs) ==
    IF \E i \in DOMAIN fs : fs[i] = "manifest.json" THEN fs
    ELSE <<"manifest.json">> \o fs

Archive(d, fs, pub) ==
    /\ apc = "idle" /\ Spend /\ Len(deposits) < MaxDeposits
    /\ manifest[d] \in Record
    /\ run' = d
    /\ loaded' = manifest[d].body
    /\ wanted' = UploadList(fs)
    /\ publish' = pub
    /\ apc' = "create"
    /\ UNCHANGED <<runVars, deposits, sent>>

\* The command goes on, n uploads done, when the request was answered; else it ends.
Answered(next, n) ==
    \/ apc' = next /\ sent' = n /\ UNCHANGED <<run, loaded, wanted, publish>>
    \/ apc' = "idle" /\ NoOrder

CreateDeposit ==
    /\ apc = "create"
    /\ deposits' = Append(deposits, [title |-> loaded, uploads |-> <<>>, public |-> FALSE,
                                     asked |-> wanted])
    /\ Answered("upload", sent)
    /\ UNCHANGED <<runVars, commands>>

\* What the file to be uploaded holds now; a missing one ends the command.
Content(d, name) ==
    IF name = "artifacts" THEN files[d]
    ELSE IF manifest[d] = Torn THEN Torn ELSE manifest[d].body

\* Mutant: an upload that failed is passed over.
UploadFileOrSkip ==
    LET name == wanted[sent + 1] IN
    /\ apc = "upload" /\ sent < Len(wanted)
    /\ IF name = "manifest.json" /\ manifest[run] = NoFile
       THEN UNCHANGED deposits
       ELSE deposits' = [deposits EXCEPT ![Len(deposits)].uploads =
                            Append(@, [name |-> name, of |-> Content(run, name)])]
    /\ Answered("upload", sent + 1)
    /\ UNCHANGED <<runVars, commands>>

UploadFile ==
    LET name == wanted[sent + 1] IN
    /\ apc = "upload" /\ sent < Len(wanted)
    /\ name = "manifest.json" => manifest[run] # NoFile
    /\ deposits' = [deposits EXCEPT ![Len(deposits)].uploads =
                       Append(@, [name |-> name, of |-> Content(run, name)])]
    /\ Answered("upload", sent + 1)
    /\ UNCHANGED <<runVars, commands>>

\* All files are there.
EndUpload ==
    /\ apc = "upload" /\ sent = Len(wanted)
    /\ apc' = IF publish THEN "publish" ELSE "printed"
    /\ UNCHANGED <<runVars, commands, deposits, order>>

PublishDeposit ==
    /\ apc = "publish"
    /\ deposits' = [deposits EXCEPT ![Len(deposits)].public = TRUE]
    /\ Answered("printed", sent)
    /\ UNCHANGED <<runVars, commands>>

\* The command ends: with its report, a request that failed, or killed.
EndArchive ==
    /\ apc # "idle"
    /\ apc' = "idle" /\ NoOrder
    /\ UNCHANGED <<runVars, commands, deposits>>

\* Stamps and receipts are nothing to it, and what the artifacts hold is not told
\* apart below.
ArchiveOwner ==
    /\ calm => apc = "idle"
    /\ \E d \in Dirs :
         \/ \E b \in Bodies : Rebuild(d, b)
         \/ \E lost \in {NoFile, Torn} : Spoil(d, lost)
    /\ UNCHANGED <<commands, archiveVars>>

ArchiveCommand ==
    \/ \E d \in Dirs, fs \in FileLists, pub \in BOOLEAN : Archive(d, fs, pub)
    \/ CreateDeposit \/ UploadFile \/ EndUpload \/ PublishDeposit \/ EndArchive

ArchiveNext == ArchiveOwner \/ ArchiveCommand

ArchiveSpec ==
    RunInit /\ ArchiveInit /\ [][ArchiveNext]_<<runVars, commands, archiveVars>>
-----------------------------------------------------------------------------
ArchiveTypeOK ==
    /\ RunTypeOK
    /\ deposits \in Seq(Deposit)
    /\ apc \in ArchiveSteps
    /\ run \in Dirs \cup {None}
    /\ loaded \in Bodies \cup {None}
    /\ wanted \in Seq({"manifest.json", "artifacts"})
    /\ publish \in BOOLEAN
    /\ sent \in Nat

\* However many requests fail or lose their answer, a deposit that is public has the
\* manifest and every file that was asked for; and the manifest is that of the title
\* where the directory was left alone meanwhile (archive.py:244-290).
DepositWhole ==
    \A i \in DOMAIN deposits :
      LET uploads == deposits[i].uploads IN
      /\ deposits[i].public =>
           /\ [k \in DOMAIN uploads |-> uploads[k].name] = deposits[i].asked
           /\ \E k \in DOMAIN uploads : uploads[k].name = "manifest.json"
      /\ calm => \A k \in DOMAIN uploads :
           uploads[k].name = "manifest.json" => uploads[k].of = deposits[i].title
=============================================================================
