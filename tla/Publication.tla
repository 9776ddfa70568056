---------------------------- MODULE Publication ----------------------------
(***************************************************************************)
(* What is done with finished runs: campaigns and the registry, chains,    *)
(* deposits, and the files that were withheld.                             *)
(*                                                                         *)
(* The run directories are read by all and written by none, and no command *)
(* reads what another writes but `index`, which reads campaign.json: none  *)
(* of the rest can enable or change a step of another.  Each behaviour is  *)
(* of one `scene`; what the scene has no part in starts in one state and   *)
(* stays there.  "index" has `campaign` in it too.                         *)
(***************************************************************************)
EXTENDS Registry, Chain, Archive, Withheld

Scenes == {"sweep", "index", "chain", "archive", "withheld"}

VARIABLE scene

vars == <<scene, runVars, commands, campaignVars, registryVars, chainVars, archiveVars,
          withheldVars>>

Init ==
    /\ scene \in Scenes
    /\ RunInit /\ CampaignInit /\ RegistryInit /\ ChainInit /\ ArchiveInit /\ WithheldInit
    /\ scene # "withheld" => dir = (CHOOSE d \in Starts : TRUE) /\ still
    /\ scene = "withheld" => files = (CHOOSE f \in Layouts : TRUE) /\ calm

Sweeping == /\ scene = "sweep" /\ CampaignNext
            /\ UNCHANGED <<scene, registryVars, chainVars, archiveVars, withheldVars>>

Indexing == /\ scene = "index" /\ RegistryNext
            /\ UNCHANGED <<scene, chainVars, archiveVars, withheldVars>>

Chaining == /\ scene = "chain" /\ ChainNext
            /\ UNCHANGED <<scene, campaignVars, registryVars, archiveVars, withheldVars>>

Depositing == /\ scene = "archive" /\ ArchiveNext
              /\ UNCHANGED <<scene, campaignVars, registryVars, chainVars, withheldVars>>

Withholding == /\ scene = "withheld" /\ WithheldNext
               /\ UNCHANGED <<scene, runVars, commands, campaignVars, registryVars, chainVars,
                              archiveVars>>

Next == Sweeping \/ Indexing \/ Chaining \/ Depositing \/ Withholding

Spec == Init /\ [][Next]_vars

\* Every file and every local variable of the four parts has its type.
PublicationTypeOK == RegistryTypeOK /\ ChainTypeOK /\ ArchiveTypeOK /\ WithheldTypeOK
=============================================================================
