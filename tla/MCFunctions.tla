---------------------------- MODULE MCFunctions ----------------------------
(***************************************************************************)
(* Stateless over the inputs that the MC module of each part enumerates.   *)
(***************************************************************************)
EXTENDS Stateless

Opening     == INSTANCE MCImageDir WITH MaxListed <- 3
Verifying   == INSTANCE MCVerifyEngine WITH MaxReferrers <- 3
Authorising == INSTANCE MCCredentials
Building    == INSTANCE MCSpecBuild
Attesting   == INSTANCE MCAttestation

MCDirectories    == Opening!MCDirectories
MCCommands       == Authorising!MCCommands
MCSpecFiles      == Building!MCSpecFiles
MCDisk           == Building!MCDisk
MCListings       == Verifying!MCListings
MCPrimary        == Verifying!MCPrimary
MCPolicies       == Verifying!MCPolicies
MCWeakPolicies   == Verifying!MCWeakPolicies
MCAttestations   == Attesting!MCAttestations
=============================================================================
