---------------------------- MODULE MCJobHistory ----------------------------
(***************************************************************************)
(* Instances of JobHistory for TLC.                                        *)
(***************************************************************************)
EXTENDS JobHistory, TLC

AllOps     == {"Refresh", "PatchApply", "SelfUpdate"}
InstallOps == {"Install"}

AllErrors == {"write", "remove", "read"}
NoErrors  == {}

=============================================================================
