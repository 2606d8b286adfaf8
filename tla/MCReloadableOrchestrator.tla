------------------------ MODULE MCReloadableOrchestrator ------------------------
(* Values for ReloadableOrchestrator. *)
EXTENDS ReloadableOrchestrator

RecordsSent == <<2, 1>>

CarefulEnvironment  == Assumptions
ConnectsInReload    == Assumptions \ {"noConnectInReload"}
=============================================================================
