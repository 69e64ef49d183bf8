------------------------------ MODULE MCTwinV1 ------------------------------
(***************************************************************************)
(* Model-checking instance of the v1 transformer over the config files of  *)
(* MCTwinConfigs.                                                          *)
(***************************************************************************)
EXTENDS TwinV1, MCTwinConfigs
=============================================================================
