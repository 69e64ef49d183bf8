------------------------------ MODULE MCTwinV2 ------------------------------
(***************************************************************************)
(* Model-checking instance of the v2 run over the config files of          *)
(* MCTwinConfigs.                                                          *)
(***************************************************************************)
EXTENDS TwinIndexV2, MCTwinConfigs

MCMostConnectedLimitV2 == 3

\* .keboola/project.json absent, with a project id, and without one.
MCProjectFiles == {None, [project |-> [id |-> "1234"]], [project |-> <<>>]}
=============================================================================
