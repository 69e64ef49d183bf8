------------------------------- MODULE MCTwin -------------------------------
(***************************************************************************)
(* Model-checking instance of the v3 registry and index builder over the   *)
(* config files of MCTwinConfigs.                                          *)
(***************************************************************************)
EXTENDS TwinIndex, MCTwinConfigs

\* Long enough for the cut to drop connected nodes.
MCMostConnectedLimit == 3
=============================================================================
