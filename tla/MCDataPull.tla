------------------------------ MODULE MCDataPull ------------------------------
(* DataPull instantiated for TLC. *)
EXTENDS DataPull, TLC

CONSTANTS g1, g2, old, huge

MCPulls == {g1, g2}
MCVersions == {old, huge}
MCLength == old :> 2 @@ huge :> 4
MCMaxDownloadBytes == 2
=============================================================================
