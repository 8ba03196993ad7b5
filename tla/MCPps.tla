-------------------------------- MODULE MCPps --------------------------------
(* The pulse source, the scheduler and the sender of one channel.            *)
EXTENDS MCBroadcast, PpsDriver
=============================================================================
