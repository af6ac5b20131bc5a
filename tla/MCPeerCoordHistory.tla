------------------------- MODULE MCPeerCoordHistory -------------------------
(* The board with its history, on the instances of MCPeerCoord. *)
EXTENDS PeerCoordHistory, MCPeerCoord
=============================================================================
