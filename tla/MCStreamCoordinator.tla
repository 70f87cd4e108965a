------------------------- MODULE MCStreamCoordinator -------------------------
(* Two chunks: one alone leaves nothing for a second request to interrupt. *)
EXTENDS StreamCoordinator

TwoChunks == {"c1", "c2"}
AllTransports == Transport
NoPrivate == {"none"}
=============================================================================
