-------------------------- MODULE MCPeerDelegation --------------------------
(* PeerDelegation with values for its constants, for TLC.                  *)
EXTENDS PeerDelegation, TLC

CONSTANTS t1

OneTask == {t1}

\* Whatever the peer may make of a hand-over.
AnyVerdict == {"runs", "parks", "refused"}
=============================================================================
