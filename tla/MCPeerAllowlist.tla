--------------------------- MODULE MCPeerAllowlist ---------------------------
(* The control plane's own device and one more, one request at a time.      *)
EXTENDS PeerAllowlist

CONSTANTS kLocal, k1, alice, g1, t1

=============================================================================
