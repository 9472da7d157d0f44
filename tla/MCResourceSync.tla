--------------------------- MODULE MCResourceSync ---------------------------
(* Two devices and one change: every interleaving of their streams.        *)
EXTENDS ResourceSync

TwoDevices == {<<1, 2>>}

=============================================================================
