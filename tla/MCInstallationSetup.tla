------------------------ MODULE MCInstallationSetup ------------------------
(* Small instances of InstallationSetup: two overlapping requests, two ports *)
(* and two device keys.                                                      *)
EXTENDS InstallationSetup, TLC

CONSTANTS t1, t2, k1, k2

MCTask == {t1, t2}
MCUser == {"alice"}
MCOrigin == {"p1", "p2"}
MCIdentity == {k1, k2}

Interchangeable == Permutations(MCTask) \cup Permutations(MCIdentity)
=============================================================================
