--------------------------- MODULE MCDesktopServer ---------------------------
(* A desktop application that is closed twice at once.                       *)
EXTENDS DesktopServer, TLC
DesktopSymmetry == Permutations(Closer)
=============================================================================
