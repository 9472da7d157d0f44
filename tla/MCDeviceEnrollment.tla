------------------------- MODULE MCDeviceEnrollment -------------------------
(* Two owners' devices, one of them the control plane's own; and two pages   *)
(* of one browser that sign in.  The two components share no variable: the   *)
(* behaviours of each are explored while the other rests.                    *)
EXTENDS DeviceEnrollment, OidcSession, TLC

CONSTANTS kLocal, k1, alice, bob, g1, g2, t1, t2

VARIABLE component

mcVars == <<component, vars, oidcVars>>

MCInit == component \in {"devices", "pages"} /\ Init /\ OidcInit

MCNext ==
  \/ component = "devices" /\ Next /\ UNCHANGED <<component, oidcVars>>
  \/ component = "pages" /\ OidcNext /\ UNCHANGED <<component, vars>>

MCSpec == MCInit /\ [][MCNext]_mcVars

\* Attempts and owners, pages and grants, flows and tasks are the same model
\* values: only one of each pair is in use at a time.
MCSymmetry == Permutations(Owner) \cup Permutations(Grant) \cup Permutations(Task)

=============================================================================
