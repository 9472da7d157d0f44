--------------------------- MODULE MCOAuth2Grants ---------------------------
(* Grants at one IdP server, and what becomes of an authorization code and a *)
(* client row when replicas write them concurrently.  The two components     *)
(* share no variable: the behaviours of each are explored while the other    *)
(* rests.                                                                    *)
EXTENDS OAuth2Grants, ConflictResolution, TLC

CONSTANT read

VARIABLE component

mcVars == <<component, vars, conflictVars>>

\* The client may gain or lose its scope between two requests.
MCRegistration == {[uris |-> Uri, scopes |-> {read}], [uris |-> Uri, scopes |-> {}]}

MCInit == component \in {"grants", "conflicts"} /\ Init /\ ConflictInit

MCNext ==
  \/ component = "grants" /\ Next /\ UNCHANGED <<component, conflictVars>>
  \/ component = "conflicts" /\ ConflictNext /\ UNCHANGED <<component, vars>>

MCSpec == MCInit /\ [][MCNext]_mcVars

\* The replicas are the model values of Uri, the job slots those of Task.
MCSymmetry == Permutations(User) \cup Permutations(Uri) \cup Permutations(Task)

=============================================================================
