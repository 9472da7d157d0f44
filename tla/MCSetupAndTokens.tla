-------------------------- MODULE MCSetupAndTokens --------------------------
(* The first setup of an installation, and the tokens Storage and Management *)
(* act on.  The two components share no variable: the behaviours of each are *)
(* explored while the other rests.                                           *)
EXTENDS MCInstallationSetup, StorageAccess

CONSTANTS token, ra, rb

VARIABLE component

mcVars == <<component, vars, storageVars>>

\* A token for reading, and a resource of its namespace and of another.
MCNamespace == [x \in {token, ra, rb} |-> IF x = rb THEN "b" ELSE "a"]
MCExpiry == [t \in {token} |-> 3]
MCActions == [t \in {token} |-> {"read"}]

\* A resting component needs one initial state.
MCInit ==
  /\ component \in {"setup", "tokens"} /\ Init /\ StorageInit
  /\ component = "setup" => client = "storage"
  /\ component = "tokens" => origin = "p1"

MCNext ==
  \/ component = "setup" /\ Next /\ UNCHANGED <<component, storageVars>>
  \/ component = "tokens" /\ StorageNext /\ UNCHANGED <<component, vars>>

MCSpec == MCInit /\ [][MCNext]_mcVars

\* Requests of both components are the same model values.
MCSymmetry == Interchangeable

=============================================================================
