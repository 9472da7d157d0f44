------------------------- MODULE MCFileSystemRuntime -------------------------
(* Storage on one device.  Three calls overlap on one filesystem; side by   *)
(* side with them, two connections send requests, the residency policy is   *)
(* changed and saved, and the server processes start and stop.  The four    *)
(* share no variable: each is explored while the others rest.               *)
EXTENDS FileSystemRuntime, ServerLife, StorageRequests, Residency

VARIABLE component

mcVars == <<component, vars, serverVars, requestVars, residencyVars>>

\* A root rule, a folder, and a path below it.
MCPolicyPath == {<<>>, <<"a">>, <<"a", "b">>}

\* One user's namespace of one application.
MCStorageNamespace == {<<"alice", "notes">>}

\* A resting component needs one initial state.
MCInit ==
  /\ component \in {"filesystems", "server", "requests", "residency"}
  /\ Init /\ ServerInit /\ RequestsInit /\ ResidencyInit
  /\ component # "server" => server = "storage"

FileSystemMoves ==
  component = "filesystems" /\ UNCHANGED <<component, serverVars, requestVars, residencyVars>>
ServerMoves ==
  component = "server" /\ UNCHANGED <<component, vars, requestVars, residencyVars>>
RequestsMove ==
  component = "requests" /\ UNCHANGED <<component, vars, serverVars, residencyVars>>
ResidencyMoves ==
  component = "residency" /\ UNCHANGED <<component, vars, serverVars, requestVars>>

MCNext ==
  \/ FileSystemMoves /\ Next
  \/ ServerMoves /\ ServerNext
  \/ RequestsMove /\ RequestsNext
  \/ ResidencyMoves /\ ResidencyNext

\* The fairness of ServerSpec, in the behaviours in which the server moves.
MCFairness ==
  /\ WF_mcVars(ServerMoves /\ MainStep)
  /\ WF_mcVars(ServerMoves /\ RefreshReturns)
  /\ WF_mcVars(ServerMoves /\ RefreshCancelled)
  /\ WF_mcVars(ServerMoves /\ SyncTaskEnds)

MCSpec == MCInit /\ [][MCNext]_mcVars /\ MCFairness

=============================================================================
