--------------------------- MODULE ServiceClients ---------------------------
(***************************************************************************)
(* OAuth clients, the applications they belong to and their key material:  *)
(* DbClientRepo, DbApplicationRepo, KeyService and the command that        *)
(* provisions a service client (idp-server/src/cli).                       *)
(*                                                                         *)
(* A client is a row in the database, a key row, two entries of the OS     *)
(* keyring and, for a provisioned one, a credentials file.  They are       *)
(* written one after the other; each write may fail and the process may    *)
(* die between two of them.  The provisioning command opens the database   *)
(* file exclusively, so it never overlaps with requests to a server.       *)
(*                                                                         *)
(* The metadata of clients is in OAuth2Grants, the tokens that service     *)
(* clients obtain in StorageAccess.  Refusals of a registration that       *)
(* depend on the request alone are covered by Fail.                        *)
(***************************************************************************)
EXTENDS Naturals, Sequences

CONSTANTS
  ClientId, Uri,
  Named,        \* the URIs that registrations name; others come from renaming
  Job,          \* slots for requests in flight
  MaxClients,   \* bound on the client rows ever inserted
  MaxApps       \* bound on the application rows ever inserted

ASSUME NamedAssumption == Named \subseteq Uri
ASSUME ClientBounds == MaxClients \in Nat /\ MaxApps \in Nat

VARIABLES
  apps,        \* the id of the application row of each URI, 0 without one
  appCount,    \* the application ids given out
  clientRows,  \* every client row ever inserted; the id is the position
  present,     \* the ids of the rows that are still there
  keyRows,     \* the root keys of clients: rows of table keys
  masters,     \* clients whose master key is in the keyring
  derived,     \* key rows whose private key is in the keyring
  files,       \* the credentials files, by the client id in them
  jobs,        \* the requests in flight
  created,     \* history: clients whose creation was reported
  moved        \* history: URIs whose application was deleted or renamed

clientVars == <<apps, appCount, clientRows, present, keyRows, masters, derived,
                files, jobs, created, moved>>
store == <<apps, appCount, clientRows, present, keyRows, masters, derived, files,
           created, moved>>

ApplicationRow == 1 .. MaxApps
ClientRow == [client_id : ClientId, uri : Uri, app : ApplicationRow, provisioned : BOOLEAN]
KeyRow == [client : Nat, index : Nat]

NoJob == [op |-> "none", pc |-> "idle", client_id |-> {}, uri |-> {}, app |-> 0,
          client |-> 0, index |-> 0]

In(j, pc) == jobs[j].pc = pc
Open(j, job) == jobs[j] = NoJob /\ jobs' = [jobs EXCEPT ![j] = job]
Advance(j, job) == jobs' = [jobs EXCEPT ![j] = job]
Move(j, pc) == Advance(j, [jobs[j] EXCEPT !.pc = pc])
Close(j) == jobs' = [jobs EXCEPT ![j] = NoJob]

\* A failed provisioning looks for what it left; a failed registration does not.
Failed(j) == IF jobs[j].op = "provision" THEN Move(j, "verify") ELSE Close(j)

WithClientId(cid) == {i \in present : clientRows[i].client_id = cid}
KeysOf(i) == {k \in keyRows : k.client = i}
Provisioning == \E j \in Job : jobs[j].op = "provision"

ClientInit ==
  /\ apps = [u \in Uri |-> 0] /\ appCount = 0
  /\ clientRows = <<>> /\ present = {}
  /\ keyRows = {} /\ masters = {} /\ derived = {} /\ files = {}
  /\ jobs = [j \in Job |-> NoJob]
  /\ created = {} /\ moved = {}

---------------------------------------------------------------------------
(* Applications                                                            *)

\* Bound: one application is deleted or renamed.
MayMove == moved = {}

CreateApplication(u) ==
  /\ ~Provisioning /\ apps[u] = 0 /\ appCount < MaxApps
  /\ apps' = [apps EXCEPT ![u] = appCount + 1]
  /\ appCount' = appCount + 1
  /\ UNCHANGED <<clientRows, present, keyRows, masters, derived, files, jobs, created, moved>>

\* The unique index on uri fails a rename to the URI of another application.
UpdateApplication(u, v) ==
  /\ ~Provisioning /\ MayMove /\ apps[u] # 0 /\ apps[v] = 0
  /\ apps' = [apps EXCEPT ![v] = apps[u], ![u] = 0]
  /\ moved' = moved \cup {u, v}
  /\ UNCHANGED <<appCount, clientRows, present, keyRows, masters, derived, files, jobs, created>>

\* Only the application row goes; its clients keep the id.
DeleteApplication(u) ==
  /\ ~Provisioning /\ MayMove /\ apps[u] # 0
  /\ apps' = [apps EXCEPT ![u] = 0]
  /\ moved' = moved \cup {u}
  /\ UNCHANGED <<appCount, clientRows, present, keyRows, masters, derived, files, jobs, created>>

---------------------------------------------------------------------------
(* Provisioning: the part before the client is created                     *)

\* The application must exist and the generated id must be unused.
Provision(j, cid, u) ==
  /\ \A i \in Job : jobs[i] = NoJob
  /\ apps[u] # 0 /\ WithClientId(cid) = {} /\ cid \notin files
  /\ Open(j, [NoJob EXCEPT !.op = "provision", !.pc = "write", !.client_id = {cid}, !.uri = {u}])
  /\ UNCHANGED store

\* create_new, write and sync of the file and its directory.  A failure removes
\* the file again.
WriteCredentials(j) ==
  /\ In(j, "write")
  /\ \/ files' = files \cup jobs[j].client_id /\ Move(j, "application")
     \/ UNCHANGED files /\ Close(j)
  /\ UNCHANGED <<apps, appCount, clientRows, present, keyRows, masters, derived, created, moved>>

---------------------------------------------------------------------------
(* create_client                                                           *)

RegisterClient(j, cid, u) ==
  /\ ~Provisioning
  /\ Open(j, [NoJob EXCEPT !.op = "register", !.pc = "application", !.client_id = {cid}, !.uri = {u}])
  /\ UNCHANGED store

FindApplication(j) ==
  /\ In(j, "application")
  /\ \E u \in jobs[j].uri :
       IF apps[u] # 0 THEN Advance(j, [jobs[j] EXCEPT !.pc = "insertClient", !.app = apps[u]])
       ELSE Move(j, "insertApplication")
  /\ UNCHANGED store

InsertApplication(j) ==
  /\ In(j, "insertApplication")
  /\ \E u \in jobs[j].uri :
       IF apps[u] # 0 THEN Failed(j) /\ UNCHANGED <<apps, appCount>>
       ELSE /\ appCount < MaxApps
            /\ apps' = [apps EXCEPT ![u] = appCount + 1]
            /\ appCount' = appCount + 1
            /\ Advance(j, [jobs[j] EXCEPT !.pc = "insertClient", !.app = appCount + 1])
  /\ UNCHANGED <<clientRows, present, keyRows, masters, derived, files, created, moved>>

\* The unique index on client_id fails a second client with the same id.
InsertClient(j) ==
  LET job == jobs[j] IN
  /\ In(j, "insertClient")
  /\ \E cid \in job.client_id, u \in job.uri :
       IF WithClientId(cid) # {} THEN Failed(j) /\ UNCHANGED <<clientRows, present>>
       ELSE /\ Len(clientRows) < MaxClients
            /\ clientRows' = Append(clientRows, [client_id |-> cid, uri |-> u, app |-> job.app,
                                                 provisioned |-> job.op = "provision"])
            /\ present' = present \cup {Len(clientRows) + 1}
            /\ Advance(j, [job EXCEPT !.pc = "master", !.uri = {}, !.app = 0,
                                        !.client = Len(clientRows) + 1])
  /\ UNCHANGED <<apps, appCount, keyRows, masters, derived, files, created, moved>>

EnsureMasterKey(j) ==
  /\ In(j, "master")
  /\ masters' = masters \cup {jobs[j].client}
  /\ Move(j, "index")
  /\ UNCHANGED <<apps, appCount, clientRows, present, keyRows, derived, files, created, moved>>

\* The root keys of all entities share one sequence of derivation indices.
ReadIndex(j) ==
  /\ In(j, "index")
  /\ \E n \in 0 .. MaxClients :
       /\ \A k \in keyRows : k.index < n
       /\ n = 0 \/ \E k \in keyRows : k.index = n - 1
       /\ Advance(j, [jobs[j] EXCEPT !.pc = "insertKey", !.index = n])
  /\ UNCHANGED store

\* The unique index on derivation_path fails a second key with the same index.
InsertKey(j) ==
  LET row == [client |-> jobs[j].client, index |-> jobs[j].index] IN
  /\ In(j, "insertKey")
  /\ IF \E k \in keyRows : k.index = row.index THEN Failed(j) /\ UNCHANGED keyRows
     ELSE keyRows' = keyRows \cup {row} /\ Move(j, "derive")
  /\ UNCHANGED <<apps, appCount, clientRows, present, masters, derived, files, created, moved>>

EnsureDerivationPath(j) ==
  /\ In(j, "derive")
  /\ derived' = derived \cup KeysOf(jobs[j].client)
  /\ created' = created \cup {jobs[j].client}
  /\ Close(j)
  /\ UNCHANGED <<apps, appCount, clientRows, present, keyRows, masters, files, moved>>

\* Any statement or keyring call of create_client may fail.
FailRequest(j) ==
  /\ jobs[j].pc \in {"application", "insertApplication", "insertClient", "master",
                     "index", "insertKey", "derive"}
  /\ Failed(j)
  /\ UNCHANGED store

---------------------------------------------------------------------------
(* Provisioning: the cleanup after a failure                               *)

VerifyCleanup(j) ==
  /\ In(j, "verify")
  /\ \E cid \in jobs[j].client_id :
       Move(j, IF WithClientId(cid) = {} THEN "removeFile" ELSE "cleanKeys")
  /\ UNCHANGED store

\* Defect: the key rows go while entries of the keyring are left.
DeleteKeyRowsOnly(j) ==
  /\ In(j, "cleanKeys")
  /\ keyRows' = keyRows \ KeysOf(jobs[j].client)
  /\ Move(j, "cleanClient")
  /\ UNCHANGED <<apps, appCount, clientRows, present, masters, derived, files, created, moved>>

\* delete_entity_key_material: each private key, the master key, then the rows.
DeleteKeyMaterial(j) ==
  LET mine == KeysOf(jobs[j].client) IN
  /\ In(j, "cleanKeys")
  /\ CASE derived \cap mine # {} ->
            /\ \E k \in derived \cap mine : derived' = derived \ {k}
            /\ UNCHANGED <<masters, keyRows, jobs>>
       [] derived \cap mine = {} /\ jobs[j].client \in masters ->
            /\ masters' = masters \ {jobs[j].client}
            /\ UNCHANGED <<derived, keyRows, jobs>>
       [] OTHER ->
            /\ keyRows' = keyRows \ mine
            /\ Move(j, "cleanClient")
            /\ UNCHANGED <<derived, masters>>
  /\ UNCHANGED <<apps, appCount, clientRows, present, files, created, moved>>

DeleteProvisioned(j) ==
  /\ In(j, "cleanClient")
  /\ present' = present \ {jobs[j].client}
  /\ Move(j, "removeFile")
  /\ UNCHANGED <<apps, appCount, clientRows, keyRows, masters, derived, files, created, moved>>

RemoveFile(j) ==
  /\ In(j, "removeFile")
  /\ files' = files \ jobs[j].client_id
  /\ Close(j)
  /\ UNCHANGED <<apps, appCount, clientRows, present, keyRows, masters, derived, created, moved>>

\* A failed cleanup step ends the command: "credentials retained".
CleanupFails(j) ==
  /\ jobs[j].pc \in {"verify", "cleanKeys", "cleanClient", "removeFile"}
  /\ Close(j)
  /\ UNCHANGED store

---------------------------------------------------------------------------
(* Deletion                                                                *)

\* delete_client_by_client_id: the row is found, then deleted by its id; key rows
\* and keyring entries stay.
DeleteClient(cid) ==
  /\ ~Provisioning /\ WithClientId(cid) # {}
  /\ present' = present \ WithClientId(cid)
  /\ UNCHANGED <<apps, appCount, clientRows, keyRows, masters, derived, files, jobs, created, moved>>

\* The process dies: every request in flight is gone, what was written stays.
Die ==
  /\ \E j \in Job : jobs[j] # NoJob
  /\ jobs' = [j \in Job |-> NoJob]
  /\ UNCHANGED store

ClientNext ==
  \/ \E u \in Named : CreateApplication(u)
  \/ \E u \in Uri : DeleteApplication(u)
  \/ \E u, v \in Uri : UpdateApplication(u, v)
  \/ \E j \in Job :
       \/ \E cid \in ClientId, u \in Named : Provision(j, cid, u) \/ RegisterClient(j, cid, u)
       \/ WriteCredentials(j)
       \/ FindApplication(j) \/ InsertApplication(j) \/ InsertClient(j)
       \/ EnsureMasterKey(j) \/ ReadIndex(j) \/ InsertKey(j) \/ EnsureDerivationPath(j)
       \/ FailRequest(j)
       \/ VerifyCleanup(j) \/ DeleteKeyMaterial(j) \/ DeleteProvisioned(j)
       \/ RemoveFile(j) \/ CleanupFails(j)
  \/ \E cid \in ClientId : DeleteClient(cid)
  \/ Die

ClientSpec == ClientInit /\ [][ClientNext]_clientVars

---------------------------------------------------------------------------

\* Types of the stores, and no two root keys with one derivation path.
ClientTypeOK ==
  /\ apps \in [Uri -> 0 .. MaxApps] /\ appCount \in 0 .. MaxApps
  /\ clientRows \in Seq(ClientRow) /\ present \cup masters \cup created \subseteq DOMAIN clientRows
  /\ keyRows \cup derived \subseteq KeyRow
  /\ \A k, l \in keyRows : k.index = l.index => k = l
  /\ files \subseteq ClientId /\ moved \subseteq Uri

\* The parts of a client agree, whichever write fails and whenever the process dies:
\*  - the credentials of a provisioned client are on disk before its row is written
\*    and leave the disk after the row (provision_service_client);
\*  - where they are not, no row, key or keyring entry of the client is left;
\*  - a client whose creation was reported can sign while its row is there: its key
\*    row and both keyring entries exist, although overlapping requests number the
\*    keys of different clients from one sequence (register_client, KeyService);
\*  - clients registered for one application URI belong to one application, also when
\*    the first registrations for it overlap (application_id).
PartsAgree ==
  /\ \A i \in present : clientRows[i].provisioned => clientRows[i].client_id \in files
  /\ \A i \in DOMAIN clientRows :
       clientRows[i].provisioned /\ clientRows[i].client_id \notin files =>
         /\ i \notin present \cup masters
         /\ KeysOf(i) = {}
         /\ \A k \in derived : k.client # i
  /\ \A i \in created \cap present :
       /\ i \in masters
       /\ KeysOf(i) # {} /\ KeysOf(i) \subseteq derived
  /\ \A i, k \in DOMAIN clientRows :
       clientRows[i].uri = clientRows[k].uri /\ clientRows[i].uri \notin moved =>
         clientRows[i].app = clientRows[k].app

=============================================================================
