----------------------------- MODULE ServerLife -----------------------------
(* The life of a stand-alone server process: how the IdP, Management and    *)
(* Storage servers start, which step of a start can fail, which background  *)
(* tasks a start leaves behind, and how a signal brings them down again     *)
(* (src/crates/{idp,management,storage}-server/src/cli/run.rs).             *)
(*                                                                          *)
(* One process at a time works on a data directory; it may be killed, or    *)
(* the machine may lose power, at any step.  A start that fails returns its *)
(* error from run() and the process is gone, with every task it spawned.    *)
(* The endpoint key is what survives: a file of the data directory for      *)
(* Storage, an entry of the OS key ring for the IdP.                        *)
EXTENDS Naturals, FiniteSets

CONSTANTS
    Server,     \* the servers considered: "idp", "management", "storage"
    HttpRequest,    \* HTTP requests that may be in flight at once
    EndpointKey,    \* the keys SecretKey::generate may return
    NoKey,          \* no endpoint key
    MaxFaults       \* bound on kills and power losses in one behaviour

ASSUME ServerAssumption ==
    /\ Server \subseteq {"idp", "management", "storage"}
    /\ MaxFaults \in Nat
    /\ NoKey \notin EndpointKey

VARIABLES
    server,         \* which of the three programs this is
    stage,          \* where its main task stands; "down": no process
    config,         \* which services its configuration names
    key,            \* the endpoint key as stored
    generated,      \* the keys generated so far
    endpoint,       \* the key the bound Iroh endpoint runs under, or NoKey
    background,     \* the background tasks and the protocol router
    http,           \* the task that runs api::serve
    cancelled,      \* the cancellation token
    requests,       \* HTTP requests in flight
    advertised,     \* keys an endpoint was ever bound with
    interrupted,    \* a start ended while it was creating the key
    refused,        \* a start was refused because of the stored key
    faults          \* kills and power losses so far

volatile == <<stage, config, endpoint, background, http, cancelled, requests>>
serverVars == <<server, volatile, key, generated, advertised, interrupted,
              refused, faults>>

-----------------------------------------------------------------------------

(* A service in the configuration: not named, named with every setting it   *)
(* needs, or named with one of them missing.                                *)
Setting == {"off", "full", "partial"}

(* The stored key: nothing, a file that exists but lacks bytes, or a whole  *)
(* key; "synced" once sync_all has returned.                                *)
StoredKey ==
    [state : {"none", "part"}, synced : {FALSE}, id : {NoKey}]
        \cup [state : {"whole"}, synced : BOOLEAN, id : EndpointKey]

NoStored == [state |-> "none", synced |-> FALSE, id |-> NoKey]
PartStored == [NoStored EXCEPT !.state = "part"]
Whole(id, synced) == [state |-> "whole", synced |-> synced, id |-> id]

(* What run() holds a handle of, and the peers' sync sessions, which their  *)
(* handlers detach with tokio::spawn.                                       *)
NoTasks == [refresher |-> "off", sync |-> "off", peers |-> FALSE, sessions |-> FALSE]
Unconfigured == [idp |-> "off", management |-> "off"]

Starting == {"configure", "store", "key", "writeKey", "syncKey", "bind",
             "services", "runtimes", "serve"}
Stopping == {"stopSync", "awaitSync", "stopRefresh", "close", "drain"}

ServerInit ==
    /\ server \in Server
    /\ stage = "down"
    /\ config = Unconfigured
    /\ key = NoStored
    /\ generated = {}
    /\ endpoint = NoKey
    /\ background = NoTasks
    /\ http = "off"
    /\ cancelled = FALSE
    /\ requests = {}
    /\ advertised = {}
    /\ interrupted = FALSE
    /\ refused = FALSE
    /\ faults = 0

stored == <<key, generated, advertised, interrupted, refused, faults>>

(* run() has returned, or the process was killed: all it held is gone.      *)
Gone ==
    /\ stage' = "down"
    /\ config' = Unconfigured
    /\ endpoint' = NoKey
    /\ background' = NoTasks
    /\ http' = "off"
    /\ cancelled' = FALSE
    /\ requests' = {}
    /\ UNCHANGED server

(* The main task goes on to another step and changes nothing else of its    *)
(* process.                                                                 *)
GoTo(s) ==
    /\ stage' = s
    /\ UNCHANGED <<server, config, endpoint, background, http, cancelled, requests>>

(* A step of the start returns an error: run() returns it.                  *)
Fails ==
    /\ stage \in Starting
    /\ Gone
    /\ UNCHANGED stored

-----------------------------------------------------------------------------

(* Somebody starts the server; the configuration is whatever the file and   *)
(* the environment say by now.                                              *)
Launch ==
    /\ stage = "down"
    /\ stage' = "configure"
    /\ config' \in [idp : Setting, management : Setting]
    /\ server = "storage" \/ config'.management = "off"
    /\ UNCHANGED <<server, endpoint, background, http, cancelled, requests, stored>>

(* Storage builds its clients of the IdP and of Management.  A service that *)
(* is named but not fully configured ends the start, and so does Management *)
(* without an IdP.  Without an IdP there is no peer network.                *)
ConfigureStorage ==
    /\ server = "storage"
    /\ stage = "configure"
    /\ IF \/ config.idp = "partial"
          \/ config.management = "partial"
          \/ config.management = "full" /\ config.idp = "off"
       THEN Fails
       ELSE /\ GoTo(IF config.idp = "full" THEN "key" ELSE "runtimes")
            /\ UNCHANGED stored

(* Management needs the addresses of the IdP and of Storage and its own     *)
(* service client before it touches the data directory.                     *)
ConfigureManagement ==
    /\ server = "management"
    /\ stage = "configure"
    /\ IF config.idp = "full" THEN GoTo("store") /\ UNCHANGED stored ELSE Fails

(* Management opens its database and brings the schema up to date.          *)
OpenManagementStore ==
    /\ server = "management"
    /\ stage = "store"
    /\ GoTo("serve") \/ Fails
    /\ UNCHANGED stored

(* The IdP opens its database and fills the allowlist from the approved     *)
(* devices before it binds anything; a missing configuration file is        *)
(* replaced by the default configuration.                                   *)
OpenIdpStore ==
    /\ server = "idp"
    /\ stage = "configure"
    /\ GoTo("key") \/ Fails
    /\ UNCHANGED stored

-----------------------------------------------------------------------------

(* The IdP's key comes from the key ring; a key ring without one is given a *)
(* new key, which the key ring stores whole or not at all.                  *)
LoadKeyringKey ==
    /\ server = "idp"
    /\ stage = "key"
    /\ \/ /\ key.state = "whole"
          /\ GoTo("bind")
          /\ UNCHANGED <<key, generated>>
       \/ /\ key.state = "none"
          /\ \E id \in EndpointKey \ generated :
                /\ key' = Whole(id, TRUE)
                /\ generated' = generated \cup {id}
          /\ GoTo("bind")
       \/ Fails
    /\ UNCHANGED <<advertised, interrupted, refused, faults>>

(* Storage's key is a file.  A file of the wrong length ends the start;     *)
(* when there is none, an empty one is created for a new key.  The data     *)
(* directory may not be created, or the file not be read or created.        *)
LoadKeyFile ==
    /\ server = "storage"
    /\ stage = "key"
    /\ \/ /\ key.state = "whole"
          /\ GoTo("bind")
          /\ UNCHANGED <<key, generated, refused>>
       \/ /\ key.state = "part"
          /\ Gone
          /\ refused' = TRUE
          /\ UNCHANGED <<key, generated>>
       \/ /\ key.state = "none"
          /\ key' = PartStored
          /\ GoTo("writeKey")
          /\ UNCHANGED <<generated, refused>>
       \/ Fails
    /\ UNCHANGED <<advertised, interrupted, faults>>

(* The new key is written to the file; a failed write leaves a part.        *)
WriteKeyFile ==
    /\ server = "storage"
    /\ stage = "writeKey"
    /\ \/ /\ \E id \in EndpointKey \ generated :
                /\ key' = Whole(id, FALSE)
                /\ generated' = generated \cup {id}
          /\ GoTo("syncKey")
          /\ UNCHANGED interrupted
       \/ /\ Gone
          /\ interrupted' = TRUE
          /\ UNCHANGED <<key, generated>>
    /\ UNCHANGED <<advertised, refused, faults>>

(* Mutant: the file is not synced.                                          *)
SkipSync ==
    /\ server = "storage"
    /\ stage = "syncKey"
    /\ GoTo("bind")
    /\ UNCHANGED stored

(* The file is synced before the key is used.  The code does not sync the   *)
(* directory: its entry is taken to be durable with the file.               *)
SyncKeyFile ==
    /\ server = "storage"
    /\ stage = "syncKey"
    /\ \/ /\ key' = [key EXCEPT !.synced = TRUE]
          /\ GoTo("bind")
          /\ UNCHANGED interrupted
       \/ /\ Gone
          /\ interrupted' = TRUE
          /\ UNCHANGED key
    /\ UNCHANGED <<generated, advertised, refused, faults>>

(* The operating system writes the file back in its own time.               *)
Writeback ==
    /\ key.state = "whole"
    /\ ~key.synced
    /\ key' = [key EXCEPT !.synced = TRUE]
    /\ UNCHANGED <<server, volatile, generated, advertised, interrupted,
                   refused, faults>>

(* The endpoint is bound under the stored key.                              *)
BindEndpoint ==
    /\ stage = "bind"
    /\ endpoint' = key.id
    /\ advertised' = advertised \cup {key.id}
    /\ stage' = "services"
    /\ UNCHANGED <<server, config, background, http, cancelled, requests, key,
                   generated, interrupted, refused, faults>>

-----------------------------------------------------------------------------

(* Storage asks the IdP for the approved peers once, goes on whatever the   *)
(* answer, and spawns the task that keeps asking.                           *)
SpawnStorageRefresh ==
    /\ server = "storage"
    /\ stage = "services"
    /\ background' = [background EXCEPT !.refresher = "refreshing"]
    /\ stage' = "runtimes"
    /\ UNCHANGED <<server, config, endpoint, http, cancelled, requests, stored>>

(* Storage opens its database and filesystem runtimes.  It replicates, and  *)
(* accepts peers, only with a network and with Management to ask.           *)
StartReplication ==
    /\ server = "storage"
    /\ stage = "runtimes"
    /\ \/ /\ background' = IF endpoint # NoKey /\ config.management = "full"
                      THEN [background EXCEPT !.sync = "running", !.peers = TRUE]
                      ELSE background
          /\ stage' = "serve"
          /\ UNCHANGED <<server, config, endpoint, http, cancelled, requests>>
       \/ Fails
    /\ UNCHANGED stored

(* The IdP builds its services; an empty audience or a malformed address    *)
(* ends the start although the endpoint is bound by then.                   *)
BuildIdpServices ==
    /\ server = "idp"
    /\ stage = "services"
    /\ IF config.idp = "partial" THEN Fails ELSE GoTo("runtimes")
    /\ UNCHANGED stored

(* The IdP spawns the refresh of its allowlist and lets peers in to the     *)
(* bootstrap protocol.                                                      *)
StartIdpTasks ==
    /\ server = "idp"
    /\ stage = "runtimes"
    /\ background' = [background EXCEPT !.refresher = "sleeping", !.peers = TRUE]
    /\ stage' = "serve"
    /\ UNCHANGED <<server, config, endpoint, http, cancelled, requests, stored>>

(* The HTTP server runs in a task of its own; the main task only waits for  *)
(* a signal from here on.                                                   *)
SpawnServe ==
    /\ stage = "serve"
    /\ http' = "binding"
    /\ stage' = "running"
    /\ UNCHANGED <<server, config, endpoint, background, cancelled, requests, stored>>

-----------------------------------------------------------------------------

onlyHttp == <<server, stage, config, endpoint, background, cancelled, stored>>

(* api::serve binds the address; when that fails the task ends, and nobody  *)
(* looks at its result before a signal comes.                               *)
ServeBinds ==
    /\ http = "binding"
    /\ http' \in {"listening", "ended"}
    /\ UNCHANGED <<onlyHttp, requests>>

(* A request comes in while the listener accepts.                           *)
AcceptRequest(r) ==
    /\ http = "listening"
    /\ r \notin requests
    /\ requests' = requests \cup {r}
    /\ UNCHANGED <<onlyHttp, http>>

(* A request is answered.                                                   *)
AnswerRequest(r) ==
    /\ r \in requests
    /\ requests' = requests \ {r}
    /\ UNCHANGED <<onlyHttp, http>>

(* serve_listener: once the token is cancelled nothing more is accepted,    *)
(* and the task ends when the last request has been answered.               *)
ServeShutsDown ==
    /\ \/ http = "listening" /\ cancelled /\ http' = "draining"
       \/ http = "draining" /\ requests = {} /\ http' = "ended"
    /\ UNCHANGED <<onlyHttp, requests>>

onlyTasks == <<server, stage, config, endpoint, http, cancelled, requests,
               stored>>

Refresher(s) == background' = [background EXCEPT !.refresher = s]

(* run_peer_refresh: a refresh has its answer, or its error; the task waits *)
(* for the interval or for the token.  A token already cancelled ends it at *)
(* once.                                                                    *)
RefreshReturns ==
    /\ background.refresher = "refreshing"
    /\ Refresher(IF cancelled /\ server = "storage" THEN "off" ELSE "sleeping")
    /\ UNCHANGED onlyTasks

(* The interval has passed.                                                 *)
RefreshAgain ==
    /\ background.refresher = "sleeping"
    /\ Refresher("refreshing")
    /\ UNCHANGED onlyTasks

(* Mutant: only the interval is waited for.                                 *)
NeverCancelled == FALSE /\ UNCHANGED serverVars

(* The token is cancelled during the wait.  The IdP's task has no token.    *)
RefreshCancelled ==
    /\ server = "storage"
    /\ background.refresher = "sleeping"
    /\ cancelled
    /\ Refresher("off")
    /\ UNCHANGED onlyTasks

(* The replication task sees the token, or the abort, at its next wait.     *)
SyncTaskEnds ==
    /\ \/ background.sync = "running" /\ cancelled
       \/ background.sync = "aborted"
    /\ background' = [background EXCEPT !.sync = "off"]
    /\ UNCHANGED onlyTasks

(* accept_stream of the two sync protocols: a peer's session runs in a task *)
(* of its own, which nothing waits for or cancels ...                       *)
SpawnSession ==
    /\ server = "storage"
    /\ background.peers
    /\ ~background.sessions
    /\ background' = [background EXCEPT !.sessions = TRUE]
    /\ UNCHANGED onlyTasks

(* ... and which ends when the peer is done or its transport fails.         *)
SessionsEnd ==
    /\ background.sessions
    /\ background' = [background EXCEPT !.sessions = FALSE]
    /\ UNCHANGED onlyTasks

-----------------------------------------------------------------------------

(* shutdown_signal: a signal cancels the token.                             *)
Signal ==
    /\ stage = "running"
    /\ cancelled' = TRUE
    /\ stage' = CASE server = "storage" -> "stopSync"
                  [] server = "idp" -> "stopRefresh"
                  [] server = "management" -> "drain"
    /\ UNCHANGED <<server, config, endpoint, background, http, requests, stored>>

(* StorageReplicationRuntime::shutdown: abort the replication task ...      *)
AbortSync ==
    /\ stage = "stopSync"
    /\ background' = [background EXCEPT
                    !.sync = IF @ = "running" THEN "aborted" ELSE @]
    /\ stage' = "awaitSync"
    /\ UNCHANGED <<server, config, endpoint, http, cancelled, requests, stored>>

(* ... and wait for it; then the protocol router is dropped, and with it    *)
(* what accepts peers.  The sessions already begun go on.                   *)
AwaitSync ==
    /\ stage = "awaitSync"
    /\ background.sync = "off"
    /\ background' = [background EXCEPT !.peers = FALSE]
    /\ stage' = "stopRefresh"
    /\ UNCHANGED <<server, config, endpoint, http, cancelled, requests, stored>>

(* Storage waits for the refresh task before it closes the endpoint.        *)
AwaitRefresh ==
    /\ server = "storage"
    /\ stage = "stopRefresh"
    /\ background.refresher = "off"
    /\ GoTo("close")
    /\ UNCHANGED stored

(* StoragePeerNetwork::close.                                               *)
CloseEndpoint ==
    /\ stage = "close"
    /\ endpoint' = NoKey
    /\ stage' = "drain"
    /\ UNCHANGED <<server, config, background, http, cancelled, requests, stored>>

(* The IdP aborts its refresh task; its endpoint goes with the process.     *)
AbortRefresh ==
    /\ server = "idp"
    /\ stage = "stopRefresh"
    /\ Refresher("off")
    /\ stage' = "drain"
    /\ UNCHANGED <<server, config, endpoint, http, cancelled, requests, stored>>

(* The serve task has ended: run() returns.                                 *)
Drained ==
    /\ stage = "drain"
    /\ http = "ended"
    /\ Gone
    /\ UNCHANGED stored

(* Ten seconds have passed: the serve task is aborted, its requests with it.*)
TimedOut ==
    /\ stage = "drain"
    /\ http # "ended"
    /\ Gone
    /\ UNCHANGED stored

-----------------------------------------------------------------------------

(* The process is killed.                                                   *)
Kill ==
    /\ stage # "down"
    /\ faults < MaxFaults
    /\ faults' = faults + 1
    /\ interrupted' = (interrupted \/ stage \in {"writeKey", "syncKey"})
    /\ Gone
    /\ UNCHANGED <<key, generated, advertised, refused>>

(* The machine loses power: a file that was not synced is as it was at any  *)
(* moment since it was created.                                             *)
LosePower ==
    /\ faults < MaxFaults
    /\ faults' = faults + 1
    /\ interrupted' = (interrupted \/ stage \in {"writeKey", "syncKey"})
    /\ key' \in IF key.synced THEN {key} ELSE {NoStored, PartStored, key}
    /\ key.state = "none" => key' = NoStored
    /\ Gone
    /\ UNCHANGED <<generated, advertised, refused>>

MainStep ==
    \/ ConfigureStorage \/ ConfigureManagement \/ OpenManagementStore
    \/ OpenIdpStore \/ LoadKeyringKey \/ LoadKeyFile \/ WriteKeyFile
    \/ SyncKeyFile \/ BindEndpoint \/ SpawnStorageRefresh \/ StartReplication
    \/ BuildIdpServices \/ StartIdpTasks \/ SpawnServe
    \/ AbortSync \/ AwaitSync \/ AwaitRefresh \/ CloseEndpoint \/ AbortRefresh
    \/ Drained \/ TimedOut

TaskStep ==
    ServeBinds \/ ServeShutsDown \/ RefreshReturns \/ RefreshCancelled
        \/ SyncTaskEnds

ServerNext ==
    \/ Launch
    \/ MainStep
    \/ stage = "bind" /\ Fails
    \/ TaskStep
    \/ RefreshAgain
    \/ SpawnSession
    \/ SessionsEnd
    \/ \E r \in HttpRequest : AcceptRequest(r) \/ AnswerRequest(r)
    \/ Signal
    \/ Writeback
    \/ Kill
    \/ LosePower

(* The runtime schedules the main task and a task whose wait is over: the   *)
(* ten-second timer fires and the HTTP client of a refresh has a timeout.   *)
(* Nothing is assumed of requests, of signals or of launches.               *)
ServerFairness == WF_serverVars(MainStep) /\ WF_serverVars(RefreshReturns)
                    /\ WF_serverVars(RefreshCancelled) /\ WF_serverVars(SyncTaskEnds)

ServerSpec == ServerInit /\ [][ServerNext]_serverVars /\ ServerFairness

-----------------------------------------------------------------------------

(* The stages, the tasks and the stored key have the values the code gives  *)
(* them.                                                                    *)
ServerTypeOK ==
    /\ server \in Server
    /\ stage \in Starting \cup Stopping \cup {"down", "running"}
    /\ config \in [idp : Setting, management : Setting]
    /\ key \in StoredKey
    /\ generated \subseteq EndpointKey
    /\ advertised \subseteq generated
    /\ endpoint \in EndpointKey \cup {NoKey}
    /\ background \in [refresher : {"off", "refreshing", "sleeping"},
                  sync : {"off", "running", "aborted"},
                  peers : BOOLEAN, sessions : BOOLEAN]
    /\ http \in {"off", "binding", "listening", "draining", "ended"}
    /\ {cancelled, interrupted, refused} \subseteq BOOLEAN
    /\ requests \subseteq HttpRequest
    /\ faults \in 0 .. MaxFaults

(* Peers know a server by its endpoint key, so a server that has shown one  *)
(* key must come back with the same one, after any kill or power loss, and  *)
(* must be able to start with what it stored.  load_or_create_secret_key    *)
(* syncs the file before the key is used; only a start that ended between   *)
(* creating the file and the end of sync_all may leave less behind.         *)
KeyLossHasCause ==
    Cardinality(advertised) > 1 \/ refused => interrupted

Held == background.refresher # "off" \/ background.sync # "off" \/ background.peers

(* No task run() holds works over an endpoint that is not bound: a start    *)
(* spawns tasks and lets peers in after the endpoint is there, and run() of *)
(* storage closes it only when replication and the refresh have ended and   *)
(* no peer is let in.  Sessions are not among them: one that peers have     *)
(* begun may still run when the endpoint is closed under it.                *)
HeldTasksHaveEndpoint == Held => endpoint # NoKey

(* A signal ends the process, however long a refresh, a replication round   *)
(* or a request is taking when it comes (run() of the three servers).       *)
StopsAfterSignal == cancelled ~> stage = "down"
=============================================================================
