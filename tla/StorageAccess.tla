---------------------------- MODULE StorageAccess ----------------------------
(***************************************************************************)
(* How Storage and Management act on a user's token (storage-server,       *)
(* management-service): they ask the IdP, which they call with a service   *)
(* token of their own.  The service token comes from a cache or from the   *)
(* client_credentials grant; the IdP checks it, then the user's token; a   *)
(* filesystem socket asks again for every message.  A standalone Storage   *)
(* also asks for its approved peers and falls back to itself on any error. *)
(*                                                                         *)
(* Three clients keep a service token each, by the same code: Storage for  *)
(* the IdP, Storage for Management, and Management for the IdP.  They      *)
(* share nothing; a behaviour follows one of them.                         *)
(* Time is counted in seconds.  An HTTP call ends within Timeout of being  *)
(* sent (reqwest's timeout), and a step of the process takes no time.      *)
(* Left out: what a resource holds and its deletion (FileSystemRuntime,    *)
(* DatabaseRuntime), and the fields of a token no decision reads.          *)
(***************************************************************************)
EXTENDS Naturals

CONSTANTS
  UserToken,    \* the access tokens users hold
  Resource,     \* databases and filesystems
  Namespace,    \* of each user token and resource: the user and the application
  Expiry,       \* exp of each user token
  Actions,      \* the storage actions of each user token, {} for no storage token
  Peer,         \* endpoints of other devices
  Slot,         \* requests, sockets and refreshes in flight
  Ttl,          \* token_ttl_secs
  Margin,       \* RENEWAL_MARGIN
  Timeout,      \* of the HTTP clients
  MaxTime,      \* bound on the clock
  MaxKeys       \* bound on the signing keys of the service client

ASSUME TokenAssumption ==
  /\ Namespace \in [UserToken \cup Resource -> {"a", "b"}]
  /\ Expiry \in [UserToken -> Nat]
  /\ Actions \in [UserToken -> SUBSET {"read", "write"}]
ASSUME TimeAssumption ==
  /\ Ttl \in Nat /\ Margin \in Nat /\ Timeout \in Nat
  /\ MaxTime \in Nat /\ MaxKeys \in Nat \ {0}
  /\ Timeout <= Margin /\ Timeout < Ttl

VARIABLES
  now,         \* the clock
  clientKey,   \* IdP: the active signing key of the service client, 0 once it is deleted
  honoured,    \* IdP: the user tokens whose key is active and whose user exists
  approved,    \* IdP: the approved peers
  client,      \* which of the three this is
  cache,       \* its cached service token, with valid_until
  allowed,     \* standalone Storage: the peers let in besides itself
  slots,
  seen         \* history: the peers approved since the current refresh began

storageVars == <<now, clientKey, honoured, approved, client, cache, allowed, slots, seen>>

Service == {"storage", "replication", "management"}

ServiceToken == [key : 0..MaxKeys, exp : Nat]
CachedToken == [token : ServiceToken, validUntil : Nat]

NoToken == [key |-> 0, exp |-> 0]
NotCached == [token |-> NoToken, validUntil |-> 0]
Resting == [pc |-> "idle", ask |-> {}, bearer |-> NoToken, sent |-> 0]

StorageInit ==
  /\ now = 0 /\ clientKey = 1 /\ honoured = UserToken /\ approved = {}
  /\ client \in Service /\ cache = NotCached
  /\ allowed = {} /\ seen = {}
  /\ slots = [c \in Slot |-> Resting]

idpState == <<clientKey, honoured, approved>>
peerState == <<client, allowed, seen>>

Go(c, pc, ask, bearer, sent) ==
  slots' = [slots EXCEPT ![c] = [pc |-> pc, ask |-> ask, bearer |-> bearer, sent |-> sent]]
Rest(c) == slots' = [slots EXCEPT ![c] = Resting]

-----------------------------------------------------------------------------
(* What asks: each begins by getting a service token.                        *)

\* What a request asks for, an operation or a socket, matters only once its token is
\* accepted and is chosen there: resource is that of the socket a message came from, {}
\* for the others.  dead is history: the user token was revoked or had expired when the
\* request came.
Asking(why, t, resource) ==
  [why |-> why, token |-> t, resource |-> resource, op |-> {},
   dead |-> t \notin honoured \/ Expiry[t] <= now]

Start(c, by, ask) ==
  /\ slots[c].pc = "idle" /\ client = by
  /\ Go(c, "token", ask, NoToken, 0)
  /\ UNCHANGED <<now, idpState, cache, peerState>>

\* The routes on resources and on sockets: the token first.
HttpRequest(c) == \E t \in UserToken : Start(c, "storage", Asking("http", t, {}))

\* ManagementAuthorization: validate_actor_token.
ValidateActor(c) == \E t \in UserToken : Start(c, "management", Asking("actor", t, {}))

\* These need no user token.
Plain(why) == [why |-> why, peers |-> {}]

SelectedResources(c) == Start(c, "replication", Plain("selections"))
AdmitPeerReplication(c) == Start(c, "replication", Plain("admission"))
StorageEndpointIdentity(c) == Start(c, "management", Plain("identity"))

Refreshing(c) == slots[c].pc # "idle" /\ slots[c].ask.why = "refresh"

RefreshApprovedPeers(c) ==
  /\ slots[c].pc = "idle" /\ client = "storage" /\ \A d \in Slot : ~Refreshing(d)
  /\ Go(c, "token", Plain("refresh"), NoToken, 0)
  /\ seen' = approved
  /\ UNCHANGED <<now, idpState, client, cache, allowed>>

ReuseAccess(c) ==
  LET old == slots[c].ask IN
  /\ slots[c].pc = "serving"
  /\ \/ Expiry[old.token] <= now /\ Rest(c)
     \/ /\ Expiry[old.token] > now
        /\ Go(c, "granted", Asking("message", old.token, old.resource), NoToken, 0)
  /\ UNCHANGED <<now, idpState, cache, peerState>>

\* serve_socket: the access it has must not have expired; then a message.
ReceiveMessage(c) ==
  LET old == slots[c].ask IN
  /\ slots[c].pc = "serving"
  /\ \/ Expiry[old.token] <= now /\ Rest(c)
     \/ /\ Expiry[old.token] > now
        /\ Go(c, "token", Asking("message", old.token, old.resource), NoToken, 0)
  /\ UNCHANGED <<now, idpState, cache, peerState>>

CloseSocket(c) ==
  /\ slots[c].pc = "serving"
  /\ Rest(c)
  /\ UNCHANGED <<now, idpState, cache, peerState>>

-----------------------------------------------------------------------------
(* service_access_token, and the grant it asks the IdP for                   *)

UseCachedToExpiry(c) ==
  /\ slots[c].pc = "token" /\ cache # NotCached
  /\ cache.validUntil > now
  /\ Go(c, "call", slots[c].ask, cache.token, now)
  /\ UNCHANGED <<now, idpState, cache, peerState>>

\* The call leaves at once with the token; sent is when.
UseCached(c) ==
  /\ slots[c].pc = "token" /\ cache # NotCached
  /\ cache.validUntil > now + Margin
  /\ Go(c, "call", slots[c].ask, cache.token, now)
  /\ UNCHANGED <<now, idpState, cache, peerState>>

FetchToken(c) ==
  /\ slots[c].pc = "token"
  /\ cache.validUntil <= now + Margin
  /\ Go(c, "fetch", slots[c].ask, NoToken, now)
  /\ UNCHANGED <<now, idpState, cache, peerState>>

\* client_credentials: the client is found and authenticated...
AuthenticateClient(c) ==
  /\ slots[c].pc = "fetch" /\ clientKey # 0
  /\ Go(c, "sign", slots[c].ask, NoToken, slots[c].sent)
  /\ UNCHANGED <<now, idpState, cache, peerState>>

\* ... and its active key signs, if find_principal still finds the client behind it.
IssueClientCredentials(c) ==
  /\ slots[c].pc = "sign" /\ clientKey # 0
  /\ Go(c, "signed", slots[c].ask, [key |-> clientKey, exp |-> now + Ttl], slots[c].sent)
  /\ UNCHANGED <<now, idpState, cache, peerState>>

\* valid_until counts from the answer, not from the signature.
ReceiveToken(c) ==
  /\ slots[c].pc = "signed"
  /\ cache' = [token |-> slots[c].bearer, validUntil |-> now + Ttl]
  /\ Go(c, "call", slots[c].ask, slots[c].bearer, now)
  /\ UNCHANGED <<now, idpState, peerState>>

-----------------------------------------------------------------------------
(* The call: the IdP checks its bearer, then answers.                        *)

\* The signature is by the active key of a client that is there; not expired.
AuthorizeBearer(c) ==
  LET bearer == slots[c].bearer IN
  /\ slots[c].pc = "call"
  /\ bearer.key = clientKey /\ bearer.exp > now
  /\ Go(c, "caller", slots[c].ask, NoToken, slots[c].sent)
  /\ UNCHANGED <<now, idpState, cache, peerState>>

Introspects(ask) == ask.why \in {"http", "message", "actor"}

Introspect(c) ==
  LET ask == slots[c].ask IN
  /\ slots[c].pc = "caller" /\ Introspects(ask)
  /\ ask.token \in honoured /\ Expiry[ask.token] > now
  /\ Go(c, "claims", ask, NoToken, slots[c].sent)
  /\ UNCHANGED <<now, idpState, cache, peerState>>

\* Any error on the way, a timeout included, ends the request and closes the socket.
CallFails(c) ==
  /\ slots[c].pc \notin {"idle", "serving", "granted", "executed"} /\ ~Refreshing(c)
  /\ Rest(c)
  /\ UNCHANGED <<now, idpState, cache, peerState>>

\* The other answers change nothing here.
ReceiveAnswer(c) ==
  LET ask == slots[c].ask IN
  /\ \/ slots[c].pc = "caller" /\ ask.why \in {"selections", "admission", "identity"}
     \/ slots[c].pc = "claims" /\ ask.why = "actor"
  /\ Rest(c)
  /\ UNCHANGED <<now, idpState, cache, peerState>>

RefreshFails(c) ==
  /\ Refreshing(c)
  /\ allowed' = {} /\ seen' = {}
  /\ Rest(c)
  /\ UNCHANGED <<now, idpState, client, cache>>

\* The IdP reads the approved devices; the answer replaces the allowlist later.
ListApproved(c) ==
  /\ slots[c].pc = "caller" /\ Refreshing(c)
  /\ Go(c, "listed", [slots[c].ask EXCEPT !.peers = approved], NoToken, slots[c].sent)
  /\ UNCHANGED <<now, idpState, cache, peerState>>

ReplaceApprovedPeers(c) ==
  /\ slots[c].pc = "listed"
  /\ allowed' = slots[c].ask.peers /\ seen' = {}
  /\ Rest(c)
  /\ UNCHANGED <<now, idpState, client, cache>>

-----------------------------------------------------------------------------
(* Storage acts on the claims.                                               *)

\* storage_authorization, and the resource is one of the namespace.
AuthorizeStorage(c) ==
  LET ask == slots[c].ask IN
  /\ slots[c].pc = "claims" /\ ask.why # "actor"
  /\ Expiry[ask.token] > now /\ Actions[ask.token] # {}
  /\ \E r \in Resource :
       /\ ask.resource \subseteq {r}
       /\ Namespace[r] = Namespace[ask.token]
       /\ Go(c, "granted", [ask EXCEPT !.resource = {r}], NoToken, 0)
  /\ UNCHANGED <<now, idpState, cache, peerState>>

\* What a socket keeps between messages.
Serving(ask) == [why |-> "socket", token |-> ask.token, resource |-> ask.resource]

UpgradeSocket(c) ==
  /\ slots[c].pc = "granted" /\ slots[c].ask.why = "http"
  /\ Go(c, "serving", Serving(slots[c].ask), NoToken, 0)
  /\ UNCHANGED <<now, idpState, cache, peerState>>

\* A socket looks at the clock once more; both look at the action.
Execute(c) ==
  LET ask == slots[c].ask IN
  /\ slots[c].pc = "granted"
  /\ ask.why = "message" => Expiry[ask.token] > now
  /\ \E op \in Actions[ask.token] :
       Go(c, "executed", [ask EXCEPT !.op = {op}], NoToken, 0)
  /\ UNCHANGED <<now, idpState, cache, peerState>>

\* A socket goes on after an action it does not allow; it closes on an expired token.
Refuse(c) ==
  LET ask == slots[c].ask
      refused == {"read", "write"} \ Actions[ask.token]
  IN  /\ slots[c].pc = "granted"
      /\ \/ ask.why = "http" /\ refused # {} /\ Rest(c)
         \/ ask.why = "message" /\ Expiry[ask.token] <= now /\ Rest(c)
         \/ /\ ask.why = "message" /\ Expiry[ask.token] > now /\ refused # {}
            /\ Go(c, "serving", Serving(ask), NoToken, 0)
      /\ UNCHANGED <<now, idpState, cache, peerState>>

SendResponse(c) ==
  LET ask == slots[c].ask IN
  /\ slots[c].pc = "executed"
  /\ \/ Rest(c)
     \/ ask.why = "message" /\ Go(c, "serving", Serving(ask), NoToken, 0)
  /\ UNCHANGED <<now, idpState, cache, peerState>>

-----------------------------------------------------------------------------
(* The surroundings: time, the IdP's own changes, a restart of the service.  *)

InFlight(c) ==
  slots[c].pc \in {"fetch", "sign", "signed", "call", "caller", "claims", "listed"}

Tick ==
  /\ now < MaxTime
  /\ \A c \in Slot : InFlight(c) => now < slots[c].sent + Timeout
  /\ now' = now + 1
  /\ UNCHANGED <<idpState, cache, peerState, slots>>

RotateClientKey ==
  /\ clientKey # 0 /\ clientKey < MaxKeys
  /\ clientKey' = clientKey + 1
  /\ UNCHANGED <<now, honoured, approved, cache, peerState, slots>>

RemoveClient ==
  /\ clientKey' = 0
  /\ UNCHANGED <<now, honoured, approved, cache, peerState, slots>>

\* The user's key is rotated, or the user deleted.
RevokeUserToken(t) ==
  /\ honoured' = honoured \ {t}
  /\ UNCHANGED <<now, clientKey, approved, cache, peerState, slots>>

ApprovePeer(p) ==
  /\ approved' = approved \cup {p}
  /\ seen' = IF \E c \in Slot : Refreshing(c) THEN seen \cup {p} ELSE seen
  /\ UNCHANGED <<now, clientKey, honoured, client, cache, allowed, slots>>

RevokePeer(p) ==
  /\ approved' = approved \ {p}
  /\ UNCHANGED <<now, clientKey, honoured, cache, peerState, slots>>

RestartStorage ==
  /\ cache' = NotCached
  /\ slots' = [c \in Slot |-> Resting]
  /\ allowed' = {} /\ seen' = {}
  /\ UNCHANGED <<now, idpState, client>>

StorageNext ==
  \/ \E c \in Slot :
       \/ HttpRequest(c) \/ ValidateActor(c) \/ SelectedResources(c)
       \/ AdmitPeerReplication(c) \/ StorageEndpointIdentity(c) \/ RefreshApprovedPeers(c)
       \/ ReceiveMessage(c) \/ CloseSocket(c)
       \/ UseCached(c) \/ FetchToken(c) \/ AuthenticateClient(c)
       \/ IssueClientCredentials(c) \/ ReceiveToken(c)
       \/ AuthorizeBearer(c) \/ Introspect(c) \/ CallFails(c) \/ ReceiveAnswer(c)
       \/ RefreshFails(c) \/ ListApproved(c) \/ ReplaceApprovedPeers(c)
       \/ AuthorizeStorage(c) \/ UpgradeSocket(c) \/ Execute(c) \/ Refuse(c) \/ SendResponse(c)
  \/ Tick \/ RotateClientKey \/ RemoveClient
  \/ \E t \in UserToken : RevokeUserToken(t)
  \/ \E p \in Peer : ApprovePeer(p) \/ RevokePeer(p)
  \/ RestartStorage

StorageSpec == StorageInit /\ [][StorageNext]_storageVars

-----------------------------------------------------------------------------
(* Properties *)

\* Tokens and slots have their shape, and a bearer was signed by a key of a client that
\* was there: a client deleted between its authentication and the signature gets no
\* token (find_principal, oauth2/service.rs:690).
StorageTypeOK ==
  /\ now \in 0..MaxTime /\ clientKey \in 0..MaxKeys /\ honoured \subseteq UserToken
  /\ approved \subseteq Peer /\ allowed \subseteq Peer
  /\ seen \subseteq Peer /\ client \in Service /\ cache \in CachedToken
  /\ \A c \in Slot :
       /\ slots[c].pc \in {"idle", "token", "fetch", "sign", "signed", "call", "caller",
                           "claims", "listed", "granted", "serving", "executed"}
       /\ slots[c].bearer \in ServiceToken /\ slots[c].sent \in 0..now
       /\ slots[c].pc \in {"signed", "call"} => slots[c].bearer.key > 0

\* No call leaves with a service token that has already expired: the renewal margin makes
\* up for the time the token's answer took, by which valid_until is too late
\* (service_access_token, idp_client.rs:83; also management_client.rs:77 and
\* hosted_control_plane.rs:96).
SentUnexpired ==
  \A c \in Slot : slots[c].pc = "call" => slots[c].bearer.exp > slots[c].sent

\* An operation runs only for a token that was neither revoked nor expired when the
\* request or socket message came, on a resource of the token's user and application,
\* and with an action the token grants: an open socket does not outlive its token
\* (serve_socket, storage_socket.rs:91).
ExecutedWasAuthorized ==
  \A c \in Slot :
    slots[c].pc = "executed" =>
      /\ ~slots[c].ask.dead
      /\ \A r \in slots[c].ask.resource : Namespace[r] = Namespace[slots[c].ask.token]
      /\ slots[c].ask.op \subseteq Actions[slots[c].ask.token]

\* A refresh of a standalone Storage's allowlist, successful or not, leaves no peer in it
\* that was not approved at some time since it began (refresh_approved_peers,
\* peer_network.rs:57).
RefreshForgets ==
  [][\A c \in Slot :
       Refreshing(c) /\ slots'[c] = Resting => allowed' \subseteq seen]_storageVars

=============================================================================
