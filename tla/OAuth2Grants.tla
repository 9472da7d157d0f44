---------------------------- MODULE OAuth2Grants ----------------------------
(***************************************************************************)
(* The authorization-code flow of one IdP: OAuth2Service and the           *)
(* repositories of consents and authorization codes (idp-service).         *)
(*                                                                         *)
(* A user approves a client for a redirect URI and a set of scopes, the    *)
(* client obtains an authorization code, redeems it for tokens, and trades *)
(* the tokens for others by refresh or exchange.  Every request is a task; *)
(* each statement it sends to the database is a step of its own.           *)
(*                                                                         *)
(* Left out, because they only refuse a request before it writes anything  *)
(* and depend on nothing but the request: client authentication, the grant *)
(* types of the client, the redirect URI and PKCE verifier of a token      *)
(* request, and the lifetime of tokens.  Stop covers each refusal.         *)
(***************************************************************************)
EXTENDS Naturals, Sequences

CONSTANTS
  User, Client, Uri, Scope,
  Task,           \* slots for requests in flight
  None,           \* an absent row or value
  Registration,   \* the metadata clients register with
  MaxConsents,    \* bound on the consents ever recorded
  MaxCodes,       \* bound on the authorization codes ever created
  MaxRotations    \* bound on the rotations of a user's root key

ASSUME NoneAssumption == None \notin User \cup Client \cup Uri \cup Registration
ASSUME RegistrationAssumption == Registration \subseteq [uris : SUBSET Uri, scopes : SUBSET Scope]
ASSUME BoundAssumption == MaxConsents \in Nat /\ MaxCodes \in Nat /\ MaxRotations \in Nat

VARIABLES
  users,      \* the rows of table users
  root,       \* the active root key of each user, numbered by rotation
  clients,    \* the rows of table clients: None, or the registered metadata
  given,      \* every consent ever recorded; its id is its position
  consents,   \* the ids of the rows of table oauth2_user_consents
  codes,      \* the rows of table oauth2_authorization_codes
  tokens,     \* history: what was issued for a code or for tokens of this set
  redeemed,   \* history: how often each code was answered with tokens
  tasks       \* the requests in flight

vars == <<users, root, clients, given, consents, codes, tokens, redeemed, tasks>>
rows == <<users, root, clients, given, consents, codes, tokens, redeemed>>

Consent == [user : User, client : Client, uri : Uri, scopes : SUBSET Scope]
CodeRow == [user : User, key : Nat, client : Client, uri : Uri, scopes : SUBSET Scope,
            consumed : BOOLEAN, expired : BOOLEAN]
\* The access, ID and refresh tokens of one answer, and the code the chain of
\* grants behind them began with.
TokenSet == [user : User, key : Nat, client : Client, scopes : SUBSET Scope, code : Nat]

Idle == [op |-> "none", pc |-> "idle", user |-> None, key |-> 0, client |-> None,
         uri |-> None, scopes |-> {}, id |-> 0, late |-> FALSE]

Goto(t, pc) == tasks' = [tasks EXCEPT ![t].pc = pc]
Return(t) == tasks' = [tasks EXCEPT ![t] = Idle]
Start(t, call) == tasks[t] = Idle /\ tasks' = [tasks EXCEPT ![t] = call]
\* A read that finds nothing, or a failed check, ends the request.
Check(t, ok, next) == IF ok THEN Goto(t, next) ELSE Return(t)

ConsentOf(c) == [user |-> c.user, client |-> c.client, uri |-> c.uri, scopes |-> c.scopes]
\* Scope lists are compared sorted and without duplicates: as sets.
Matching(c) == {i \in consents : given[i] = ConsentOf(c)}

\* Mutant: the allowed scopes are consulted only when none are requested.
RequestedScopes(requested, allowed) == IF requested = {} THEN allowed ELSE requested

\* A request without a scope asks for everything the client may have.
IntersectScopes(requested, allowed) ==
  IF requested = {} THEN allowed ELSE requested \cap allowed

---------------------------------------------------------------------------
(* Users, keys and clients                                                 *)

DeleteUser(u) ==
  /\ u \in users
  /\ users' = users \ {u}
  /\ UNCHANGED <<root, clients, given, consents, codes, tokens, redeemed, tasks>>

RotateKey(u) ==
  /\ root[u] < MaxRotations
  /\ root' = [root EXCEPT ![u] = @ + 1]
  /\ UNCHANGED <<users, clients, given, consents, codes, tokens, redeemed, tasks>>

\* register_client and update_client; the columns written come from the request.
SaveClient(c, meta) ==
  /\ clients' = [clients EXCEPT ![c] = meta]
  /\ UNCHANGED <<users, root, given, consents, codes, tokens, redeemed, tasks>>

DeleteClient(c) ==
  /\ clients' = [clients EXCEPT ![c] = None]
  /\ UNCHANGED <<users, root, given, consents, codes, tokens, redeemed, tasks>>

---------------------------------------------------------------------------
(* Consents                                                                *)

Approve(t, u, c, r, s) ==
  /\ Start(t, [Idle EXCEPT !.op = "approve", !.pc = "approveClient", !.user = u,
                           !.client = c, !.uri = r, !.scopes = s])
  /\ u \in users
  /\ UNCHANGED rows

\* validate_scopes, the registered redirect URIs, and the effective scopes.
ReadClient(t, next) ==
  LET c == tasks[t]
      meta == clients[c.client]
  IN
  /\ IF meta # None /\ c.uri \in meta.uris /\ c.scopes \subseteq meta.scopes
       THEN tasks' = [tasks EXCEPT ![t].pc = next,
                                   ![t].scopes = IntersectScopes(c.scopes, meta.scopes)]
       ELSE Return(t)
  /\ UNCHANGED rows

ApproveClient(t) == tasks[t].pc = "approveClient" /\ ReadClient(t, "findConsent")

FindConsent(t) ==
  /\ tasks[t].pc = "findConsent"
  /\ Check(t, Matching(tasks[t]) = {}, "insertConsent")
  /\ UNCHANGED rows

\* The unique index on (user, client, redirect URI, scope) fails a second INSERT.
InsertConsent(t) ==
  /\ tasks[t].pc = "insertConsent"
  /\ IF Matching(tasks[t]) = {}
       THEN /\ Len(given) < MaxConsents
            /\ given' = Append(given, ConsentOf(tasks[t]))
            /\ consents' = consents \cup {Len(given) + 1}
       ELSE UNCHANGED <<given, consents>>
  /\ Return(t)
  /\ UNCHANGED <<users, root, clients, codes, tokens, redeemed>>

RevokeConsent(t, u, i) ==
  /\ Start(t, [Idle EXCEPT !.op = "revoke", !.pc = "revokeFind", !.user = u, !.id = i])
  /\ u \in users
  /\ UNCHANGED rows

RevokeFind(t) ==
  LET c == tasks[t] IN
  /\ c.pc = "revokeFind"
  /\ Check(t, c.id \in consents /\ given[c.id].user = c.user, "revokeDelete")
  /\ UNCHANGED rows

RevokeDelete(t) ==
  /\ tasks[t].pc = "revokeDelete"
  /\ consents' = consents \ {tasks[t].id}
  /\ Return(t)
  /\ UNCHANGED <<users, root, clients, given, codes, tokens, redeemed>>

---------------------------------------------------------------------------
(* Creating an authorization code                                          *)

\* The bearer token of the request names the user and an active root key.
Authorize(t, u, c, r, s) ==
  /\ u \in users
  /\ Start(t, [Idle EXCEPT !.op = "authorize", !.pc = "authorizeClient", !.user = u,
                           !.key = root[u], !.client = c, !.uri = r, !.scopes = s])
  /\ UNCHANGED rows

AuthorizeClient(t) == tasks[t].pc = "authorizeClient" /\ ReadClient(t, "authorizeConsent")

AuthorizeConsent(t) ==
  /\ tasks[t].pc = "authorizeConsent"
  /\ Check(t, Matching(tasks[t]) # {}, "insertCode")
  /\ UNCHANGED rows

InsertCode(t) ==
  LET c == tasks[t] IN
  /\ c.pc = "insertCode"
  /\ Len(codes) < MaxCodes
  /\ codes' = Append(codes, [user |-> c.user, key |-> c.key, client |-> c.client, uri |-> c.uri,
                             scopes |-> c.scopes, consumed |-> FALSE, expired |-> FALSE])
  /\ redeemed' = Append(redeemed, 0)
  /\ Return(t)
  /\ UNCHANGED <<users, root, clients, given, consents, tokens>>

\* The lifetime of an unused code passes.
Expire(i) ==
  /\ i \in DOMAIN codes /\ ~codes[i].expired
  /\ codes' = [codes EXCEPT ![i].expired = TRUE]
  /\ UNCHANGED <<users, root, clients, given, consents, tokens, redeemed, tasks>>

---------------------------------------------------------------------------
(* The token endpoint: authorization_code, refresh_token, token_exchange   *)

\* history: the user was deleted, or their key rotated, before the request began.
Late(u, k) == u \notin users \/ root[u] # k

FindCode(i) == i \in DOMAIN codes /\ ~codes[i].consumed /\ ~codes[i].expired

Redeem(t, i) ==
  /\ FindCode(i)
  /\ LET r == codes[i] IN
     Start(t, [Idle EXCEPT !.op = "redeem", !.pc = "key", !.user = r.user, !.key = r.key,
                           !.client = r.client, !.uri = r.uri, !.scopes = r.scopes,
                           !.id = i, !.late = Late(r.user, r.key)])
  /\ UNCHANGED rows

\* What refresh_token takes from decode_jwt, which checks no signature: claims
\* that need not be those of an issued token.  What is issued for them is in no
\* chain from a code, and trading it again does what refreshing its claims does.
Decoded == [user : User, key : 0..MaxRotations, client : Client, scopes : SUBSET Scope,
            code : {0}]

\* A refresh may ask for a subset of the scopes only; an exchange, which verifies
\* its token, gets the scopes it asks for and the subject token has.
Trade(t, op, tok, s) ==
  /\ tok \in tokens \/ (op = "refresh" /\ tok \in Decoded)
  /\ tok.key <= root[tok.user]   \* the key of the token is on record
  /\ op = "refresh" => s \subseteq tok.scopes
  /\ op = "exchange" => tok.key = root[tok.user]
  /\ Start(t, [Idle EXCEPT !.op = op, !.pc = "client", !.user = tok.user, !.key = tok.key,
                           !.client = tok.client, !.scopes = IntersectScopes(s, tok.scopes),
                           !.id = tok.code, !.late = Late(tok.user, tok.key)])
  /\ UNCHANGED rows

\* Mutant: any key of the user will do.
FindAnyKey(t) == tasks[t].pc = "key" /\ Goto(t, "user") /\ UNCHANGED rows

\* find_principal: the key must be the active root key of its user ...
FindKey(t) ==
  /\ tasks[t].pc = "key"
  /\ Check(t, root[tasks[t].user] = tasks[t].key, "user")
  /\ UNCHANGED rows

\* ... and the user must exist.
FindUser(t) ==
  /\ tasks[t].pc = "user"
  /\ Check(t, tasks[t].user \in users, IF tasks[t].op = "redeem" THEN "client" ELSE "issue")
  /\ UNCHANGED rows

FindClient(t) ==
  /\ tasks[t].pc = "client"
  /\ Check(t, clients[tasks[t].client] # None,
              IF tasks[t].op = "redeem" THEN "consume" ELSE "key")
  /\ UNCHANGED rows

\* consume_authorization_code reads the row once more ...
ConsumeRead(t) ==
  /\ tasks[t].pc = "consume"
  /\ Check(t, ~codes[tasks[t].id].consumed, "mark")
  /\ UNCHANGED rows

\* ... and marks it in a second statement.
ConsumeWrite(t) ==
  /\ tasks[t].pc = "mark"
  /\ codes' = [codes EXCEPT ![tasks[t].id].consumed = TRUE]
  /\ Goto(t, "issue")
  /\ UNCHANGED <<users, root, clients, given, consents, tokens, redeemed>>

IssueTokens(t) ==
  LET c == tasks[t] IN
  /\ c.pc = "issue"
  /\ tokens' = tokens \cup {tok \in {[user |-> c.user, key |-> c.key, client |-> c.client,
                                      scopes |-> c.scopes, code |-> c.id]} : c.id # 0}
  /\ redeemed' = IF c.op = "redeem" THEN [redeemed EXCEPT ![c.id] = @ + 1] ELSE redeemed
  /\ Return(t)
  /\ UNCHANGED <<users, root, clients, given, consents, codes>>

\* The request is refused by a check on the request alone, its client goes
\* away, or the process stops: the handler ends at an await.
Stop(t) ==
  /\ tasks[t] # Idle
  /\ Return(t)
  /\ UNCHANGED rows

---------------------------------------------------------------------------
Init ==
  /\ users = User
  /\ root = [u \in User |-> 0]
  /\ clients = [c \in Client |-> None]
  /\ given = <<>> /\ consents = {}
  /\ codes = <<>> /\ redeemed = <<>>
  /\ tokens = {}
  /\ tasks = [t \in Task |-> Idle]

Step(t) ==
  \/ \E u \in User, c \in Client, r \in Uri, s \in SUBSET Scope :
       Approve(t, u, c, r, s) \/ Authorize(t, u, c, r, s)
  \/ ApproveClient(t) \/ FindConsent(t) \/ InsertConsent(t)
  \/ \E u \in User, i \in DOMAIN given : RevokeConsent(t, u, i)
  \/ RevokeFind(t) \/ RevokeDelete(t)
  \/ AuthorizeClient(t) \/ AuthorizeConsent(t) \/ InsertCode(t)
  \/ \E i \in DOMAIN codes : Redeem(t, i)
  \/ \E tok \in tokens \cup Decoded, s \in SUBSET Scope, op \in {"refresh", "exchange"} :
       Trade(t, op, tok, s)
  \/ FindKey(t) \/ FindUser(t) \/ FindClient(t)
  \/ ConsumeRead(t) \/ ConsumeWrite(t) \/ IssueTokens(t)
  \/ Stop(t)

Next ==
  \/ \E t \in Task : Step(t)
  \/ \E u \in User : DeleteUser(u) \/ RotateKey(u)
  \/ \E c \in Client : DeleteClient(c) \/ \E meta \in Registration : SaveClient(c, meta)
  \/ \E i \in DOMAIN codes : Expire(i)

Spec == Init /\ [][Next]_vars

---------------------------------------------------------------------------
(* Properties                                                              *)

\* Type invariant: the shape of the tables, of the history and of the tasks.
TypeOK ==
  /\ users \subseteq User
  /\ root \in [User -> 0..MaxRotations]
  /\ clients \in [Client -> Registration \cup {None}]
  /\ given \in Seq(Consent) /\ consents \subseteq DOMAIN given
  /\ codes \in Seq(CodeRow)
  /\ tokens \subseteq TokenSet
  /\ redeemed \in Seq(Nat) /\ Len(redeemed) = Len(codes)
  /\ DOMAIN tasks = Task

\* Tokens never carry more than a user approved: when every token a chain of
\* refreshes and exchanges presented was issued by this service, some consent of
\* that user for that client and for the redirect URI of the code covers every
\* scope (OAuth2Service::authorize and the token grants).  Of a chain in which a
\* refresh presented other claims nothing is said: their scopes are not checked.
IssuedWithinConsent ==
  \A tok \in tokens : \E i \in DOMAIN given :
    /\ given[i].user = tok.user /\ given[i].client = tok.client
    /\ given[i].uri = codes[tok.code].uri
    /\ tok.scopes \subseteq given[i].scopes

\* A code whose tokens are out is durably marked consumed, whenever the process
\* stops: redeeming it again from the start is refused (authorization_code).
MarkedBeforeIssued ==
  \A tok \in tokens : codes[tok.code].consumed

\* A token request that begins after its user was deleted or their root key
\* rotated never issues tokens, for all three grants and whatever the claims of a refresh
\* (find_principal).
LateNeverIssues ==
  \A t \in Task : tasks[t].pc = "issue" => ~tasks[t].late

\* "It is single-use: redeeming it durably marks it consumed so only one
\* redemption succeeds" (CONTEXT.md, Authorization Code).
SingleUse ==
  \A i \in DOMAIN redeemed : redeemed[i] <= 1

=============================================================================
