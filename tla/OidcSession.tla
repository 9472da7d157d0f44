----------------------------- MODULE OidcSession -----------------------------
(***************************************************************************)
(* The browser's session of the OIDC client (packages/oidc-client): pages  *)
(* of one origin, each with an OidcClient of its own and its own memory,   *)
(* share one localStorage, which holds the token response and the PKCE     *)
(* verifiers of the sign-ins under way.  Every method is split where it    *)
(* awaits; calls of one page and of several pages interleave there.        *)
(*                                                                         *)
(* A sign-in attempt stands for its generated state and for the verifier   *)
(* generated with it; no caller of the repository supplies a state of its  *)
(* own.  The verifier remembered last is left out: only a callback without *)
(* a state would read it, and that is refused before.  The provider is     *)
(* external: it answers a code request whose verifier fits the challenge   *)
(* it was given, as often as it is asked.  A token is the attempt that     *)
(* began its session and whether its recorded expiry is within the 30      *)
(* second margin of getAccessToken.  The client id is configured, as both  *)
(* applications do; dynamic registration is left out.                      *)
(***************************************************************************)
EXTENDS Naturals, Sequences

CONSTANTS Page, Attempt, Flow, NoToken, NoVerifier

VARIABLES stored,    \* localStorage: the token response
          verifiers, \* localStorage: verifier by state
          memory,    \* a page's pkceVerifiersByState
          config,    \* a page's oidcConfigPromise
          flows,     \* method calls that await something
          origin,    \* attempts begun: the page that did
          given,     \* history: sessions whose tokens came without an exchange
          accepted,  \* history: pages that accepted the callback of an attempt
          cleared    \* history: sessions cleared and not resumed since

oidcVars == <<stored, verifiers, memory, config, flows, origin, given,
              accepted, cleared>>
histories == <<origin, given, accepted, cleared>>
pkce == <<verifiers, memory>>

Tokens == [session : Attempt, stale : BOOLEAN]

ASSUME OidcAssumption == NoVerifier \notin Attempt /\ NoToken \notin Tokens

NoFlow == [at |-> "idle"]
NoStates == [a \in {} |-> NoVerifier]

OidcInit ==
  /\ stored = NoToken
  /\ verifiers = NoStates
  /\ memory = [p \in Page |-> NoStates]
  /\ config = [p \in Page |-> "none"]
  /\ flows = [f \in Flow |-> NoFlow]
  /\ origin = [a \in {} |-> NoVerifier]
  /\ given = {}
  /\ accepted = [a \in Attempt |-> <<>>]
  /\ cleared = {}

BeginCall(f, call) ==
  /\ flows[f] = NoFlow
  /\ flows' = [flows EXCEPT ![f] = call]

\* getOidcConfiguration: the first caller starts the request, all wait for it.
AwaitConfiguration(p) ==
  config' = [config EXCEPT ![p] = IF @ = "none" THEN "fetching" ELSE @]

\* fetchOidcConfiguration; the promise is kept, rejected or not.
ConfigurationArrives(p) ==
  /\ config[p] = "fetching"
  /\ \E answer \in {"ok", "failed"} : config' = [config EXCEPT ![p] = answer]
  /\ UNCHANGED <<stored, pkce, flows, histories>>

Waits(f, kind) == flows[f].at = "configuration" /\ flows[f].kind = kind

\* What awaits a rejected promise throws.
ConfigurationFailed(f) ==
  /\ flows[f].at = "configuration" /\ config[flows[f].page] = "failed"
  /\ flows' = [flows EXCEPT ![f] = NoFlow]
  /\ UNCHANGED <<stored, pkce, config, histories>>

Configured(f, kind) == Waits(f, kind) /\ config[flows[f].page] = "ok"

----------------------------------------------------------------------------
(* Signing in.                                                             *)

Signin(f, p) ==
  /\ BeginCall(f, [at |-> "configuration", kind |-> "signin", page |-> p])
  /\ AwaitConfiguration(p)
  /\ UNCHANGED <<stored, pkce, histories>>

Remember(verifiersByState, a) ==
  [x \in DOMAIN verifiersByState \cup {a} |-> IF x = a THEN a ELSE verifiersByState[x]]

Forget(verifiersByState, a) ==
  [x \in DOMAIN verifiersByState \ {a} |-> verifiersByState[x]]

\* getAuthorizationUrl: a new state and verifier are remembered in the page and
\* in localStorage.
Authorize(f, a) ==
  /\ Configured(f, "signin")
  /\ a \notin DOMAIN origin \cup given
  /\ origin' = [x \in DOMAIN origin \cup {a} |-> IF x = a THEN flows[f].page ELSE origin[x]]
  /\ memory' = [memory EXCEPT ![flows[f].page] = Remember(@, a)]
  /\ verifiers' = Remember(verifiers, a)
  /\ flows' = [flows EXCEPT ![f] = NoFlow]
  /\ UNCHANGED <<stored, config, given, accepted, cleared>>

\* consumePkceVerifier: what it returns; memory is preferred to storage.
Consume(p, a) ==
  IF a \in DOMAIN memory[p] THEN memory[p][a]
  ELSE IF a \in DOMAIN verifiers THEN verifiers[a] ELSE NoVerifier

\* The state is left in the page's memory.
ConsumedFromStorage(p, a) ==
  /\ UNCHANGED memory
  /\ verifiers' = Forget(verifiers, a)

\* consumePkceVerifier: what it removes.
Consumed(p, a) ==
  /\ memory' = [memory EXCEPT ![p] = Forget(@, a)]
  /\ verifiers' = Forget(verifiers, a)

\* handleSigninCallback of an address that carries tokens: they are stored, and
\* neither the state nor a verifier is asked for.  The address can be opened
\* again, in any page; without expires_in the token counts as about to expire.
CallbackTokens(a) ==
  /\ \E stale \in BOOLEAN : stored' = [session |-> a, stale |-> stale]
  /\ given' = given \cup {a}
  /\ cleared' = cleared \ {a}
  /\ UNCHANGED <<pkce, config, flows, origin, accepted>>

\* handleSigninCallback of an address that carries a code, up to its first await.
\* The provider redirects to any page, and the address can be opened again.
Callback(f, p, a) ==
  /\ a \in DOMAIN origin
  /\ flows[f] = NoFlow
  /\ Consumed(p, a)
  /\ IF Consume(p, a) = NoVerifier
     THEN UNCHANGED <<flows, config, accepted, cleared>>
     ELSE /\ BeginCall(f, [at |-> "configuration", kind |-> "callback", page |-> p,
                       state |-> a, verifier |-> Consume(p, a), late |-> FALSE])
          /\ AwaitConfiguration(p)
          /\ accepted' = [accepted EXCEPT ![a] = Append(@, p)]
          /\ cleared' = cleared \ {a}
  /\ UNCHANGED <<stored, origin, given>>

Exchange(f) ==
  /\ Configured(f, "callback") \/ Configured(f, "refresh")
  /\ flows' = [flows EXCEPT ![f].at = "token"]
  /\ UNCHANGED <<stored, pkce, config, histories>>

\* requestToken fails.
ExchangeFails(f) ==
  /\ flows[f].at = "token"
  /\ flows' = [flows EXCEPT ![f] = NoFlow]
  /\ UNCHANGED <<stored, pkce, config, histories>>

\* History: the session a call is about, and what is left of the cleared ones
\* when an answer that was under way at the clear is stored.
SessionOf(f) == IF flows[f].kind = "callback" THEN flows[f].state ELSE flows[f].token.session
ClearedAfter(f) == IF flows[f].late THEN cleared \ {SessionOf(f)} ELSE cleared

\* The end of handleSigninCallback.
TokenIssued(f) ==
  /\ flows[f].at = "token" /\ flows[f].kind = "callback"
  /\ flows[f].verifier = flows[f].state
  /\ stored' = [session |-> flows[f].state, stale |-> FALSE]
  /\ cleared' = ClearedAfter(f)
  /\ flows' = [flows EXCEPT ![f] = NoFlow]
  /\ UNCHANGED <<pkce, config, origin, given, accepted>>

\* setToken: the sign-in page of the application stores a token of its own.
SetToken(a) ==
  /\ a \notin DOMAIN origin \cup given
  /\ stored' = [session |-> a, stale |-> FALSE]
  /\ given' = given \cup {a}
  /\ UNCHANGED <<pkce, config, flows, origin, accepted, cleared>>

----------------------------------------------------------------------------
(* Using and ending the session.                                           *)

TokenAges ==
  /\ stored # NoToken /\ ~stored.stale
  /\ stored' = [stored EXCEPT !.stale = TRUE]
  /\ UNCHANGED <<pkce, config, flows, histories>>

\* getAccessToken: a token that is not about to expire needs no request.
Refresh(f, p) ==
  /\ stored # NoToken /\ stored.stale
  /\ BeginCall(f, [at |-> "configuration", kind |-> "refresh", page |-> p, token |-> stored,
                   late |-> FALSE])
  /\ AwaitConfiguration(p)
  /\ UNCHANGED <<stored, pkce, histories>>

\* The answer is merged into the token read before: the recorded expiry is one
\* of the fields kept.
TokenRefreshed(f) ==
  /\ flows[f].at = "token" /\ flows[f].kind = "refresh"
  /\ stored' = flows[f].token
  /\ cleared' = ClearedAfter(f)
  /\ flows' = [flows EXCEPT ![f] = NoFlow]
  /\ UNCHANGED <<pkce, config, origin, given, accepted>>

Current == {a \in Attempt : stored # NoToken /\ stored.session = a}

\* History: the calls of the current session that are under way are late.
Overtaken ==
  [f \in Flow |-> IF /\ flows[f] # NoFlow /\ flows[f].kind \in {"callback", "refresh"}
                     /\ SessionOf(f) \in Current
                  THEN [flows[f] EXCEPT !.late = TRUE] ELSE flows[f]]

\* clearStoredTokenResponse.
Clear ==
  /\ stored' = NoToken
  /\ cleared' = cleared \cup Current

Signout(f, p) ==
  /\ BeginCall(f, [at |-> "configuration", kind |-> "signout", page |-> p])
  /\ AwaitConfiguration(p)
  /\ UNCHANGED <<stored, pkce, histories>>

\* The provider's end of session is opened and the token is left to it.
SignedOutRemotely(f) ==
  /\ Configured(f, "signout")
  /\ UNCHANGED stored
  /\ cleared' = cleared \cup Current
  /\ flows' = [Overtaken EXCEPT ![f] = NoFlow]
  /\ UNCHANGED <<pkce, config, origin, given, accepted>>

SignedOut(f) ==
  /\ Configured(f, "signout")
  /\ Clear
  /\ flows' = [Overtaken EXCEPT ![f] = NoFlow]
  /\ UNCHANGED <<pkce, config, origin, given, accepted>>

\* The application drops a session its server does not accept.
Dropped ==
  /\ stored # NoToken
  /\ Clear
  /\ flows' = Overtaken
  /\ UNCHANGED <<pkce, config, origin, given, accepted>>

\* A page is loaded again: its memory and its calls are gone.
Reload(p) ==
  /\ memory' = [memory EXCEPT ![p] = NoStates]
  /\ config' = [config EXCEPT ![p] = "none"]
  /\ flows' = [f \in Flow |-> IF flows[f] # NoFlow /\ flows[f].page = p THEN NoFlow ELSE flows[f]]
  /\ UNCHANGED <<stored, verifiers, histories>>

OidcNext ==
  \/ \E f \in Flow, p \in Page :
       \/ Signin(f, p) \/ Refresh(f, p) \/ Signout(f, p)
       \/ \E a \in Attempt : Callback(f, p, a)
  \/ \E f \in Flow :
       \/ ConfigurationFailed(f) \/ Exchange(f) \/ ExchangeFails(f)
       \/ TokenIssued(f) \/ TokenRefreshed(f) \/ SignedOut(f)
       \/ \E a \in Attempt : Authorize(f, a)
  \/ \E p \in Page : ConfigurationArrives(p) \/ Reload(p)
  \/ \E a \in Attempt : SetToken(a) \/ CallbackTokens(a)
  \/ TokenAges \/ Dropped

OidcSpec == OidcInit /\ [][OidcNext]_oidcVars

----------------------------------------------------------------------------
\* Type invariant: verifiers are known for states that were generated only.
OidcTypeOK ==
  /\ stored \in Tokens \cup {NoToken}
  /\ DOMAIN verifiers \subseteq DOMAIN origin
  /\ \A p \in Page : DOMAIN memory[p] \subseteq DOMAIN origin
  /\ config \in [Page -> {"none", "fetching", "ok", "failed"}]
  /\ given \subseteq Attempt /\ cleared \subseteq Attempt

\* A code completes the sign-in it belongs to, once, however many sign-ins of
\* however many pages are under way (rememberPkceVerifier, consumePkceVerifier,
\* buildTokenRequest): its token request carries the verifier generated with the
\* state it names, and it is not accepted again once the page that began the sign-in
\* has accepted it, and by no page twice.  Another page's acceptance empties the
\* shared storage but not that page's memory.  The session stored is one whose code
\* was accepted, unless its tokens came by setToken or in a callback address, which
\* handleSigninCallback stores whatever state the address names.
CallbackIsItsOwn ==
  /\ \A f \in Flow :
       flows[f] # NoFlow /\ flows[f].kind = "callback" => flows[f].verifier = flows[f].state
  /\ \A a \in Attempt : \A i, j \in DOMAIN accepted[a] :
       i < j => accepted[a][i] # accepted[a][j] /\ accepted[a][i] # origin[a]
  /\ stored # NoToken /\ stored.session \notin given => accepted[stored.session] # <<>>

\* A session that was cleared, in whatever page, comes back in two ways only: a
\* refresh or a code exchange that was already under way at the clear stores its
\* answer (what refreshToken read before its awaits), or its callback address is
\* opened again (signout, refreshToken, handleSigninCallback).  No other call that
\* begins after the clear finds the session or stores it.
ClearedStaysCleared == stored # NoToken => stored.session \notin cleared
=============================================================================
