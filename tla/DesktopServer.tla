---------------------------- MODULE DesktopServer ----------------------------
(***************************************************************************)
(* The localhost server of the desktop application (app/src-tauri): every  *)
(* start makes sure of a certificate authority, a server certificate and   *)
(* the system's trust in them, file by file; serves; checks itself through *)
(* the system's trust store; repairs the trust once; and opens the window. *)
(* Closing waits for the requests the server has accepted.                 *)
(*                                                                         *)
(* The process may die between any two steps and inside any write, which   *)
(* leaves a file that exists and cannot be parsed; any call may fail; the  *)
(* user may remove the authority from the trust store.  A certificate is   *)
(* the pair it is for and the authority that signed it; an authority's own *)
(* certificate is named by its key, all of them carry the same subject.    *)
(* What decides the router is InstallationSetup's subject: here it is a    *)
(* choice made at every start.                                             *)
(***************************************************************************)
EXTENDS Naturals

CONSTANTS Closer,    \* window events and resets that close the application
          MaxPairs,  \* bound on the key pairs ever generated
          MaxOpen    \* bound on the requests open at once

ASSUME DesktopAssumption == MaxPairs \in Nat

VARIABLES disk,      \* the files of the data directory
          trusted,   \* authorities in the system's trust store
          browsers,  \* authorities in the browsers' own databases
          pairs,     \* key pairs generated so far
          at,        \* where the process is
          start,     \* what this start holds in memory
          serving,   \* the certificate served, absent or closed
          ready,     \* LocalhostServerState.ready
          open,      \* requests being served
          closers,
          fault,     \* history: something failed or interfered during this start
          distrusted \* history: the user has removed the installed authority

desktopVars == <<disk, trusted, browsers, pairs, at, start, serving, ready, open,
                 closers, fault, distrusted>>

Pair == 1..MaxPairs
File == {"caKey", "caPem", "caDer", "der", "key", "pem", "marker"}

\* A file is absent, torn by a write that did not finish, or holds a value.
Absent == [is |-> "absent"]
Torn == [is |-> "torn"]
Holding(x) == [is |-> "whole", value |-> x]

\* The server has been taken out of the application's state.
Closed == [is |-> "closed"]

Exists(f) == disk[f] # Absent

Certificate == [pair : Pair, ca : Pair]

Fresh == [round |-> 1, router |-> "normal", ca |-> 0, pair |-> 0, new |-> FALSE]

DesktopInit ==
  /\ disk = [f \in File |-> Absent]
  /\ trusted = {} /\ browsers = {}
  /\ pairs = 0
  /\ at = "down"
  /\ start = Fresh
  /\ serving = Absent
  /\ ready = FALSE
  /\ open = 0
  /\ closers = [c \in Closer |-> "idle"]
  /\ fault = FALSE
  /\ distrusted = FALSE

stores == <<trusted, browsers>>

\* What only a running application changes.
running == <<serving, ready, open, closers>>
history == <<fault, distrusted>>

----------------------------------------------------------------------------
(* ensure_localhost_certificate.                                           *)

Launch ==
  /\ at = "down"
  /\ pairs + 2 <= MaxPairs
  /\ at' = "caKey"
  /\ \E r \in {"normal", "setup"} : start' = [Fresh EXCEPT !.router = r]
  /\ fault' = FALSE
  /\ UNCHANGED <<disk, stores, pairs, running, distrusted>>

\* load_or_create_ca: a key file that exists is read, and must parse.
LoadOrCreateCa ==
  /\ at = "caKey"
  /\ IF Exists("caKey")
     THEN /\ IF disk["caKey"] = Torn
             THEN at' = "failed" /\ UNCHANGED start
             ELSE at' = "caCertificate" /\ start' = [start EXCEPT !.ca = disk["caKey"].value]
          /\ UNCHANGED pairs
     ELSE /\ pairs' = pairs + 1
          /\ start' = [start EXCEPT !.ca = pairs', !.new = TRUE]
          /\ at' = "writeCaKey"
  /\ UNCHANGED <<disk, stores, running, history>>

EnsureCaCertificate ==
  /\ at = "caCertificate"
  /\ IF Exists("caPem") /\ Exists("caDer")
     THEN at' = "certificate" /\ UNCHANGED start
     ELSE at' = "writeCaPem" /\ start' = [start EXCEPT !.new = TRUE]
  /\ UNCHANGED <<disk, stores, pairs, running, history>>

\* Only the certificate is looked for.
LoadOrCreateCertificateOnly ==
  /\ at = "certificate"
  /\ IF Exists("der")
     THEN at' = "trust" /\ UNCHANGED <<start, pairs>>
     ELSE /\ pairs' = pairs + 1
          /\ start' = [start EXCEPT !.pair = pairs']
          /\ at' = "writeDer"
  /\ UNCHANGED <<disk, stores, running, history>>

LoadOrCreateCertificate ==
  /\ at = "certificate"
  /\ IF Exists("der") /\ Exists("key") /\ Exists("pem")
     THEN at' = "trust" /\ UNCHANGED <<start, pairs>>
     ELSE /\ pairs' = pairs + 1
          /\ start' = [start EXCEPT !.pair = pairs']
          /\ at' = "writeDer"
  /\ UNCHANGED <<disk, stores, running, history>>

\* The writes, in the code's order: file, contents and what follows.
AfterEnsure == IF start.round = 1 THEN "serve" ELSE "verify"

Writes ==
  [writeCaKey  |-> [file |-> "caKey", value |-> start.ca, next |-> "caCertificate"],
   writeCaPem  |-> [file |-> "caPem", value |-> start.ca, next |-> "writeCaDer"],
   writeCaDer  |-> [file |-> "caDer", value |-> start.ca, next |-> "certificate"],
   writeDer    |-> [file |-> "der", value |-> [pair |-> start.pair, ca |-> start.ca],
                    next |-> "writeKey"],
   writeKey    |-> [file |-> "key", value |-> start.pair, next |-> "writePem"],
   writePem    |-> [file |-> "pem", value |-> start.pair, next |-> "trust"],
   writeMarker |-> [file |-> "marker", value |-> 0, next |-> AfterEnsure]]

WriteFile ==
  /\ at \in DOMAIN Writes
  /\ disk' = [disk EXCEPT ![Writes[at].file] = Holding(Writes[at].value)]
  /\ at' = Writes[at].next
  /\ UNCHANGED <<stores, pairs, start, running, history>>

Trust ==
  /\ at = "trust"
  /\ at' = IF start.new \/ ~Exists("marker") THEN "install" ELSE AfterEnsure
  /\ UNCHANGED <<disk, stores, pairs, start, running, history>>

\* A failed installation is logged and passed over.
InstallRegardless ==
  /\ at = "install"
  /\ at' = "writeMarker"
  /\ trusted' \in {trusted, trusted \cup {disk["caPem"].value}}
  /\ distrusted' = FALSE
  /\ UNCHANGED <<disk, browsers, pairs, start, running, fault>>

\* install_ca_linux_nss_fallback and install_ca_in_nss_database: the authority's
\* name is removed from a browser's database before the authority is added.
NssInstalled == {disk["caPem"].value}
NssFailed == {browsers, {}}

\* install_ca_to_user_trust_store: the system's store or, when its commands
\* fail, a browser's.
Install ==
  /\ at = "install"
  /\ \/ /\ disk["caPem"] # Torn
        /\ trusted' = trusted \cup {disk["caPem"].value}
        /\ distrusted' = FALSE
        /\ at' = "writeMarker"
        /\ UNCHANGED <<browsers, fault>>
     \/ /\ disk["caPem"] # Torn
        /\ browsers' = NssInstalled
        /\ distrusted' = FALSE
        /\ at' = "writeMarker"
        /\ fault' = TRUE
        /\ UNCHANGED trusted
     \/ /\ browsers' \in NssFailed
        /\ at' = "failed"
        /\ fault' = TRUE
        /\ UNCHANGED <<trusted, distrusted>>
  /\ UNCHANGED <<disk, pairs, start, running>>

----------------------------------------------------------------------------
(* The server and its check of itself.                                     *)

\* build_server_config: certificate and key must parse and belong together.
Usable ==
  /\ disk["der"].is = "whole"
  /\ disk["key"].is = "whole"
  /\ disk["der"].value.pair = disk["key"].value

\* start_unified_localhost_server: an unusable configuration is logged, and
\* the state is set to ready all the same.
Serve ==
  /\ at = "serve"
  /\ serving' = IF Usable THEN disk["der"] ELSE Absent
  /\ ready' = TRUE
  /\ at' = "verify"
  /\ UNCHANGED <<disk, stores, pairs, start, open, closers, history>>

\* The check goes through the system's store.  The routes it asks for belong to
\* the normal router.
Reachable ==
  /\ serving.is = "whole"
  /\ serving.value.ca \in trusted
  /\ start.router = "normal"

Unverified == IF start.round = 1 THEN "invalidate" ELSE "failed"

\* verify_localhost_server; the authority's certificate is sent along, and a
\* client may reject one it cannot parse.
Verify ==
  /\ at = "verify"
  /\ \/ Reachable /\ at' = "window"
     \/ (~Reachable \/ disk["caDer"] = Torn) /\ at' = Unverified
  /\ UNCHANGED <<disk, stores, pairs, start, running, history>>

InvalidateTrust ==
  /\ at = "invalidate"
  /\ disk' = [disk EXCEPT !["marker"] = Absent]
  /\ start' = [start EXCEPT !.round = 2, !.new = FALSE]
  /\ at' = "caKey"
  /\ UNCHANGED <<stores, pairs, running, history>>

----------------------------------------------------------------------------
(* Closing.                                                                *)

\* A request accepted while the server runs, and its end.
Accept ==
  /\ at = "window" /\ serving.is = "whole" /\ open < MaxOpen
  /\ open' = open + 1
  /\ UNCHANGED <<disk, stores, pairs, at, start, serving, ready, closers, history>>

RequestAnswered ==
  /\ open > 0
  /\ open' = open - 1
  /\ UNCHANGED <<disk, stores, pairs, at, start, serving, ready, closers, history>>

\* close: the base URL is withdrawn first.
CloseWindow(c) ==
  /\ at = "window" /\ closers[c] = "idle"
  /\ ready' = FALSE
  /\ closers' = [closers EXCEPT ![c] = "lock"]
  /\ UNCHANGED <<disk, stores, pairs, at, start, serving, open, history>>

\* The lock is released once the server has been taken.
TakeServerUnlocked(c) ==
  /\ closers[c] = "lock"
  /\ serving' = Closed
  /\ closers' = [closers EXCEPT ![c] = IF serving = Closed THEN "done" ELSE "drain"]
  /\ UNCHANGED <<disk, stores, pairs, at, start, ready, open, history>>

\* The guard of the lock lives as long as the server taken from it closes.
TakeServer(c) ==
  /\ closers[c] = "lock"
  /\ \A d \in Closer : closers[d] # "drain"
  /\ serving' = Closed
  /\ closers' = [closers EXCEPT ![c] = IF serving = Closed THEN "done" ELSE "drain"]
  /\ UNCHANGED <<disk, stores, pairs, at, start, ready, open, history>>

\* LocalhostServer::close: graceful shutdown ends with the last open request.
Drain(c) ==
  /\ closers[c] = "drain" /\ open = 0
  /\ closers' = [closers EXCEPT ![c] = "done"]
  /\ UNCHANGED <<disk, stores, pairs, at, start, serving, ready, open, history>>

----------------------------------------------------------------------------
\* The process is gone: what it held is gone with it.
Gone ==
  /\ at' = "down"
  /\ start' = Fresh
  /\ serving' = Absent
  /\ ready' = FALSE
  /\ open' = 0
  /\ closers' = [c \in Closer |-> "idle"]

Quit ==
  /\ at = "failed" \/ \E c \in Closer : closers[c] = "done"
  /\ Gone
  /\ fault' = FALSE
  /\ UNCHANGED <<disk, stores, pairs, distrusted>>

\* The process dies, possibly inside a write.
Kill ==
  /\ at # "down"
  /\ \/ UNCHANGED disk
     \/ at \in DOMAIN Writes /\ disk' = [disk EXCEPT ![Writes[at].file] = Torn]
  /\ Gone
  /\ fault' = FALSE
  /\ UNCHANGED <<stores, pairs, distrusted>>

\* A call of the operating system fails, a write possibly halfway.  A check of
\* the server that fails for reasons of its own leads where a refusal leads.
OsFault ==
  /\ at \notin {"down", "install", "window", "failed"}
  /\ \/ UNCHANGED disk
     \/ at \in DOMAIN Writes /\ disk' = [disk EXCEPT ![Writes[at].file] = Torn]
  /\ at' = IF at = "verify" THEN Unverified ELSE "failed"
  /\ fault' = TRUE
  /\ UNCHANGED <<stores, pairs, start, running, distrusted>>

\* The user removes the authority from the stores.
Distrust ==
  /\ trusted \cup browsers # {}
  /\ trusted' = {} /\ browsers' = {}
  /\ distrusted' = TRUE
  /\ fault' = (at # "down")
  /\ UNCHANGED <<disk, pairs, at, start, running>>

DesktopNext ==
  \/ Launch \/ LoadOrCreateCa \/ EnsureCaCertificate \/ LoadOrCreateCertificate
  \/ WriteFile \/ Trust \/ Install
  \/ Serve \/ Verify \/ InvalidateTrust
  \/ Accept \/ RequestAnswered
  \/ \E c \in Closer : CloseWindow(c) \/ TakeServer(c) \/ Drain(c)
  \/ Quit \/ Kill \/ OsFault \/ Distrust

DesktopSpec == DesktopInit /\ [][DesktopNext]_desktopVars

----------------------------------------------------------------------------
Contents(values) == {Absent, Torn} \cup {Holding(x) : x \in values}

\* Type invariant: a file holds what belongs in it.
DesktopTypeOK ==
  /\ \A f \in {"caKey", "caPem", "caDer", "key", "pem"} : disk[f] \in Contents(Pair)
  /\ disk["der"] \in Contents(Certificate)
  /\ disk["marker"] \in Contents({0})
  /\ trusted \subseteq Pair /\ browsers \subseteq Pair
  /\ pairs \in 0..MaxPairs
  /\ start.ca \in 0..MaxPairs /\ start.pair \in 0..MaxPairs
  /\ serving \in Contents(Certificate) \cup {Closed}
  /\ closers \in [Closer -> {"idle", "lock", "drain", "done"}]

\* The marker file stands for an installed authority: after any sequence of
\* deaths, torn writes and failed installations, a marker means that the
\* authority on disk is in the system's or a browser's store, unless the user took it out
\* (ensure_localhost_certificate).
MarkerMeansTrusted ==
  Exists("marker") =>
    distrusted \/ (disk["caKey"].is = "whole" /\ disk["caKey"].value \in trusted \cup browsers)

\* Starts heal what earlier ones left: over whatever mixture of files deaths
\* and failed writes have produced, whatever the user removed from the trust
\* stores and even if only a browser's had taken the authority, a start of the
\* normal router in which nothing fails opens the window.
\* The files no start rewrites are the authority's key and its DER certificate:
\* torn, they stay torn (load_or_create_ca, ensure_ca_certificate_pem).
FailureHasCause ==
  at = "failed" /\ start.router = "normal" =>
    fault \/ disk["caKey"] = Torn \/ disk["caDer"] = Torn

\* Whoever closes the application, and however many do at once, the process
\* does not exit before the last request the server accepted has been answered
\* (close, LocalhostServer::close).
ExitAfterDrain == \A c \in Closer : closers[c] = "done" => open = 0

\* A start in which nothing fails opens the window, in setup as in normal
\* operation (verify_localhost_server).
HealthyStartOpens ==
  at = "failed" => fault \/ disk["caKey"] = Torn \/ disk["caDer"] = Torn
=============================================================================
