------------------------- MODULE InstallationSetup -------------------------
(***************************************************************************)
(* Creating a new system in the desktop application: POST /setup/new runs  *)
(* the bootstrap baseline one repository call at a time, any of which may  *)
(* fail, be overtaken by a second request or be cut short by the end of    *)
(* the process; the application decides at its next start whether the      *)
(* installation is ready; Reset Device takes everything away again.        *)
(*                                                                         *)
(* Rows live in the replica database and outlive the process, private keys *)
(* live in the operating system's keyring under a service name that is the *)
(* issuer, i.e. the origin of the localhost server of the running process. *)
(***************************************************************************)
EXTENDS Integers, Sequences

CONSTANTS Task,            \* requests to /setup/new in flight
          User,            \* administrator names a request may carry
          Origin,          \* base URLs the localhost server may get at start
          Identity,        \* device keys the keyring may generate
          SameDirectory,   \* the platform's config and data directories coincide
          None

ASSUME SetupAssumption ==
  /\ SameDirectory \in BOOLEAN
  /\ None \notin Identity \cup Origin \cup User
  /\ User \cap {"lidp", "idp-management"} = {}

VARIABLES app,         \* the process: down, setup, router, closing or erasing
          identity,    \* device key held in the keyring
          origin,      \* base URL, and so issuer, of the running process
          tables,      \* the schema has been created
          rows,        \* baseline rows other than clients, keys and devices
          clients,     \* origin each built-in client's row was written for
          keys,        \* root key rows
          devices,     \* device rows
          ring,        \* private keys in the keyring
          calls,       \* the requests
          erased,      \* a reset has finished and no setup has begun since
          disturbed    \* requests that met an error or overlapped another one

db == <<tables, rows, clients, keys, devices>>
vars == <<app, identity, origin, db, ring, calls, erased, disturbed>>

----------------------------------------------------------------------------
(* The baseline, in the order it is ensured.                               *)

Builtin == {"lidp", "idp-management"}
RowKind == {"application", "user", "role", "permission",
            "rolePermission", "userRole"}
Step == [kind : RowKind \cup {"client", "key", "device"}, of : Builtin \cup User]

Ensure(kind, of) == [kind |-> kind, of |-> of]

ensure_system_baseline(u) ==
  << Ensure("application", "lidp"),
     Ensure("client", "lidp"),
     Ensure("key", "lidp"),
     Ensure("application", "idp-management"),
     Ensure("client", "idp-management"),
     Ensure("key", "idp-management"),
     Ensure("user", u),
     Ensure("device", u),
     Ensure("role", "idp-management"),
     Ensure("permission", "idp-management"),
     Ensure("rolePermission", "idp-management"),
     Ensure("userRole", u),
     Ensure("key", u) >>

Steps == 13

Master == -1
PrivateKey(o, e, path) == [origin |-> o, of |-> e, path |-> path]

KeysOf(e) == {k \in keys : k.of = e}
UsedIndex == {k.index : k \in keys}

\* The row created last; indices only grow.
find_active_entity_root_key(e) ==
  {k \in KeysOf(e) : \A other \in KeysOf(e) : other.index =< k.index}

\* create_key's index: one more than the largest in use.
derivation_index ==
  {i \in {0} \cup {j + 1 : j \in UsedIndex} : \A j \in UsedIndex : j < i}

Stage ==
  IF ~tables \/ devices = {} THEN "Installation"
  ELSE IF \E d \in devices : d.approved THEN "Ready" ELSE "Device"

----------------------------------------------------------------------------
Idle == [at |-> "idle", pc |-> 1, user |-> None, index |-> 0]
Working == {"guard", "look", "update", "insert", "master", "index", "store", "derive"}
Answered == {"created", "refused", "failed"}

Current(t) == ensure_system_baseline(calls[t].user)[calls[t].pc]

At(t, place, kinds) ==
  /\ calls[t].at = place
  /\ Current(t).kind \in kinds

Goto(t, place) == calls' = [calls EXCEPT ![t].at = place]

\* The current ensure call has returned.
Advanced(c) ==
  IF c.pc = Steps THEN [c EXCEPT !.at = "created"]
  ELSE [c EXCEPT !.pc = @ + 1, !.at = "look"]

Advance(t) == calls' = [calls EXCEPT ![t] = Advanced(calls[t])]

Init ==
  /\ app = "down"
  /\ identity = None
  /\ origin \in Origin
  /\ tables = FALSE
  /\ rows = {}
  /\ clients = [c \in Builtin |-> None]
  /\ keys = {}
  /\ devices = {}
  /\ ring = {}
  /\ calls = [t \in Task |-> Idle]
  /\ erased = FALSE
  /\ disturbed = {}

----------------------------------------------------------------------------
(* POST /setup/new.                                                        *)

\* The request is accepted and the schema brought up.
create_system(t, u) ==
  LET others == {s \in Task : calls[s].at # "idle"} IN
  /\ app = "setup"
  /\ calls[t].at = "idle"
  /\ calls' = [calls EXCEPT ![t] = [at |-> "guard", pc |-> 1, user |-> u, index |-> 0]]
  /\ tables' = TRUE
  /\ erased' = FALSE
  /\ disturbed' = IF others = {} THEN {} ELSE others \cup {t}
  /\ UNCHANGED <<app, identity, origin, rows, clients, keys, devices, ring>>

\* has_any: an installation with a device row is not created again.
has_any(t) ==
  /\ calls[t].at = "guard"
  /\ Goto(t, IF devices = {} THEN "look" ELSE "refused")
  /\ UNCHANGED <<app, identity, origin, db, ring, erased, disturbed>>

\* Look a baseline row up.
Look(t, kind) ==
  /\ At(t, "look", {kind})
  /\ IF Current(t) \in rows THEN Advance(t) ELSE Goto(t, "insert")
  /\ UNCHANGED <<app, identity, origin, db, ring, erased, disturbed>>

\* Insert it: a row inserted meanwhile violates the table's unique index.
Insert(t, kind) ==
  /\ At(t, "insert", {kind})
  /\ IF Current(t) \in rows
     THEN Goto(t, "failed") /\ UNCHANGED rows
     ELSE rows' = rows \cup {Current(t)} /\ Advance(t)
  /\ UNCHANGED <<app, identity, origin, tables, clients, keys, devices, ring, erased, disturbed>>

\* The relation repositories look once more and may see the row in time.
Seen(t, kind) ==
  /\ At(t, "insert", {kind})
  /\ Current(t) \in rows
  /\ Advance(t)
  /\ UNCHANGED <<app, identity, origin, db, ring, erased, disturbed>>

ensure_application(t) == Look(t, "application")
create_application(t) == Insert(t, "application")
ensure_admin_user(t) == Look(t, "user")
create_user_with_password(t) == Insert(t, "user")
ensure_role(t) == Look(t, "role")
create_role(t) == Insert(t, "role")
ensure_permission(t) == Look(t, "permission")
create_permission(t) == Insert(t, "permission")
ensure_role_permission(t) == Look(t, "rolePermission")
add_permission_to_role(t) == Insert(t, "rolePermission") \/ Seen(t, "rolePermission")
ensure_user_role(t) == Look(t, "userRole")
add_role_to_user(t) == Insert(t, "userRole") \/ Seen(t, "userRole")

EnsureRow(t) ==
  \/ ensure_application(t) \/ create_application(t)
  \/ ensure_admin_user(t) \/ create_user_with_password(t)
  \/ ensure_role(t) \/ create_role(t)
  \/ ensure_permission(t) \/ create_permission(t)
  \/ ensure_role_permission(t) \/ add_permission_to_role(t)
  \/ ensure_user_role(t) \/ add_role_to_user(t)

\* The lookup is forgotten: every run inserts the client.
ensure_client_mutant(t) ==
  /\ At(t, "look", {"client"})
  /\ Goto(t, "insert")
  /\ UNCHANGED <<app, identity, origin, db, ring, erased, disturbed>>

\* ensure_client: an existing client is brought up to date.
ensure_client(t) ==
  /\ At(t, "look", {"client"})
  /\ IF clients[Current(t).of] = None THEN Goto(t, "insert")
     ELSE IF clients[Current(t).of] = origin THEN Advance(t)
     ELSE Goto(t, "update")
  /\ UNCHANGED <<app, identity, origin, db, ring, erased, disturbed>>

update_client(t) ==
  /\ At(t, "update", {"client"})
  /\ clients' = [clients EXCEPT ![Current(t).of] = origin]
  /\ Advance(t)
  /\ UNCHANGED <<app, identity, origin, tables, rows, keys, devices, ring, erased, disturbed>>

\* create_client: the row first, its key material afterwards.
create_client(t) ==
  /\ At(t, "insert", {"client"})
  /\ IF clients[Current(t).of] = None
     THEN /\ clients' = [clients EXCEPT ![Current(t).of] = origin]
          /\ Goto(t, "master")
     ELSE Goto(t, "failed") /\ UNCHANGED clients
  /\ UNCHANGED <<app, identity, origin, tables, rows, keys, devices, ring, erased, disturbed>>

ensure_entity_master_key(t) ==
  /\ At(t, "master", {"client"})
  /\ ring' = ring \cup {PrivateKey(origin, Current(t).of, Master)}
  /\ Goto(t, "index")
  /\ UNCHANGED <<app, identity, origin, db, erased, disturbed>>

\* An existing row is taken for a usable key.
ensure_active_key_mutant(t) ==
  LET e == Current(t).of IN
  /\ At(t, "look", {"key"})
  /\ ring' = ring \cup {PrivateKey(origin, e, Master)}
  /\ IF KeysOf(e) = {} THEN Goto(t, "index") ELSE Advance(t)
  /\ UNCHANGED <<app, identity, origin, db, erased, disturbed>>

\* ensure_active_key: the master key, then the private half of an existing row
\* or a new key.
ensure_active_key(t) ==
  LET e == Current(t).of IN
  /\ At(t, "look", {"key"})
  /\ IF KeysOf(e) = {}
     THEN /\ ring' = ring \cup {PrivateKey(origin, e, Master)}
          /\ Goto(t, "index")
     ELSE /\ \E k \in find_active_entity_root_key(e) :
               ring' = ring \cup {PrivateKey(origin, e, Master),
                                  PrivateKey(origin, e, k.index)}
          /\ Advance(t)
  /\ UNCHANGED <<app, identity, origin, db, erased, disturbed>>

\* create_key: read the next index, insert the row, derive the private key.
read_index(t) ==
  /\ At(t, "index", {"client", "key"})
  /\ \E i \in derivation_index :
       calls' = [calls EXCEPT ![t] = [@ EXCEPT !.at = "store", !.index = i]]
  /\ UNCHANGED <<app, identity, origin, db, ring, erased, disturbed>>

insert_key(t) ==
  /\ At(t, "store", {"client", "key"})
  /\ IF calls[t].index \in UsedIndex
     THEN Goto(t, "failed") /\ UNCHANGED keys
     ELSE /\ keys' = keys \cup {[of |-> Current(t).of, index |-> calls[t].index]}
          /\ Goto(t, "derive")
  /\ UNCHANGED <<app, identity, origin, tables, rows, clients, devices, ring, erased, disturbed>>

ensure_derivation_path(t) ==
  /\ At(t, "derive", {"client", "key"})
  /\ ring' = ring \cup {PrivateKey(origin, Current(t).of, calls[t].index)}
  /\ Advance(t)
  /\ UNCHANGED <<app, identity, origin, db, erased, disturbed>>

ensure_bootstrap_device(t) ==
  /\ At(t, "look", {"device"})
  /\ IF devices = {} THEN Goto(t, "insert") ELSE Advance(t)
  /\ UNCHANGED <<app, identity, origin, db, ring, erased, disturbed>>

\* DeviceRepo::create: the first row is approved; the public key is unique.
create_device(t) ==
  /\ At(t, "insert", {"device"})
  /\ IF \E d \in devices : d.key = identity
     THEN Goto(t, "failed") /\ UNCHANGED devices
     ELSE /\ devices' = devices \cup
               {[key |-> identity, owner |-> calls[t].user, approved |-> devices = {}]}
          /\ Advance(t)
  /\ UNCHANGED <<app, identity, origin, tables, rows, clients, keys, ring, erased, disturbed>>

\* Any repository or keyring call may report an error, and a client that hangs
\* up drops its request between two calls.
Fail(t) ==
  /\ calls[t].at \in Working
  /\ Goto(t, "failed")
  /\ disturbed' = disturbed \cup {t}
  /\ UNCHANGED <<app, identity, origin, db, ring, erased>>

Answer(t) ==
  /\ calls[t].at \in Answered
  /\ calls' = [calls EXCEPT ![t] = Idle]
  /\ disturbed' = disturbed \ {t}
  /\ UNCHANGED <<app, identity, origin, db, ring, erased>>

----------------------------------------------------------------------------
(* The process.                                                            *)

\* run: the device key is loaded or generated, the server takes a free port,
\* and an approved device row decides between the normal and setup routers; an
\* installation whose stage cannot be read gets the setup router.
run ==
  /\ app = "down"
  /\ IF identity = None
     THEN identity' \in Identity \ {d.key : d \in devices}
     ELSE UNCHANGED identity
  /\ origin' \in Origin
  /\ app' \in {"setup"} \cup {a \in {"router"} : Stage = "Ready"}
  /\ UNCHANGED <<db, ring, calls, erased, disturbed>>

Exit ==
  /\ app # "down"
  /\ app' = "down"
  /\ calls' = [t \in Task |-> Idle]
  /\ disturbed' = {}
  /\ UNCHANGED <<identity, origin, db, ring, erased>>

\* reset_device: a ready installation tries to revoke its own row, then the
\* server closes, letting the requests it has accepted finish.
reset_device ==
  /\ app \in {"setup", "router"}
  /\ \/ UNCHANGED devices
     \/ /\ app = "router"
        /\ devices' = {IF d.key = identity THEN [d EXCEPT !.approved = FALSE] ELSE d :
                         d \in devices}
  /\ app' = "closing"
  /\ UNCHANGED <<identity, origin, tables, rows, clients, keys, ring, calls, erased, disturbed>>

delete_device_identity ==
  /\ app = "closing"
  /\ \A t \in Task : calls[t].at = "idle"
  /\ identity' = None
  /\ app' = "erasing"
  /\ UNCHANGED <<origin, db, ring, calls, erased, disturbed>>

\* The files are removed from the data directory; the database was opened in
\* the config directory. Keyring entries of entities without a row are never
\* named again, so they leave the model with the rows.
remove_local_reset_data ==
  /\ app = "erasing"
  /\ IF SameDirectory
     THEN /\ tables' = FALSE
          /\ rows' = {}
          /\ clients' = [c \in Builtin |-> None]
          /\ keys' = {}
          /\ devices' = {}
          /\ ring' = {}
     ELSE UNCHANGED <<db, ring>>
  /\ erased' = TRUE
  /\ app' = "down"
  /\ UNCHANGED <<identity, origin, calls, disturbed>>

----------------------------------------------------------------------------
Progress(t) ==
  \/ has_any(t) \/ EnsureRow(t)
  \/ ensure_client(t) \/ update_client(t) \/ create_client(t)
  \/ ensure_entity_master_key(t) \/ ensure_active_key(t)
  \/ read_index(t) \/ insert_key(t) \/ ensure_derivation_path(t)
  \/ ensure_bootstrap_device(t) \/ create_device(t)
  \/ Answer(t)

Erase == delete_device_identity \/ remove_local_reset_data

Next ==
  \/ \E t \in Task : (\E u \in User : create_system(t, u)) \/ Progress(t) \/ Fail(t)
  \/ run \/ Exit \/ reset_device \/ Erase

Spec == Init /\ [][Next]_vars

----------------------------------------------------------------------------
Call == [at : {"idle"} \cup Working \cup Answered, pc : 1..Steps,
         user : User \cup {None}, index : Nat]

\* Type invariant of the setup state.
TypeOK ==
  /\ app \in {"down", "setup", "router", "closing", "erasing"}
  /\ identity \in Identity \cup {None}
  /\ origin \in Origin
  /\ tables \in BOOLEAN
  /\ rows \subseteq {s \in Step : s.kind \in RowKind}
  /\ clients \in [Builtin -> Origin \cup {None}]
  /\ keys \subseteq [of : Builtin \cup User, index : Nat]
  /\ devices \subseteq [key : Identity, owner : User, approved : BOOLEAN]
  /\ ring \subseteq [origin : Origin, of : Builtin \cup User, path : Nat \cup {Master}]
  /\ calls \in [Task -> Call]
  /\ erased \in BOOLEAN
  /\ disturbed \subseteq Task

\* What one ensure call of the baseline leaves behind.
Established(s) ==
  /\ s.kind \in RowKind => s \in rows
  /\ s.kind = "client" => clients[s.of] = origin
  /\ s.kind = "key" => \E k \in KeysOf(s.of) : PrivateKey(origin, s.of, k.index) \in ring
  /\ s.kind = "device" => \E d \in devices : d.approved /\ d.key = identity

Complete(u) == \A i \in 1..Steps : Established(ensure_system_baseline(u)[i])

\* A request answered with 204 leaves the whole baseline behind: every row, each
\* client registered for the running server, a private key in the keyring for
\* both clients and the administrator, and this device approved, whatever
\* earlier attempts left half done and whatever a second request does meanwhile
\* (create_system, ensure_system_baseline).
CreatedIsComplete ==
  \A t \in Task : calls[t].at = "created" => Complete(calls[t].user)

\* Overlapping requests never write two bootstrap devices, and the device
\* belongs to an administrator whose row exists (ensure_bootstrap_device,
\* devices_public_key).
OneBootstrapDevice ==
  /\ \A d, e \in devices : d = e
  /\ \A d \in devices : Ensure("user", d.owner) \in rows

\* A finished reset returns the runtime to Installation Setup (reset_device).
ResetReturnsToSetup == erased => Stage = "Installation"

\* The rows one ensure call leaves behind, whatever the keyring holds.
Written(s) ==
  /\ s.kind \in RowKind => s \in rows
  /\ s.kind = "client" => clients[s.of] # None
  /\ s.kind = "key" => KeysOf(s.of) # {}

Recorded(u) == \A i \in 1..Steps : Written(ensure_system_baseline(u)[i])

\* The baseline has been brought as far as the device row.
BeforeDevice == 7
RecordedToDevice(u) == \A i \in 1..BeforeDevice : Written(ensure_system_baseline(u)[i])

\* What repeating POST /setup/new comes to, from whatever part of the baseline
\* earlier errors, exits and administrators have left behind. A request that
\* meets no error of its own and no other request does not fail; and one is
\* refused with 409 only over a baseline that an earlier attempt has brought as
\* far as the device row, for that device's owner: both applications, their
\* clients and keys and the administrator's row are there, and what can be
\* missing is the administrator's role, permission and key, which come after it
\* (create_system, ensure_system_baseline, ensure_bootstrap_device).
RetryOutcome ==
  \A t \in Task :
    /\ calls[t].at = "failed" => t \in disturbed
    /\ calls[t].at = "refused" => \E d \in devices : RecordedToDevice(d.owner)

\* Bootstrap is idempotent and safe to run repeatedly: a request that meets no
\* error and no other request, and is told that the system exists, finds the
\* whole baseline on record (create_system's guard).
\* The code does not do this: an error past the device row leaves a baseline
\* every later request is refused for. TLC refutes the statement.
RefusedIsComplete ==
  \A t \in Task \ disturbed :
    calls[t].at = "refused" => \E u \in User : Recorded(u)

\* The normal router is started over a complete baseline only (run's ready).
\* The code does not do this: TLC refutes the statement, which is kept as the
\* exact form of a divergence the README describes.
RouterMeansComplete == app = "router" => \E u \in User : Recorded(u)

\* A signing key the baseline stored can be loaded by the router started over
\* it (load_signing_jwk).
\* The code does not do this: TLC refutes the statement, which is kept as the
\* exact form of a divergence the README describes.
SigningKeysLoadable ==
  app = "router" =>
    \A e \in Builtin \cup User, o \in Origin, k \in keys :
      PrivateKey(o, e, k.index) \in ring => PrivateKey(origin, e, k.index) \in ring
=============================================================================
