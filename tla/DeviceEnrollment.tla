-------------------------- MODULE DeviceEnrollment --------------------------
(***************************************************************************)
(* The device registry of one control plane and the bootstrap of devices   *)
(* that join it: DbDeviceRepo and DeviceEnrollmentService                  *)
(* (management-service), the setup and device routes, the registry of      *)
(* bootstrap grants and the bootstrap protocol handler (idp-server).       *)
(*                                                                         *)
(* Every request and every connection is a task.  A repository call reads  *)
(* and writes the database in separate statements with an await between    *)
(* them, so each statement is a step of its own.  The grant registry is in *)
(* memory and is lost when the process stops.  Module PeerAllowlist adds   *)
(* the transport that admits the connections.                              *)
(***************************************************************************)
EXTENDS Naturals, Sequences, FiniteSets

CONSTANTS
  Key,        \* public keys: the endpoint identities of devices
  LocalKey,   \* the key of the control plane's own device
  Owner,      \* subjects of access tokens
  Grant,      \* bootstrap tokens generate_random_string can return
  Task,       \* slots for requests and connections in flight
  None,       \* SQL NULL, or an absent entry
  Empty       \* the hash of zero bytes a caller without a code passes

ASSUME NoneAssumption == None \notin Key \cup Owner \cup Grant \cup {Empty}
ASSUME EmptyAssumption == Empty \notin Grant

VARIABLES
  devices,    \* the rows of table devices; a row's id is its position
  grants,     \* BootstrapRegistry.grants: None, or the grant of the token
  tasks,      \* the requests and connections in flight
  issuer      \* history: the subject a token was generated for

vars == <<devices, grants, tasks, issuer>>

State == {"pending", "approved", "revoked"}
Row == [key : Key, owner : Owner, state : State,
        code : Grant \cup {Empty, None}, fresh : BOOLEAN, pairing : Key \cup {None}]
GrantRecord == [key : Key, id : Nat, code : Grant \cup {Empty}, inUse : BOOLEAN, fresh : BOOLEAN]

\* A token stands for its hash too: the row keeps the hash, the code compares hashes.
Idle == [op |-> "none", pc |-> "idle", key |-> None, owner |-> None,
         grant |-> None, code |-> None, accepting |-> None, id |-> 0,
         state |-> "none", retry |-> FALSE]

Ids == 1..Len(devices)
Approved == {i \in Ids : devices[i].state = "approved"}
ApprovedKeys == {devices[i].key : i \in Approved}
WithKey(k) == {i \in Ids : devices[i].key = k}

Goto(t, pc) == tasks' = [tasks EXCEPT ![t].pc = pc]
Return(t) == tasks' = [tasks EXCEPT ![t] = Idle]
Start(t, call) == tasks[t] = Idle /\ tasks' = [tasks EXCEPT ![t] = call]

---------------------------------------------------------------------------
(* Creating a row: DbDeviceRepo::create, called by enroll and by           *)
(* create_pending_device                                                   *)

Insert(row) == devices' = Append(devices, row)

\* The first device of the table is approved as it is created.
CreateRead(t) ==
  /\ tasks[t].pc = "create"
  /\ tasks' = [tasks EXCEPT ![t].pc = "insert",
                            ![t].state = IF devices = <<>> THEN "approved" ELSE "pending"]
  /\ UNCHANGED <<devices, grants, issuer>>

\* The unique index on public_key fails the INSERT when the key has a row.
CreateInsert(t) ==
  LET c == tasks[t]
      pending == c.state = "pending"
  IN
  /\ c.pc = "insert"
  /\ IF WithKey(c.key) # {}
       THEN Goto(t, "error") /\ UNCHANGED devices
       ELSE /\ Insert([key |-> c.key, owner |-> c.owner, state |-> c.state,
                       code |-> IF pending THEN c.code ELSE None,
                       fresh |-> pending /\ c.code # Empty, pairing |-> None])
            /\ IF c.op = "register"
                 THEN tasks' = [tasks EXCEPT ![t].pc = "grant", ![t].id = Len(devices) + 1]
                 ELSE Return(t)
  /\ UNCHANGED <<grants, issuer>>

Enroll(t, k, o) ==
  /\ devices = <<>>
  /\ Start(t, [Idle EXCEPT !.op = "enroll", !.pc = "create", !.key = k,
                           !.owner = o, !.code = Empty])
  /\ UNCHANGED <<devices, grants, issuer>>

---------------------------------------------------------------------------
(* Revoking a row: DbDeviceRepo::revoke, called by the device route and by *)
(* register_bootstrap, which ignores its answer; and revoke_self           *)

AfterRevoke(t) == IF tasks[t].op = "register" THEN Goto(t, "create") ELSE Return(t)

RevokeRead(t) ==
  LET c == tasks[t]
      row == devices[c.id]
  IN
  /\ c.pc = "revoke"
  /\ IF row.owner # c.owner \/ row.key = LocalKey \/ row.state = "revoked"
       THEN AfterRevoke(t)
       ELSE tasks' = [tasks EXCEPT ![t].pc = "count", ![t].state = row.state]
  /\ UNCHANGED <<devices, grants, issuer>>

\* The last approved device is kept.
RevokeCount(t) ==
  /\ tasks[t].pc = "count"
  /\ IF tasks[t].state = "approved" /\ Cardinality(Approved) <= 1
       THEN AfterRevoke(t)
       ELSE Goto(t, "revokeWrite")
  /\ UNCHANGED <<devices, grants, issuer>>

RevokeWrite(t) ==
  /\ tasks[t].pc = "revokeWrite"
  /\ devices' = [devices EXCEPT ![tasks[t].id].state = "revoked"]
  /\ AfterRevoke(t)
  /\ UNCHANGED <<grants, issuer>>

Revoke(t, o, i) ==
  /\ i \in Ids
  /\ Start(t, [Idle EXCEPT !.op = "revoke", !.pc = "revoke", !.owner = o, !.id = i])
  /\ UNCHANGED <<devices, grants, issuer>>

RevokeSelf(t, k) ==
  /\ \E i \in WithKey(k) :
       /\ devices[i].state # "revoked"
       /\ Start(t, [Idle EXCEPT !.op = "revokeSelf", !.pc = "selfWrite", !.key = k, !.id = i])
  /\ UNCHANGED <<devices, grants, issuer>>

RevokeSelfWrite(t) ==
  /\ tasks[t].pc = "selfWrite"
  /\ devices' = [devices EXCEPT ![tasks[t].id].state = "revoked"]
  /\ Return(t)
  /\ UNCHANGED <<grants, issuer>>

---------------------------------------------------------------------------
(* Pairing: DeviceEnrollmentService::request_pairing and approve_pairing.  *)
(* The accepting device's signature is checked between the two reads of an *)
(* approval.                                                               *)

RequestPairing(t, k, accepting) ==
  /\ \E i \in WithKey(accepting) \cap Approved :
       Start(t, [Idle EXCEPT !.op = "pair", !.pc = "pairInsert", !.key = k,
                             !.owner = devices[i].owner, !.accepting = accepting])
  /\ UNCHANGED <<devices, grants, issuer>>

PairingInsert(t) ==
  LET c == tasks[t] IN
  /\ c.pc = "pairInsert"
  /\ IF WithKey(c.key) # {}
       THEN Goto(t, "error") /\ UNCHANGED devices
       ELSE /\ Insert([key |-> c.key, owner |-> c.owner, state |-> "pending",
                       code |-> None, fresh |-> FALSE, pairing |-> c.accepting])
            /\ Return(t)
  /\ UNCHANGED <<grants, issuer>>

PendingPairing(i) == devices[i].state = "pending" /\ devices[i].pairing # None

ApprovePairing(t, i) ==
  /\ i \in Ids /\ PendingPairing(i)
  /\ Start(t, [Idle EXCEPT !.op = "approvePairing", !.pc = "pairRead", !.id = i])
  /\ UNCHANGED <<devices, grants, issuer>>

PairingRead(t) ==
  /\ tasks[t].pc = "pairRead"
  /\ IF PendingPairing(tasks[t].id) THEN Goto(t, "pairWrite") ELSE Return(t)
  /\ UNCHANGED <<devices, grants, issuer>>

PairingWrite(t) ==
  /\ tasks[t].pc = "pairWrite"
  /\ devices' = [devices EXCEPT ![tasks[t].id].state = "approved",
                                ![tasks[t].id].pairing = None]
  /\ Return(t)
  /\ UNCHANGED <<grants, issuer>>

---------------------------------------------------------------------------
(* Registering for bootstrap: register_bootstrap and BootstrapRegistry     *)

\* An expired grant leaves the registry when the registry is next used.
Live == [g \in Grant |-> IF grants[g] # None /\ grants[g].fresh THEN grants[g] ELSE None]

\* Defect: any subject may register a known device.
AnyoneMayRegister(k, o) == TRUE

MayRegister(k, o) == \A i \in WithKey(k) : devices[i].owner = o

CodeFor(i, g) == IF devices[i].state = "approved" THEN Empty ELSE g

\* The request generates its token and lists the devices.  A row of another
\* owner ends it; an approved row needs no code.
Register(t, k, o, g) ==
  LET found == WithKey(k)
      call == [Idle EXCEPT !.op = "register", !.pc = "create", !.key = k, !.owner = o,
                           !.grant = g, !.code = g]
  IN
  /\ issuer[g] = None
  /\ MayRegister(k, o)
  /\ issuer' = [issuer EXCEPT ![g] = o]
  /\ \/ /\ found = {}
        /\ Start(t, call)
     \/ \E i \in found :
          Start(t, [call EXCEPT
            !.retry = devices[i].state = "pending" /\ devices[i].pairing = None,
            !.id = i,
            !.pc = CASE devices[i].state = "approved" -> "grant"
                     [] devices[i].state = "pending"  -> "revoke"
                     [] devices[i].state = "revoked"  -> "create",
            !.code = CodeFor(i, g)])
  /\ UNCHANGED <<devices, grants>>

\* BootstrapRegistry::register.
RegisterGrant(t) ==
  LET c == tasks[t] IN
  /\ c.pc = "grant"
  /\ grants' = [Live EXCEPT ![c.grant] = [key |-> c.key, id |-> c.id, code |-> c.code,
                                          inUse |-> FALSE, fresh |-> TRUE]]
  /\ Return(t)
  /\ UNCHANGED <<devices, issuer>>

\* The error response of a failed INSERT.
Refuse(t) ==
  /\ tasks[t].pc = "error"
  /\ Return(t)
  /\ UNCHANGED <<devices, grants, issuer>>

---------------------------------------------------------------------------
(* The bootstrap connection: BootstrapProtocolHandler::handle              *)

Reserved == {"get", "approve", "approveWrite", "lookup", "ack", "sync"}

\* Defect: a grant in use is handed out again.
ReservableAgain(k, g) == Live[g] # None /\ Live[g].key = k

Reservable(k, g) == Live[g] # None /\ Live[g].key = k /\ ~Live[g].inUse

Reserve(t, k, g) ==
  /\ tasks[t] = Idle
  /\ IF Reservable(k, g)
       THEN /\ grants' = [Live EXCEPT ![g].inUse = TRUE]
            /\ Start(t, [Idle EXCEPT !.op = "bootstrap", !.pc = "get", !.key = k, !.grant = g])
       ELSE grants' = Live /\ UNCHANGED tasks
  /\ UNCHANGED <<devices, issuer>>

\* BootstrapRegistry::finish, at every way out of the handler.
Finish(t, success) ==
  LET g == tasks[t].grant IN
  /\ grants' = IF grants[g] = None \/ grants[g].key # tasks[t].key THEN grants
               ELSE IF success THEN [grants EXCEPT ![g] = None]
               ELSE [grants EXCEPT ![g].inUse = FALSE]
  /\ Return(t)

\* The grant may have expired and been dropped since it was reserved.
GetGrant(t) ==
  LET g == grants[tasks[t].grant] IN
  /\ tasks[t].pc = "get"
  /\ IF g = None
       THEN Finish(t, FALSE)
       ELSE /\ tasks' = [tasks EXCEPT ![t].pc = "approve", ![t].id = g.id, ![t].code = g.code]
            /\ UNCHANGED grants
  /\ UNCHANGED <<devices, issuer>>

\* DbDeviceRepo::approve reads the row, and writes it in another statement.
ApproveRead(t) ==
  LET row == devices[tasks[t].id] IN
  /\ tasks[t].pc = "approve"
  /\ IF row.state = "pending" /\ row.code = tasks[t].code /\ row.fresh
       THEN Goto(t, "approveWrite")
       ELSE Goto(t, "lookup")
  /\ UNCHANGED <<devices, grants, issuer>>

ApproveWrite(t) ==
  /\ tasks[t].pc = "approveWrite"
  /\ devices' = [devices EXCEPT ![tasks[t].id].state = "approved",
                                ![tasks[t].id].code = None,
                                ![tasks[t].id].fresh = FALSE]
  /\ Goto(t, "ack")
  /\ UNCHANGED <<grants, issuer>>

\* find_approved_by_public_key: a device approved earlier may bootstrap again.
Lookup(t) ==
  /\ tasks[t].pc = "lookup"
  /\ IF WithKey(tasks[t].key) = {tasks[t].id} /\ tasks[t].id \in Approved
       THEN Goto(t, "ack") /\ UNCHANGED grants
       ELSE Finish(t, FALSE)
  /\ UNCHANGED <<devices, issuer>>

Acknowledge(t) ==
  /\ tasks[t].pc = "ack"
  /\ Goto(t, "sync")
  /\ UNCHANGED <<devices, grants, issuer>>

Synchronized(t) ==
  /\ tasks[t].pc = "sync"
  /\ Finish(t, TRUE)
  /\ UNCHANGED <<devices, issuer>>

\* A database error, a closed stream or an interrupted synchronization.
HandlerFails(t) ==
  /\ tasks[t].pc \in {"approve", "approveWrite", "lookup", "ack", "sync"}
  /\ Finish(t, FALSE)
  /\ UNCHANGED <<devices, issuer>>

---------------------------------------------------------------------------
(* Time, disconnecting clients and restarts                                *)

Expire ==
  /\ \/ /\ \E i \in Ids : devices[i].fresh /\ devices' = [devices EXCEPT ![i].fresh = FALSE]
        /\ UNCHANGED grants
     \/ /\ \E g \in Grant : /\ grants[g] # None /\ grants[g].fresh
                            /\ grants' = [grants EXCEPT ![g].fresh = FALSE]
        /\ UNCHANGED devices
  /\ UNCHANGED <<tasks, issuer>>

\* A client that goes away, or a database error, drops the request at an await.
Abandon(t) ==
  /\ tasks[t].op \notin {"none", "bootstrap"}
  /\ Return(t)
  /\ UNCHANGED <<devices, grants, issuer>>

\* The process stops and starts again with the durable rows.
Restart ==
  /\ grants' = [g \in Grant |-> None]
  /\ tasks' = [t \in Task |-> Idle]
  /\ UNCHANGED <<devices, issuer>>

---------------------------------------------------------------------------

Init ==
  /\ devices = <<>>
  /\ grants = [g \in Grant |-> None]
  /\ tasks = [t \in Task |-> Idle]
  /\ issuer = [g \in Grant |-> None]

Request(t) ==
  \/ \E k \in Key, o \in Owner : Enroll(t, k, o) \/ \E g \in Grant : Register(t, k, o, g)
  \/ \E o \in Owner, i \in Ids : Revoke(t, o, i)
  \/ \E k \in Key : RevokeSelf(t, k) \/ \E a \in Key : RequestPairing(t, k, a)
  \/ \E i \in Ids : ApprovePairing(t, i)

Repository(t) ==
  \/ CreateRead(t) \/ CreateInsert(t)
  \/ RevokeRead(t) \/ RevokeCount(t) \/ RevokeWrite(t) \/ RevokeSelfWrite(t)
  \/ PairingInsert(t) \/ PairingRead(t) \/ PairingWrite(t)
  \/ Refuse(t) \/ Abandon(t)

Bootstrap(t) ==
  \/ GetGrant(t) \/ ApproveRead(t) \/ ApproveWrite(t) \/ Lookup(t)
  \/ Acknowledge(t) \/ Synchronized(t) \/ HandlerFails(t)

Next ==
  \/ \E t \in Task : Request(t) \/ Repository(t) \/ RegisterGrant(t) \/ Bootstrap(t)
  \/ \E t \in Task, k \in Key, g \in Grant : Reserve(t, k, g)
  \/ Expire
  \/ Restart

Spec == Init /\ [][Next]_vars

---------------------------------------------------------------------------
(* Properties *)

Call == [op : {"none", "enroll", "register", "revoke", "revokeSelf", "pair",
               "approvePairing", "bootstrap"},
         pc : Reserved \cup {"idle", "create", "insert", "revoke", "count", "revokeWrite",
               "selfWrite", "pairInsert", "pairRead", "pairWrite", "grant", "error"},
         key : Key \cup {None}, owner : Owner \cup {None}, grant : Grant \cup {None},
         code : Grant \cup {Empty, None}, accepting : Key \cup {None}, id : Nat,
         state : State \cup {"none"}, retry : BOOLEAN]

\* The table, the registry and the tasks keep their shape.
TypeOK ==
  /\ devices \in Seq(Row)
  /\ grants \in [Grant -> GrantRecord \cup {None}]
  /\ tasks \in [Task -> Call]
  /\ issuer \in [Grant -> Owner \cup {None}]

Holds(t, g) == tasks[t].pc \in Reserved /\ tasks[t].grant = g

\* BootstrapRegistry::reserve hands a grant to one connection at a time: no two
\* handlers are between reserve and finish with the same grant, also when the
\* grant expires and is dropped from the registry while a handler uses it.
GrantExclusive ==
  \A g \in Grant : \A t, u \in Task : Holds(t, g) /\ Holds(u, g) => t = u

\* Every way out of the handler releases its grant, so that a failed bootstrap
\* can be tried again: a grant marked in use has a handler at work on it.
GrantNotLeaked ==
  \A g \in Grant : grants[g] # None /\ grants[g].inUse => \E t \in Task : Holds(t, g)

\* The control-plane database is synchronized only with the device the grant was
\* issued for: its row holds the key of the connection, belongs to the subject
\* who asked for the grant, and has been approved.
SyncOnlyWithGrantee ==
  \A t \in Task : tasks[t].pc \in {"ack", "sync"} =>
    /\ tasks[t].id \in WithKey(tasks[t].key)
    /\ devices[tasks[t].id].owner = issuer[tasks[t].grant]
    /\ devices[tasks[t].id].state # "pending"

\* A device revoked while it joins keeps its revocation: it never regains trust
\* (CONTEXT.md:69).  Stated of the devices that join over the setup route; a
\* pairing, which no route exposes, has the same read and write.
\* The code does not do this: TLC refutes the statement, which is kept as the
\* exact form of a divergence the README describes.
RevokedStaysRevoked ==
  [][\A i \in Ids : devices[i].state = "revoked" /\ devices[i].pairing = None
       => devices'[i].state = "revoked"]_vars

\* A device whose bootstrap was interrupted while its row was pending registers
\* again for its owner, and is not refused: the retry register_bootstrap provides
\* for with its revoke and create of a pending row.
\* The code does not do this: TLC refutes the statement, which is kept as the
\* exact form of a divergence the README describes.
JoinCanBeRetried ==
  \A t \in Task : tasks[t].pc = "error" /\ tasks[t].key # LocalKey => ~tasks[t].retry

=============================================================================
