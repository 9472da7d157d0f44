---------------------------- MODULE AccessControl ----------------------------
(***************************************************************************)
(* Roles and permissions of the Management control plane: DbRoleRepo,      *)
(* DbPermissionRepo and the routes on them (management-service,            *)
(* management-server).  A request is authorised by four reads, one table   *)
(* after the other, and its write follows reads of its own; other requests *)
(* run between any two.  Deleting a role or a permission leaves the        *)
(* relations that name it behind.                                          *)
(*                                                                         *)
(* Rows are only inserted and deleted here, never updated, so no column is *)
(* ever conflicted and ensure_clear always succeeds; revoked_at is null in *)
(* every row.  A permission name is a sequence of words and separators.    *)
(***************************************************************************)
EXTENDS Naturals, Sequences

CONSTANTS
  Application,      \* applications that own roles and permissions
  Management,       \* the one of the built-in Management client
  Person,           \* users
  Owner,            \* the user the installation was set up with
  RoleName,
  PermissionName,
  Request,          \* slots for requests in flight
  MaxRows           \* bound on the rows ever inserted

ASSUME ApplicationAssumption == Management \in Application /\ Owner \in Person
ASSUME RowsAssumption == MaxRows \in Nat

VARIABLES
  rows,       \* every row ever inserted, of the four tables; the id is the position
  live,       \* the ids of the rows that are still there
  requests    \* the requests in flight

accessVars == <<rows, live, requests>>

RoleRow == [table : {"role"}, application : Application, name : RoleName \cup {<<"admin">>}]
PermissionRow ==
  [table : {"permission"}, application : Application, name : PermissionName \cup {<<"*">>}]
RolePermissionRow == [table : {"role_permission"}, role : Nat, permission : Nat]
UserRoleRow ==
  [table : {"user_role"}, user : Person, application : Application, role : Nat]

\* What the setup leaves behind: the owner administers the Management application.
Baseline ==
  <<[table |-> "role", application |-> Management, name |-> <<"admin">>],
    [table |-> "permission", application |-> Management, name |-> <<"*">>],
    [table |-> "role_permission", role |-> 1, permission |-> 2],
    [table |-> "user_role", user |-> Owner, application |-> Management, role |-> 1]>>

NoRequest == [pc |-> "idle"]

AccessInit ==
  /\ rows = Baseline
  /\ live = 1..4
  /\ requests = [r \in Request |-> NoRequest]

Table(name) == {i \in live : rows[i].table = name}

Continue(r, request) == requests' = [requests EXCEPT ![r] = request]
Answer(r) == Continue(r, NoRequest)

Beginning(p, s) == IF Len(p) > Len(s) THEN FALSE ELSE SubSeq(s, 1, Len(p)) = p

\* "*", the name itself, or a prefix before "*" whose last separator may be either.
PermissionMatches(granted, required) ==
  \/ granted = <<"*">> \/ granted = required
  \/ /\ granted # <<>> /\ granted[Len(granted)] = "*"
     /\ LET prefix == SubSeq(granted, 1, Len(granted) - 1)
            n == Len(prefix)
        IN  \/ Beginning(prefix, required)
            \/ /\ n > 0 /\ prefix[n] = ":"
               /\ Beginning([prefix EXCEPT ![n] = "."], required)
            \/ /\ n > 0 /\ prefix[n] = "."
               /\ Beginning([prefix EXCEPT ![n] = ":"], required)

RolesWrite == <<"roles", ".", "write">>
PermissionsWrite == <<"permissions", ".", "write">>

-----------------------------------------------------------------------------
(* require_application_permission: is the actor allowed?                     *)

\* The token's subject and the application of the client it was issued to.
Actor == [user : Person, application : Application]

\* gone is history: the rows that were deleted before the request began.
Ask(r, actor, need) ==
  /\ requests[r] = NoRequest
  /\ Continue(r, [pc |-> "user_roles", actor |-> actor, need |-> need,
                  gone |-> (1..Len(rows)) \ live])
  /\ UNCHANGED <<rows, live>>

ListUserRoles(r) ==
  LET q == requests[r] IN
  /\ q.pc = "user_roles"
  /\ Continue(r, [pc |-> "roles", need |-> q.need, actor |-> q.actor, gone |-> q.gone,
                  roles |-> {},
                  held |-> {rows[i].role : i \in
                              {j \in Table("user_role") :
                                /\ rows[j].user = q.actor.user
                                /\ rows[j].application = q.actor.application}}])
  /\ UNCHANGED <<rows, live>>

\* Found by id, in the application, and still there.
IsRole(application, id) == id \in Table("role") /\ rows[id].application = application
IsPermission(application, id) ==
  id \in Table("permission") /\ rows[id].application = application

TrustRelation(r) ==
  LET q == requests[r] IN
  /\ q.pc = "roles"
  /\ \E id \in q.held :
       Continue(r, [q EXCEPT !.held = @ \ {id}, !.roles = @ \cup {id}])
  /\ UNCHANGED <<rows, live>>

FindHeldRole(r) ==
  LET q == requests[r] IN
  /\ q.pc = "roles"
  /\ \E id \in q.held :
       Continue(r, [q EXCEPT !.held = @ \ {id},
                             !.roles = IF IsRole(q.actor.application, id)
                                       THEN @ \cup {id} ELSE @])
  /\ UNCHANGED <<rows, live>>

ListRolePermissions(r) ==
  LET q == requests[r] IN
  /\ q.pc = "roles" /\ q.held = {}
  /\ Continue(r, [pc |-> "permissions", need |-> q.need, actor |-> q.actor, gone |-> q.gone,
                  granted |-> {rows[i].permission : i \in
                                 {j \in Table("role_permission") : rows[j].role \in q.roles}}])
  /\ UNCHANGED <<rows, live>>

\* The decision: the request goes on to its operation, or is answered with an error.
HasPermission(r) ==
  LET q == requests[r]
      names == {rows[i].name : i \in {j \in q.granted : IsPermission(q.actor.application, j)}}
  IN  /\ q.pc = "permissions"
      /\ IF \E name \in names : PermissionMatches(name, q.need)
         THEN Continue(r, [pc |-> "allowed", need |-> q.need])
         ELSE Answer(r)
      /\ UNCHANGED <<rows, live>>

-----------------------------------------------------------------------------
(* The operations.  What a request asks for matters only once it is allowed, *)
(* so it is chosen there.  A row that a route looks for twice is looked for  *)
(* once: an id never comes back, so the second look fails if the first does. *)

\* INSERT fails on the unique index of the table, which spans the columns of its row.
Insert(r, row) ==
  \/ /\ Len(rows) < MaxRows
     /\ ~\E i \in live : rows[i] = row
     /\ rows' = Append(rows, row)
     /\ live' = live \cup {Len(rows) + 1}
     /\ Answer(r)
  \/ /\ \E i \in live : rows[i] = row
     /\ Answer(r)
     /\ UNCHANGED <<rows, live>>

Authorized(r, need) == requests[r].pc = "allowed" /\ requests[r].need = need

CreateRole(r) ==
  /\ Authorized(r, RolesWrite)
  /\ \E a \in Application, n \in RoleName :
       Insert(r, [table |-> "role", application |-> a, name |-> n])

CreatePermission(r) ==
  /\ Authorized(r, PermissionsWrite)
  /\ \E a \in Application, n \in PermissionName :
       Insert(r, [table |-> "permission", application |-> a, name |-> n])

\* The row is found in the application; its id is deleted in a later statement.
DeleteRole(r) ==
  /\ Authorized(r, RolesWrite)
  /\ \E a \in Application, id \in 1..Len(rows) :
       IF IsRole(a, id)
       THEN Continue(r, [pc |-> "delete", id |-> id, mark |-> 0, relation |-> {}])
       ELSE Answer(r)
  /\ UNCHANGED <<rows, live>>

DeletePermission(r) ==
  /\ Authorized(r, PermissionsWrite)
  /\ \E a \in Application, id \in 1..Len(rows) :
       IF IsPermission(a, id)
       THEN Continue(r, [pc |-> "delete", id |-> id, mark |-> 0, relation |-> {}])
       ELSE Answer(r)
  /\ UNCHANGED <<rows, live>>

DeleteRow(r) ==
  /\ requests[r].pc = "delete"
  /\ live' = live \ {requests[r].id}
  /\ Answer(r)
  /\ UNCHANGED rows

\* Adding and removing a relation both begin by finding the rows it relates.
Relating(row, adding) == [pc |-> "relation", row |-> row, adding |-> adding]

RoleOfUser(r) ==
  /\ Authorized(r, RolesWrite)
  /\ \E a \in Application, u \in Person, id \in 1..Len(rows), adding \in BOOLEAN :
       IF IsRole(a, id)
       THEN Continue(r, Relating([table |-> "user_role", user |-> u, application |-> a,
                                  role |-> id], adding))
       ELSE Answer(r)
  /\ UNCHANGED <<rows, live>>

PermissionOfRole(r) ==
  /\ Authorized(r, PermissionsWrite)
  /\ \E a \in Application, role, permission \in 1..Len(rows), adding \in BOOLEAN :
       IF IsRole(a, role)
       THEN Continue(r, [pc |-> "permission", application |-> a, adding |-> adding,
                         role |-> role, permission |-> permission])
       ELSE Answer(r)
  /\ UNCHANGED <<rows, live>>

RelationTo(q) ==
  Relating([table |-> "role_permission", role |-> q.role, permission |-> q.permission],
           q.adding)

FindPermission(r) ==
  LET q == requests[r] IN
  /\ q.pc = "permission"
  /\ IF IsPermission(q.application, q.permission)
     THEN Continue(r, RelationTo(q)) ELSE Answer(r)
  /\ UNCHANGED <<rows, live>>

\* mark and relation are history: the rows inserted so far, and the one to remove.
FindRelation(r) ==
  LET q == requests[r]
      found == {i \in live : rows[i] = q.row}
  IN  /\ q.pc = "relation"
      /\ \/ q.adding /\ found = {} /\ Continue(r, [pc |-> "insert", row |-> q.row])
         \/ q.adding /\ found # {} /\ Answer(r)
         \/ ~q.adding /\ found = {} /\ Answer(r)
         \/ /\ ~q.adding
            /\ \E i \in found : Continue(r, [pc |-> "delete", id |-> i,
                                             mark |-> Len(rows), relation |-> {q.row}])
      /\ UNCHANGED <<rows, live>>

InsertRelation(r) == requests[r].pc = "insert" /\ Insert(r, requests[r].row)

AccessNext ==
  \E r \in Request :
    \/ \E actor \in Actor, need \in {RolesWrite, PermissionsWrite} : Ask(r, actor, need)
    \/ ListUserRoles(r) \/ FindHeldRole(r) \/ ListRolePermissions(r) \/ HasPermission(r)
    \/ CreateRole(r) \/ CreatePermission(r)
    \/ DeleteRole(r) \/ DeletePermission(r) \/ DeleteRow(r)
    \/ RoleOfUser(r) \/ PermissionOfRole(r) \/ FindPermission(r)
    \/ FindRelation(r) \/ InsertRelation(r)

AccessSpec == AccessInit /\ [][AccessNext]_accessVars
-----------------------------------------------------------------------------
(* Properties *)

\* Rows and requests have their shape, and no two rows of a table are equal: two
\* requests that both found no relation cannot both insert it (role_repo.rs:264).
AccessTypeOK ==
  /\ \A i \in 1..Len(rows) :
       rows[i] \in RoleRow \cup PermissionRow \cup RolePermissionRow \cup UserRoleRow
  /\ live \subseteq 1..Len(rows)
  /\ \A i, j \in live : rows[i] = rows[j] => i = j
  /\ \A r \in Request :
       requests[r].pc \in {"idle", "user_roles", "roles", "permissions", "allowed",
                           "delete", "permission", "relation", "insert"}

\* The four rows that give an actor a permission matching the one needed, none of them
\* deleted before the request began.
Chain(actor, need, gone) ==
  \E i, j \in (1..Len(rows)) \ gone :
    /\ rows[i].table = "user_role" /\ rows[j].table = "role_permission"
    /\ rows[i].user = actor.user /\ rows[i].application = actor.application
    /\ rows[j].role = rows[i].role
    /\ rows[i].role \notin gone /\ rows[j].permission \notin gone
    /\ rows[rows[j].permission].application = actor.application
    /\ PermissionMatches(rows[rows[j].permission].name, need)

\* A request is allowed only by an assignment, a role, a grant and a permission that
\* were all still there when it began, or came later: whatever was revoked or deleted
\* before it, it does not profit from, although a deleted role leaves its assignments
\* and grants behind (has_user_application_permission, role_repo.rs:407).
GrantRestsOnRows ==
  [][\A r \in Request :
       requests[r].pc = "permissions" /\ requests'[r].pc = "allowed" =>
         Chain(requests[r].actor, requests[r].need, requests[r].gone)]_accessVars

\* A relation never crosses applications: an assignment names the application of its
\* role, and a role is granted permissions of its own application only, whichever ids
\* the path of a request combines (add_permission_to_role, permission_repo.rs:218).
WithinApplication ==
  \A i \in 1..Len(rows) :
    LET row == rows[i] IN
    /\ row.table = "user_role" => rows[row.role].application = row.application
    /\ row.table = "role_permission" =>
         rows[row.role].application = rows[row.permission].application

\* When removing a relation has succeeded, the same relation is there only if a request
\* inserted it after the removal had read it (remove_role_from_user, role_repo.rs:287,
\* and remove_permission_from_role).
RemovedIsGone ==
  [][\A r \in Request :
       requests[r].pc = "delete" /\ requests'[r] = NoRequest =>
         \A i \in live' : rows[i] \in requests[r].relation => i > requests[r].mark]_accessVars

=============================================================================
