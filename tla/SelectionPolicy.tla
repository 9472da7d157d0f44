-------------------------- MODULE SelectionPolicy --------------------------
(***************************************************************************)
(* The device selection policy of Management: DbSelectionPolicyRepo        *)
(* (management-service/src/replica/selection_policy.rs) under the routes   *)
(* of management-server/src/router/routes/{device_selection,replication}.  *)
(*                                                                         *)
(* Each replica of the control plane holds, for each device, one policy    *)
(* row (the last selected resource as three columns, and admin_allowed)    *)
(* and one resource row per resource ever selected.  Replicas change their *)
(* own copy and exchange state; conflicting columns are resolved when they *)
(* are read, always to the restrictive value, or fail the read.            *)
(*                                                                         *)
(* A request is a sequence of awaited statements.  Every write is a step   *)
(* of its own, later than the reads that decided it: what a request has    *)
(* read may be stale when it writes.  Consecutive reads are one step in    *)
(* three places: record's SELECT with the two checks around it, the first  *)
(* two reads of deselect_owned, and the reads of a resource row that tell  *)
(* whether it is selected and whether it exists.                           *)
(*                                                                         *)
(* One owner: no operation changes owner_subject.                          *)
(***************************************************************************)
EXTENDS ReplicatedRow, Sequences

CONSTANTS
  Replica,    \* replicas of the control plane database
  Device,     \* devices of the owner
  Resource,   \* resources of the owner, of every application and kind
  Client,     \* request slots: how many requests may be in flight
  AppOf,      \* the application of a resource
  KindOf,     \* "database" or "filesystem"
  Null,       \* SQL NULL
  MaxOps      \* bound on the number of changes

ASSUME MaxOpsAssumption == MaxOps \in Nat

VARIABLES
  policy,     \* policy[r][d][c]: cell c of the row of d in device_selection_policies
  rows,       \* rows[r][d][res]: cell "selected" of the row in device_resource_selections
  seen,       \* seen[r]: the changes replica r holds
  hist,       \* the changes, in the order they were made
  calls       \* calls[k]: the request in slot k, between two awaits

vars == <<policy, rows, seen, hist, calls>>
store == <<policy, rows, seen, hist>>

TripleCol == {"application_id", "selected_kind", "selected_id"}
Col == TripleCol \cup {"admin_allowed"}

\* The three columns that name a resource in the policy row.
Triple(res) == [c \in TripleCol |->
  CASE c = "application_id" -> AppOf[res]
    [] c = "selected_kind"  -> KindOf[res]
    [] c = "selected_id"    -> res]

NoTriple == [c \in TripleCol |-> Null]

\* The columns set_prevalidated writes: res, or no resource at all.
Target(res) == IF res = Null THEN NoTriple ELSE Triple(res)

Idle == [pc |-> "idle"]

---------------------------------------------------------------------------
(* Reading a policy row *)

Exists(p) == p["admin_allowed"] # {}

\* Defect: a conflict about admin_allowed is resolved in favour of access.
FailOpen == [c \in Col |-> IF c = "admin_allowed" THEN TRUE ELSE Null]

\* The value resolve_convergent_conflicts picks for a conflicted column.
FailClosed == [c \in Col |-> IF c = "admin_allowed" THEN FALSE ELSE Null]

Resolvable(p) ==
  \A c \in Col : Conflicted(p[c]) => FailClosed[c] \in Values(p[c])

\* The columns row_conflict_values reports.
Conflicts(p) == {c \in Col : Conflicted(p[c])}

\* resolve_row with the restrictive value for the columns cols.
ResolvePolicy(p, cols, op) ==
  [c \in Col |-> IF c \in cols THEN Write(p[c], op, FailClosed[c]) ELSE p[c]]

\* What a policy row without conflicts says.
AdminAllowed(p) == ValueOf(p["admin_allowed"])
TripleIsNull(p) == \A c \in TripleCol : ValueOf(p[c]) = Null
Complete(p) == TripleIsNull(p) \/ \A c \in TripleCol : ValueOf(p[c]) # Null

WriteTriple(p, op, t) ==
  [c \in Col |-> IF c \in TripleCol THEN Write(p[c], op, t[c]) ELSE p[c]]

InsertPolicy(p, op, t, allowed) ==
  [c \in Col |-> Write(p[c], op, IF c \in TripleCol THEN t[c] ELSE allowed)]

\* Defect: one true sibling is enough.
IsSelectedByAny(row) == \E s \in row : s.val

\* resource_selected: a conflict between true and false reads as false.
IsSelected(row) == row # {} /\ \A s \in row : s.val

\* UPDATE device_resource_selections SET selected = false WHERE device_id = d.
DeselectRows(rs, op) ==
  [res \in Resource |-> IF rs[res] = {} THEN {} ELSE Write(rs[res], op, FALSE)]

---------------------------------------------------------------------------

Init ==
  /\ policy = [r \in Replica |-> [d \in Device |-> [c \in Col |-> {}]]]
  /\ rows = [r \in Replica |-> [d \in Device |-> [res \in Resource |-> {}]]]
  /\ seen = [r \in Replica |-> {}]
  /\ hist = <<>>
  /\ calls = [k \in Client |-> Idle]

NextOp == Len(hist) + 1

\* The part of row new that differs from row old, with the values written.
Written(old, new) ==
  [x \in {y \in DOMAIN new : new[y] # old[y]} |-> ValueOf(new[x])]

\* Replica r replaces the rows of device d by p and rs.  The change, if there is
\* one, remembers what its author had seen (past) and what it wrote.
Commit(r, d, p, rs, act) ==
  IF p = policy[r][d] /\ rs = rows[r][d]
  THEN UNCHANGED store
  ELSE /\ NextOp <= MaxOps
       /\ policy' = [policy EXCEPT ![r][d] = p]
       /\ rows' = [rows EXCEPT ![r][d] = rs]
       /\ seen' = [seen EXCEPT ![r] = @ \cup {NextOp}]
       /\ hist' = Append(hist,
            [act  |-> act,
             dev  |-> d,
             past |-> seen[r],
             cols |-> Written(policy[r][d], p),
             rows |-> Written(rows[r][d], rs)])

---------------------------------------------------------------------------
(* Requests *)

Stands(k, pc) == calls[k].pc = pc

Goto(k, pc) == calls' = [calls EXCEPT ![k].pc = pc]

Ends(k) == calls' = [calls EXCEPT ![k] = Idle]

\* The request of slot k writes rows p and rs of its device.
Execute(k, p, rs, act) == Commit(calls[k].r, calls[k].d, p, rs, act)

PolicyRow(k) == policy[calls[k].r][calls[k].d]
ResourceRows(k) == rows[calls[k].r][calls[k].d]
ResourceRow(k) == ResourceRows(k)[calls[k].res]

\* The requests: PUT .../selection (set_prevalidated), DELETE .../selection
\* (deselect_owned), DELETE .../selection/{app}/{kind}/{res}
\* (deselect_resource_owned), set_admin_allowed_prevalidated, one end of
\* replication_admission (get, then resource_selected), and one resource of the
\* listing of selected_resources_for_device, which some sibling says is selected.
Requests(r, d) ==
  LET listed == {res \in Resource : \E s \in rows[r][d][res] : s.val}
  IN [op : {"set", "unselect", "get"}, pc : {"conflicts"}, r : {r}, d : {d},
      res : Resource, allowed : {TRUE}, cols : {{}}]
     \cup [op : {"admin"}, pc : {"conflicts"}, r : {r}, d : {d},
           res : {Null}, allowed : BOOLEAN, cols : {{}}]
     \cup [op : {"deselect"}, pc : {"any conflicts"}, r : {r}, d : {d},
           res : {Null}, allowed : {TRUE}, cols : {{}}]
     \cup [op : {"list"}, pc : {"row conflicts"}, r : {r}, d : {d},
           res : listed, allowed : {TRUE}, cols : {{}}]

\* resolve_convergent_conflicts, the read: a conflict without the restrictive value
\* among its siblings fails the request.
ReadConflicts(k, c) ==
  LET p == policy[c.r][c.d]
  IN /\ c.pc = "conflicts"
     /\ \/ Conflicts(p) = {} /\ calls' = [calls EXCEPT ![k] = [c EXCEPT !.pc = "policy"]]
        \/ /\ Conflicts(p) # {}
           /\ Resolvable(p)
           /\ calls' = [calls EXCEPT ![k] = [c EXCEPT !.pc = "resolve", !.cols = Conflicts(p)]]
        \/ ~Resolvable(p) /\ Ends(k)
     /\ UNCHANGED store

\* The first reads of deselect_owned: a conflict of admin_allowed or a missing row
\* ends it, any other conflict is to be resolved to NULL.
ReadAnyConflicts(k, c) ==
  LET p == policy[c.r][c.d]
      ends == Conflicted(p["admin_allowed"]) \/ ~Exists(p)
  IN /\ c.pc = "any conflicts"
     /\ \/ ends /\ Ends(k)
        \/ /\ ~ends
           /\ calls' = [calls EXCEPT ![k] =
                IF Conflicts(p) = {} THEN [c EXCEPT !.pc = "conflicts"]
                                     ELSE [c EXCEPT !.pc = "settle", !.cols = Conflicts(p)]]
     /\ UNCHANGED store

\* resolve_row, of the columns that were in conflict when they were read.
Resolve(k) ==
  /\ \/ Stands(k, "resolve") /\ calls' = [calls EXCEPT ![k].pc = "policy", ![k].cols = {}]
     \/ Stands(k, "settle") /\ calls' = [calls EXCEPT ![k].pc = "clear", ![k].cols = {}]
  /\ Execute(k, ResolvePolicy(PolicyRow(k), calls[k].cols, NextOp), ResourceRows(k), "resolve")

\* set_prevalidated, on the policy p that record returned.
SetDecides(k, p) ==
  LET unchanged == \A c \in TripleCol : ValueOf(p[c]) = Target(calls[k].res)[c]
      refused == ~Complete(p) \/ (calls[k].res # Null /\ ~AdminAllowed(p))
  IN /\ calls[k].op = "set"
     /\ \/ ~Exists(p) /\ Goto(k, "insert")
        \/ Exists(p) /\ refused /\ Ends(k)
        \/ Exists(p) /\ ~refused /\ Goto(k, IF unchanged THEN "clear" ELSE "update")

\* set_admin_allowed_prevalidated: without a policy row it goes on as a
\* set_prevalidated that names no resource.
AdminDecides(k, p) ==
  /\ calls[k].op = "admin"
  /\ \/ ~Exists(p) /\ calls' = [calls EXCEPT ![k].op = "set", ![k].pc = "conflicts"]
     \/ Exists(p) /\ AdminAllowed(p) = calls[k].allowed /\ Ends(k)
     \/ Exists(p) /\ AdminAllowed(p) # calls[k].allowed /\ Goto(k, "admin")

\* deselect_resource_owned goes on with a policy row; one end of
\* replication_admission with a complete one the administrator allows.
RowDecides(k, p) ==
  LET goes == /\ Exists(p)
              /\ calls[k].op = "get" => Complete(p) /\ AdminAllowed(p)
  IN /\ calls[k].op \in {"unselect", "get"}
     /\ IF goes THEN Goto(k, "row conflicts") ELSE Ends(k)

\* deselect_owned: a policy that names no resource is reported as deselected.
DeselectDecides(k, p) ==
  /\ calls[k].op = "deselect"
  /\ IF Exists(p) /\ ~TripleIsNull(p) THEN Goto(k, "deselect") ELSE Ends(k)

\* The rest of record: a conflict that is there again is an error.
ReadPolicy(k) ==
  /\ Stands(k, "policy")
  /\ IF Conflicts(PolicyRow(k)) # {}
     THEN Ends(k)
     ELSE \/ SetDecides(k, PolicyRow(k))
          \/ AdminDecides(k, PolicyRow(k))
          \/ RowDecides(k, PolicyRow(k))
          \/ DeselectDecides(k, PolicyRow(k))
  /\ UNCHANGED store

\* The UPDATE of set_prevalidated names the three columns only.
UpdatePolicy(k) ==
  /\ Stands(k, "update")
  /\ Execute(k, WriteTriple(PolicyRow(k), NextOp, Target(calls[k].res)), ResourceRows(k), "choose")
  /\ Goto(k, "clear")

\* The INSERT of set_prevalidated fails on a row that has appeared since.
InsertRow(k) ==
  LET c == calls[k]
      act == IF ~c.allowed THEN "restrict" ELSE IF c.res = Null THEN "allow" ELSE "choose"
  IN /\ Stands(k, "insert")
     /\ IF Exists(PolicyRow(k))
        THEN Ends(k) /\ UNCHANGED store
        ELSE /\ Execute(k, InsertPolicy(PolicyRow(k), NextOp, Target(c.res), c.allowed),
                        ResourceRows(k), act)
             /\ Goto(k, "clear")

\* clear: a conflict ends the request.  Then set_prevalidated goes on with the
\* resource rows, deselect_owned with record.
Clear(k) ==
  /\ Stands(k, "clear")
  /\ IF Conflicts(PolicyRow(k)) # {}
     THEN Ends(k)
     ELSE Goto(k, CASE calls[k].op = "deselect" -> "conflicts"
                    [] calls[k].op = "set" /\ calls[k].res = Null -> "rows off"
                    [] OTHER -> "row conflicts")
  /\ UNCHANGED store

\* The UPDATE of set_admin_allowed_prevalidated.
WriteAdminAllowed(k) ==
  /\ Stands(k, "admin")
  /\ Execute(k, [PolicyRow(k) EXCEPT !["admin_allowed"] = Write(@, NextOp, calls[k].allowed)],
             ResourceRows(k), IF calls[k].allowed THEN "allow" ELSE "restrict")
  /\ Ends(k)

\* The last statement of set_prevalidated without a resource, and of
\* deselect_owned: one transaction over both tables.
DeselectAll(k) ==
  /\ \/ /\ Stands(k, "rows off")
        /\ Execute(k, PolicyRow(k), DeselectRows(ResourceRows(k), NextOp), "deselect")
     \/ /\ Stands(k, "deselect")
        /\ Execute(k, WriteTriple(PolicyRow(k), NextOp, NoTriple),
                   DeselectRows(ResourceRows(k), NextOp), "deselect")
  /\ Ends(k)

\* resource_selected, the read of the conflicts.
ReadRowConflicts(k, c) ==
  /\ c.pc = "row conflicts"
  /\ calls' = [calls EXCEPT ![k] =
       [c EXCEPT !.pc = IF Conflicted(rows[c.r][c.d][c.res]) THEN "row resolve" ELSE "row"]]
  /\ UNCHANGED store

WriteRow(k, cell, act) ==
  Execute(k, PolicyRow(k), [ResourceRows(k) EXCEPT ![calls[k].res] = cell], act)

\* resource_selected, resolve_row to false.
ResolveRow(k) ==
  /\ Stands(k, "row resolve")
  /\ WriteRow(k, Write(ResourceRow(k), NextOp, FALSE), "resolve")
  /\ Goto(k, "row")

\* resource_selected, the SELECT, which reads some sibling of a row that is in
\* conflict again, and what its caller does next.
ReadRow(k) ==
  /\ Stands(k, "row")
  /\ \E selected \in IF ResourceRow(k) = {} THEN {FALSE} ELSE Values(ResourceRow(k)) :
       \/ calls[k].op = "unselect" /\ selected /\ Goto(k, "row off")
       \/ /\ calls[k].op = "set" /\ ~selected
          /\ Goto(k, IF ResourceRow(k) = {} THEN "row insert" ELSE "row on")
       \/ calls[k].op \in {"get", "list"} /\ Ends(k)
       \/ calls[k].op = "unselect" /\ ~selected /\ Ends(k)
       \/ calls[k].op = "set" /\ selected /\ Ends(k)
  /\ UNCHANGED store

\* The UPDATE or INSERT of set_resource_selected; the INSERT fails on a row that
\* has appeared since.
SelectRow(k) ==
  /\ Stands(k, "row on") \/ Stands(k, "row insert")
  /\ IF Stands(k, "row insert") /\ ResourceRow(k) # {}
     THEN UNCHANGED store
     ELSE WriteRow(k, Write(ResourceRow(k), NextOp, TRUE), "select")
  /\ Ends(k)

\* The UPDATE of deselect_resource_owned.
UnselectRow(k) ==
  /\ Stands(k, "row off")
  /\ WriteRow(k, Write(ResourceRow(k), NextOp, FALSE), "unselect")
  /\ Ends(k)

\* Defect: only the policy table takes part in the exchange.
SyncWithoutRows(r, s) ==
  /\ policy' = [policy EXCEPT ![r] = [d \in Device |-> [c \in Col |->
       MergeCell(policy[r][d][c], seen[r], policy[s][d][c], seen[s])]]]
  /\ seen' = [seen EXCEPT ![r] = @ \cup seen[s]]
  /\ UNCHANGED <<rows, hist, calls>>

\* Replica r applies the exported state of replica s.
Sync(r, s) ==
  /\ policy' = [policy EXCEPT ![r] = [d \in Device |-> [c \in Col |->
       MergeCell(policy[r][d][c], seen[r], policy[s][d][c], seen[s])]]]
  /\ rows' = [rows EXCEPT ![r] = [d \in Device |-> [res \in Resource |->
       MergeCell(rows[r][d][res], seen[r], rows[s][d][res], seen[s])]]]
  /\ seen' = [seen EXCEPT ![r] = @ \cup seen[s]]
  /\ UNCHANGED <<hist, calls>>

\* The process of a replica stops: its requests are lost, its database is not.
Crash(r) ==
  /\ calls' = [k \in Client |->
       IF calls[k] # Idle /\ calls[k].r = r THEN Idle ELSE calls[k]]
  /\ UNCHANGED store

FirstRead(k, c) == ReadConflicts(k, c) \/ ReadAnyConflicts(k, c) \/ ReadRowConflicts(k, c)

RequestStep(k) ==
  \/ ReadConflicts(k, calls[k]) \/ ReadRowConflicts(k, calls[k])
  \/ Resolve(k) \/ ReadPolicy(k) \/ UpdatePolicy(k) \/ InsertRow(k) \/ Clear(k)
  \/ WriteAdminAllowed(k) \/ DeselectAll(k)
  \/ ResolveRow(k) \/ ReadRow(k) \/ SelectRow(k) \/ UnselectRow(k)

Next ==
  \/ \E k \in Client, r \in Replica, d \in Device :
       /\ calls[k] = Idle
       /\ NextOp <= MaxOps
       /\ \E c \in Requests(r, d) : FirstRead(k, c)
  \/ \E k \in Client : RequestStep(k)
  \/ \E r, s \in Replica : Sync(r, s)
  \/ \E r \in Replica : Crash(r)

Spec == Init /\ [][Next]_vars

---------------------------------------------------------------------------
(* Properties *)

Op == 1 .. Len(hist)

\* The value a column of the policy row has once a read has resolved it.
AdminReads(p) == Exists(p) /\ \A s \in p["admin_allowed"] : s.val

\* Whether get returns the policy row at replica r instead of an error.
Readable(r, d) ==
  LET p == policy[r][d]
  IN Resolvable(p) /\ Complete(ResolvePolicy(p, Conflicts(p), 0))

\* What replication_admission answers at replica r for one end of a transfer.
Admitted(r, d, res) ==
  /\ Readable(r, d)
  /\ AdminReads(policy[r][d])
  /\ IsSelected(rows[r][d][res])

Cell(V) == SUBSET [op : Nat, val : V]

Act == {"choose", "select", "deselect", "unselect", "restrict", "allow", "resolve"}

PolicyValue == BOOLEAN \cup Resource \cup {Null}
                 \cup {AppOf[res] : res \in Resource} \cup {KindOf[res] : res \in Resource}

Partial(D, V) == UNION {[S -> V] : S \in SUBSET D}

Change == [act : Act, dev : Device, past : SUBSET Nat,
           cols : Partial(Col, PolicyValue), rows : Partial(Resource, BOOLEAN)]

RequestPc == {"conflicts", "any conflicts", "resolve", "settle", "policy", "update", "insert",
              "clear", "admin", "rows off", "deselect", "row conflicts", "row resolve", "row",
              "row on", "row insert", "row off"}

Request == [op : {"set", "admin", "unselect", "deselect", "get", "list"}, pc : RequestPc,
            r : Replica, d : Device, res : Resource \cup {Null}, allowed : BOOLEAN,
            cols : SUBSET Col]

\* Rows hold siblings of changes, requests name existing rows: the shape of the
\* two tables and of the requests in flight.
TypeOK ==
  /\ policy \in [Replica -> [Device -> [Col -> Cell(PolicyValue)]]]
  /\ rows \in [Replica -> [Device -> [Resource -> Cell(BOOLEAN)]]]
  /\ seen \in [Replica -> SUBSET Nat]
  /\ hist \in Seq(Change)
  /\ calls \in [Client -> {Idle} \cup Request]

\* A change of act a on device d that replica r holds and whose author had seen u.
Answered(r, d, u, a) ==
  {o \in seen[r] : hist[o].act = a /\ hist[o].dev = d /\ u \in hist[o].past}

\* Concurrent deselection beats selection (resource_selected): a replica reads a
\* resource as selected only if every deselection of that resource row it knows of
\* was already known to the author of some later selection of the same row.
DeselectionWins ==
  \A r \in Replica, d \in Device, res \in Resource :
    IsSelected(rows[r][d][res]) =>
      \A u \in seen[r] :
        (hist[u].act \in {"unselect", "deselect"} /\ hist[u].dev = d /\ res \in DOMAIN hist[u].rows)
          => \E o \in Answered(r, d, u, "select") : res \in DOMAIN hist[o].rows

\* The administrator's restriction wins over any concurrent write of admin_allowed
\* (resolve_convergent_conflicts, and the insert of a first selection): a replica
\* reads admin_allowed = true only if every restriction it knows of was lifted by
\* someone who knew of it.
RestrictionWins ==
  \A r \in Replica, d \in Device :
    AdminReads(policy[r][d]) =>
      \A u \in seen[r] :
        (hist[u].act = "restrict" /\ hist[u].dev = d /\ "admin_allowed" \in DOMAIN hist[u].cols)
          => Answered(r, d, u, "allow") # {}

\* Replicas that hold the same changes hold the same rows, in whatever order the
\* changes reached them and whoever resolved the conflicts.
Convergence ==
  \A r, s \in Replica : seen[r] = seen[s] => policy[r] = policy[s] /\ rows[r] = rows[s]

\* Resolving conflicts changes no answer from no to yes at any replica, even when the
\* columns have changed since they were read: what is admitted afterwards was admitted
\* before, unless the policy could not be read at all (resolve_convergent_conflicts,
\* resource_selected, deselect_owned).
ResolvingNeverAdmits ==
  [][hist' # hist /\ hist'[NextOp].act = "resolve" =>
       \A r \in Replica, d \in Device, res \in Resource :
         Readable(r, d) /\ Admitted(r, d, res)' => Admitted(r, d, res)]_vars

\* "Concurrent selection and deselection resolve to deselection"
\* (docs/adr/0001-offline-storage-resources.md), for the device-wide deselection of
\* deselect_owned: a resource is admitted only if every device-wide deselection the
\* replica knows of was known to the author of some selection of the resource.
\* The code does not do this: TLC refutes the statement, which is kept as the
\* exact form of a divergence the README describes.
DeselectAllWins ==
  \A r \in Replica, d \in Device, res \in Resource :
    Admitted(r, d, res) =>
      \A u \in seen[r] :
        (hist[u].act = "deselect" /\ hist[u].dev = d)
          => \E o \in Answered(r, d, u, "select") : res \in DOMAIN hist[o].rows

=============================================================================
