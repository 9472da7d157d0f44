------------------------ MODULE ConflictResolution ------------------------
(***************************************************************************)
(* Conflicts of the security tables (idp-model/src/replica.rs): the checks *)
(* that let a request pass only over rows without a conflict               *)
(* (allows_authentication, allows_authorization, allows_token_issuance,    *)
(* allows_tunnel_access), and the resolution of a conflict by an           *)
(* administrator, which writes the row and then its audit record in two    *)
(* statements.                                                             *)
(*                                                                         *)
(* Two rows stand for the tables: an authorization code, whose consumed_at *)
(* is token state, and a client, all of whose columns are one column here. *)
(* The repositories that write them are modelled elsewhere; their writes   *)
(* may come at any time, since whatever they checked may have changed      *)
(* before the statement runs.                                              *)
(***************************************************************************)
EXTENDS ReplicatedRow, Sequences

CONSTANTS
  Node,         \* replicas of the database
  Job,          \* slots for requests in flight
  NoValue,      \* SQL NULL
  MaxSecond,    \* timestamps, and contents of a client row, are 1 .. MaxSecond
  MaxChanges    \* bound on the number of changes

ASSUME ConflictAssumption == MaxSecond \in Nat /\ NoValue \notin 0 .. MaxSecond

VARIABLES
  cells,        \* cells[n][row][column]: the siblings at node n
  known,        \* known[n]: the changes node n holds
  log,          \* the changes: their row, their kind and the columns they wrote
  audits,       \* audits[n]: changes with a record in idp_conflict_resolutions at n
  jobs,         \* jobs[q]: the request in slot q, between two awaits
  outdated,     \* a resolution has passed its check over a column not in conflict
  aborted       \* a resolution has ended between its two statements

conflictVars == <<cells, known, log, audits, jobs, outdated, aborted>>

SecurityTable == {"code", "client"}
IsTokenState(row) == row = "code"
Columns(row) == IF row = "code" THEN {"consumed_at", "updated_at"} ELSE {"settings"}

Second == 1 .. MaxSecond
NextChange == Len(log) + 1
NoRequestYet == [pc |-> "rest"]
Finish(q) == jobs' = [jobs EXCEPT ![q] = NoRequestYet]

\* row_conflicts.
RowConflicts(n, row) == {c \in Columns(row) : Conflicted(cells[n][row][c])}

\* One statement at node n writes the columns of a row that values names.
WriteRow(n, row, values, kind) ==
  /\ NextChange <= MaxChanges
  /\ cells' = [cells EXCEPT ![n][row] = [c \in Columns(row) |->
       IF c \in DOMAIN values THEN Write(@[c], NextChange, values[c]) ELSE @[c]]]
  /\ known' = [known EXCEPT ![n] = @ \cup {NextChange}]
  /\ log' = Append(log, [row |-> row, kind |-> kind, cols |-> DOMAIN values])

\* The schema is created and both rows are inserted before they are replicated.
ConflictInit ==
  /\ cells = [n \in Node |-> [row \in SecurityTable |-> [c \in Columns(row) |->
       {[op |-> 0, val |-> IF c = "consumed_at" THEN NoValue ELSE 0]}]]]
  /\ known = [n \in Node |-> {}]
  /\ log = <<>>
  /\ audits = [n \in Node |-> {}]
  /\ jobs = [q \in Job |-> NoRequestYet]
  /\ outdated = FALSE
  /\ aborted = FALSE

---------------------------------------------------------------------------
(* The writes of the repositories *)

\* consume_authorization_code: its UPDATE.
ConsumeCode(n) ==
  /\ \E t \in Second :
       WriteRow(n, "code", [c \in Columns("code") |-> t], "consume")
  /\ UNCHANGED <<audits, jobs, outdated, aborted>>

\* update_client: its UPDATE.
UpdateClient(n) ==
  /\ \E v \in Second : WriteRow(n, "client", [c \in Columns("client") |-> v], "update")
  /\ UNCHANGED <<audits, jobs, outdated, aborted>>

\* Node n applies the exported state of node m, all tables of it.
Synchronize(n, m) ==
  /\ cells' = [cells EXCEPT ![n] = [row \in SecurityTable |-> [c \in Columns(row) |->
       MergeCell(cells[n][row][c], known[n] \cup {0}, cells[m][row][c], known[m] \cup {0})]]]
  /\ known' = [known EXCEPT ![n] = @ \cup known[m]]
  /\ audits' = [audits EXCEPT ![n] = @ \cup audits[m]]
  /\ UNCHANGED <<log, jobs, outdated, aborted>>

---------------------------------------------------------------------------
(* Checks *)

\* A check over both rows begins.  blocked: the rows that have been in conflict
\* at the node ever since.
BeginCheck(q, n) ==
  /\ jobs[q] = NoRequestYet
  /\ jobs' = [jobs EXCEPT ![q] = [pc |-> "check", node |-> n, rows |-> <<"client", "code">>,
       blocked |-> {row \in SecurityTable : RowConflicts(n, row) # {}}]]
  /\ UNCHANGED <<cells, known, log, audits, outdated, aborted>>

\* Defect: the loop ends after its first row.
ClearFirst(q) ==
  /\ jobs[q].pc = "check"
  /\ jobs' = [jobs EXCEPT ![q] =
       [pc |-> "answered", allowed |-> RowConflicts(@.node, Head(@.rows)) = {},
        blocked |-> {row \in @.blocked : RowConflicts(@.node, row) # {}}]]
  /\ UNCHANGED <<cells, known, log, audits, outdated, aborted>>

\* clear: one row of the loop.
Clear(q) ==
  /\ jobs[q].pc = "check"
  /\ LET job == jobs[q]
         free == RowConflicts(job.node, Head(job.rows)) = {}
         still == {row \in job.blocked : RowConflicts(job.node, row) # {}}
     IN jobs' = [jobs EXCEPT ![q] =
          IF free /\ Len(job.rows) > 1
          THEN [job EXCEPT !.rows = Tail(@), !.blocked = still]
          ELSE [pc |-> "answered", allowed |-> free, blocked |-> still]]
  /\ UNCHANGED <<cells, known, log, audits, outdated, aborted>>

Answered(q) ==
  /\ jobs[q].pc = "answered"
  /\ Finish(q)
  /\ UNCHANGED <<cells, known, log, audits, outdated, aborted>>

---------------------------------------------------------------------------
(* Resolution *)

\* An administrator chooses values for some of the columns shown to be in conflict:
\* a sibling (no property depends on which), or NULL for consumed_at.
ChooseValues(q, n, row) ==
  /\ jobs[q] = NoRequestYet
  /\ \E chosen \in (SUBSET RowConflicts(n, row)) \ {{}} :
       \E values \in [chosen -> Second \cup {0, NoValue}] :
         /\ \A c \in chosen :
              \/ values[c] = ValueOf(cells[n][row][c])
              \/ c = "consumed_at" /\ values[c] = NoValue
         /\ jobs' = [jobs EXCEPT ![q] =
              [pc |-> "resolve", node |-> n, row |-> row, values |-> values]]
  /\ UNCHANGED <<cells, known, log, audits, outdated, aborted>>

\* Defect: token state is resolved like any other column.
PermittedAlways(row, conflicts, values) == conflicts # {}

\* There is a conflict, and one about consumed_at is not resolved to NULL.
Permitted(row, conflicts, values) ==
  /\ conflicts # {}
  /\ (IsTokenState(row) /\ "consumed_at" \in conflicts)
       => "consumed_at" \in DOMAIN values /\ values["consumed_at"] # NoValue

\* resolve up to resolve_row: the conflicts are read, and the request may end.
ReadConflicts(q) ==
  /\ jobs[q].pc = "resolve"
  /\ LET job == jobs[q]
     IN IF Permitted(job.row, RowConflicts(job.node, job.row), job.values)
        THEN /\ jobs' = [jobs EXCEPT ![q].pc = "write"]
             /\ outdated' = (outdated \/
                  ~(DOMAIN job.values \subseteq RowConflicts(job.node, job.row)))
        ELSE Finish(q) /\ UNCHANGED outdated
  /\ UNCHANGED <<cells, known, log, audits, aborted>>

\* resolve_row.
ResolveRowStatement(q) ==
  /\ jobs[q].pc = "write"
  /\ LET job == jobs[q]
     IN /\ WriteRow(job.node, job.row, job.values, "resolution")
        /\ jobs' = [jobs EXCEPT ![q] = [pc |-> "audit", node |-> job.node, change |-> NextChange]]
  /\ UNCHANGED <<audits, outdated, aborted>>

\* Defect: the record is not kept.
ForgetAudit(q) ==
  /\ jobs[q].pc = "audit"
  /\ Finish(q)
  /\ UNCHANGED <<cells, known, log, audits, outdated, aborted>>

\* resolution_insert and the end of resolve.
InsertAudit(q) ==
  /\ jobs[q].pc = "audit"
  /\ audits' = [audits EXCEPT ![jobs[q].node] = @ \cup {jobs[q].change}]
  /\ Finish(q)
  /\ UNCHANGED <<cells, known, log, outdated, aborted>>

\* A statement of a request fails, or its process stops: the request is lost.
Abort(q) ==
  /\ jobs[q].pc \in {"check", "resolve", "write", "audit"}
  /\ aborted' = (aborted \/ jobs[q].pc = "audit")
  /\ Finish(q)
  /\ UNCHANGED <<cells, known, log, audits, outdated>>

ConflictNext ==
  \/ \E n \in Node : ConsumeCode(n) \/ UpdateClient(n)
  \/ \E n, m \in Node : Synchronize(n, m)
  \/ \E q \in Job, n \in Node :
       BeginCheck(q, n) \/ \E row \in SecurityTable : ChooseValues(q, n, row)
  \/ \E q \in Job :
       \/ Clear(q) \/ Answered(q)
       \/ ReadConflicts(q) \/ ResolveRowStatement(q) \/ InsertAudit(q) \/ Abort(q)

ConflictSpec == ConflictInit /\ [][ConflictNext]_conflictVars

---------------------------------------------------------------------------
(* Properties *)

\* The rows, requests and records have the shape the schema and resolve give them;
\* the records name changes that were made.
ConflictTypeOK ==
  /\ \A n \in Node, row \in SecurityTable : \A c \in Columns(row) :
       /\ cells[n][row][c] # {}
       /\ cells[n][row][c] \subseteq [op : 0 .. Len(log), val : Second \cup {0, NoValue}]
  /\ known \in [Node -> SUBSET (1 .. Len(log))]
  /\ audits \in [Node -> SUBSET (1 .. Len(log))]
  /\ \A q \in Job : jobs[q].pc \in {"rest", "check", "answered", "resolve", "write", "audit"}
  /\ outdated \in BOOLEAN /\ aborted \in BOOLEAN

\* The consumption of a code is not undone by a resolution (is_token_state): at a
\* node that knows of one, the code reads as unused, without a conflict, only if some
\* resolution was checked after a conflict it was chosen for had been settled: the check
\* looks at no column that is not in conflict.
UnusedHasCause ==
  \A n \in Node :
    ((\E o \in known[n] : log[o].kind = "consume") /\ ~outdated)
      => Values(cells[n]["code"]["consumed_at"]) # {NoValue}

\* clear denies what is in conflict: a check during all of which some row was in
\* conflict at its node does not allow the request, whatever was synchronized,
\* written or resolved meanwhile.
DeniedWhileConflicted ==
  \A q \in Job : jobs[q].pc = "answered" /\ jobs[q].allowed => jobs[q].blocked = {}

\* Resolutions and their audit records match (resolve, resolution_insert): a record
\* never reaches a node before the resolution it is of, and every resolution has its
\* record at some node or will get it from the request still under way, unless a
\* request ended between the two statements.
AuditMatches ==
  /\ \A n \in Node : \A o \in audits[n] : o \in known[n] /\ log[o].kind = "resolution"
  /\ \A o \in 1 .. Len(log) :
       log[o].kind = "resolution" =>
         \/ \E n \in Node : o \in audits[n]
         \/ \E q \in Job : jobs[q].pc = "audit" /\ jobs[q].change = o
         \/ aborted

=============================================================================
