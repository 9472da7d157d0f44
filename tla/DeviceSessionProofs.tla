-------------------------- MODULE DeviceSessionProofs -------------------------
(*****************************************************************************)
(* PeerAllowlist: a bootstrap grant is used by one connection at a time, is  *)
(* released by every way out of the handler, and lets the control plane      *)
(* synchronize with no other device than the one it was issued for, and the  *)
(* transport in front admits nobody who was never approved.  OidcSession: a  *)
(* callback belongs to the sign-in it answers and a cleared session stays so.*)
(* They share no variable.                                                   *)
(*****************************************************************************)
EXTENDS PeerAllowlist, OidcSession, SequenceTheorems, TLAPS

-------------------------------------------------------------------------------
(* Devices and bootstrap grants                                             *)

\* Program counters of a task that works on the row tasks[t].id.
OnRow == {"revoke", "count", "revokeWrite", "selfWrite", "pairRead", "pairWrite",
          "grant", "approve", "approveWrite", "lookup", "ack", "sync"}

\* The row the grant of a token must name: one of the token's subject.
RowOf(i, k, g) ==
  /\ i \in Ids
  /\ devices[i].key = k
  /\ devices[i].owner = issuer[g]

\* A request that has a token of its own and has not yet registered it.
Registering(t) == tasks[t].op = "register"

\* A task with a token: nobody else has it.
Uses(t) == Registering(t) \/ tasks[t].pc \in Reserved

TaskInv(t) ==
  /\ tasks[t].pc \in OnRow => tasks[t].id \in Ids
  /\ tasks[t].pc \in Reserved <=> tasks[t].op = "bootstrap"
  /\ tasks[t].pc = "grant" => tasks[t].op = "register"
  /\ Uses(t) => tasks[t].grant \in Grant /\ tasks[t].key \in Key /\ issuer[tasks[t].grant] # None
  /\ Registering(t) => /\ grants[tasks[t].grant] = None
                       /\ tasks[t].owner = issuer[tasks[t].grant]
                       /\ tasks[t].code # None
  /\ tasks[t].pc = "grant" => RowOf(tasks[t].id, tasks[t].key, tasks[t].grant)
  /\ tasks[t].pc \in Reserved /\ grants[tasks[t].grant] # None =>
       grants[tasks[t].grant].inUse /\ grants[tasks[t].grant].key = tasks[t].key
  /\ tasks[t].pc \in Reserved \ {"get"} => RowOf(tasks[t].id, tasks[t].key, tasks[t].grant)
  /\ tasks[t].pc \in {"ack", "sync"} => devices[tasks[t].id].state # "pending"
  /\ tasks[t].pc \in {"create", "insert"} => tasks[t].key \in Key /\ tasks[t].owner \in Owner /\ tasks[t].code # None
  /\ tasks[t].pc = "insert" => tasks[t].state \in State
  /\ tasks[t].pc = "pairInsert" => tasks[t].key \in Key /\ tasks[t].owner \in Owner

GrantInv(g) ==
  grants[g] # None => issuer[g] # None /\ RowOf(grants[g].id, grants[g].key, g)

IInv ==
  /\ TypeOK
  /\ \A t \in Task : TaskInv(t)
  /\ \A g \in Grant : GrantInv(g)
  /\ \A t, u \in Task : Uses(t) /\ Uses(u) /\ tasks[t].grant = tasks[u].grant => t = u
  /\ GrantNotLeaked

---------------------------------------------------------------------------
(* Rows are never deleted, keep their key and owner, and once approved or  *)
(* revoked are never pending again.                                        *)

RowsKept ==
  /\ Len(devices) <= Len(devices')
  /\ \A i \in Ids :
       /\ devices'[i].key = devices[i].key
       /\ devices'[i].owner = devices[i].owner
       /\ devices[i].state # "pending" => devices'[i].state # "pending"

\* An UPDATE of one row that leaves key and owner alone, and does not set the
\* state to pending, keeps the rows.
LEMMA UpdateKeepsRows ==
  ASSUME devices \in Seq(Row), NEW i \in Ids, NEW r \in Row,
         r.key = devices[i].key, r.owner = devices[i].owner,
         devices[i].state # "pending" => r.state # "pending",
         devices' = [devices EXCEPT ![i] = r]
  PROVE  devices' \in Seq(Row) /\ RowsKept /\ Len(devices') = Len(devices) /\ devices'[i] = r
<1>1. devices' \in Seq(Row) /\ Len(devices') = Len(devices)
  BY ExceptSeq DEF Ids
<1>2. devices \in [1..Len(devices) -> Row]
  BY SMT
<1>3. \A j \in Ids : devices'[j] = IF j = i THEN r ELSE devices[j]
  BY Zenon, <1>2 DEF Ids
<1>4. Len(devices) \in Nat
  OBVIOUS
<1> QED
  BY <1>1, <1>3, <1>4 DEF RowsKept, Ids

\* An INSERT keeps the rows and gives the new row the next id.
LEMMA InsertKeepsRows ==
  ASSUME devices \in Seq(Row), NEW r \in Row, Insert(r)
  PROVE  /\ devices' \in Seq(Row) /\ RowsKept
         /\ Len(devices') = Len(devices) + 1 /\ devices'[Len(devices) + 1] = r
<1>1. devices' = Append(devices, r)
  BY Zenon DEF Insert
<1>2. devices' \in Seq(Row) /\ Len(devices') = Len(devices) + 1 /\ Len(devices) \in Nat
  BY <1>1
<1>3. \A j \in 1..Len(devices) : devices'[j] = devices[j]
  BY <1>1
<1>4. devices'[Len(devices) + 1] = r
  BY <1>1
<1> QED
  BY <1>2, <1>3, <1>4 DEF RowsKept, Ids

\* A statement that only reads keeps the rows.
LEMMA ReadKeepsRows ==
  ASSUME IInv, UNCHANGED devices
  PROVE  devices' \in Seq(Row) /\ RowsKept
BY DEF IInv, TypeOK, RowsKept, Ids

\* The row of a token stays the row of the token.
LEMMA RowOfKept ==
  ASSUME devices \in Seq(Row), devices' \in Seq(Row), RowsKept,
         NEW i, NEW k, NEW g, issuer'[g] = issuer[g], RowOf(i, k, g)
  PROVE  RowOf(i, k, g)'
BY DEF RowsKept, RowOf, Ids

\* What the invariant says of a task survives the steps of the others.
LEMMA OtherTask ==
  ASSUME TypeOK, devices' \in Seq(Row), RowsKept, NEW u \in Task, TaskInv(u),
         tasks'[u] = tasks[u],
         Uses(u) => grants'[tasks[u].grant] = grants[tasks[u].grant],
         Uses(u) => issuer'[tasks[u].grant] = issuer[tasks[u].grant]
  PROVE  TaskInv(u)'
<1>1. tasks[u].id \in Ids => tasks[u].id \in Ids'
  BY DEF TypeOK, RowsKept, Ids
<1>2. ASSUME Uses(u), RowOf(tasks[u].id, tasks[u].key, tasks[u].grant)
      PROVE  RowOf(tasks[u].id, tasks[u].key, tasks[u].grant)'
  BY <1>2, RowOfKept DEF TypeOK, RowOf, RowsKept, Ids
<1>3. tasks[u].pc \in {"ack", "sync"} => devices'[tasks[u].id].state # "pending"
  BY Zenon DEF TaskInv, RowsKept, OnRow
<1>4. tasks[u].pc = "grant" \/ tasks[u].pc \in Reserved => Uses(u)
  BY Zenon DEF TaskInv, Uses, Registering
<1> QED
  BY Zenon, <1>1, <1>2, <1>3, <1>4 DEF TaskInv, Uses, Registering, RowOf

\* A step of one task that leaves registry and tokens alone.
LEMMA LocalStep ==
  ASSUME IInv, TypeOK', RowsKept, NEW t \in Task,
         \A u \in Task \ {t} : tasks'[u] = tasks[u],
         UNCHANGED <<grants, issuer>>,
         TaskInv(t)',
         Uses(t)' => Uses(t) /\ tasks'[t].grant = tasks[t].grant,
         tasks[t].pc \in Reserved => tasks'[t].pc \in Reserved /\ tasks'[t].grant = tasks[t].grant
  PROVE  IInv'
<1>1. \A u \in Task : TaskInv(u)'
  <2> SUFFICES ASSUME NEW u \in Task, u # t PROVE TaskInv(u)'
    BY Zenon
  <2> QED
    BY Zenon, OtherTask DEF IInv, TypeOK
<1>2. \A g \in Grant : GrantInv(g)'
  BY Zenon, RowOfKept DEF IInv, GrantInv, TypeOK
<1>3. (\A u, w \in Task : Uses(u) /\ Uses(w) /\ tasks[u].grant = tasks[w].grant => u = w)'
  BY DEF IInv, Uses, Registering
<1>4. GrantNotLeaked'
  BY DEF IInv, GrantNotLeaked, Holds
<1> QED
  BY Zenon, <1>1, <1>2, <1>3, <1>4 DEF IInv

---------------------------------------------------------------------------
(* One lemma per action *)

\* The request or connection of t is over.
LEMMA ReturnLocal ==
  ASSUME IInv, TypeOK, devices' \in Seq(Row), RowsKept, NEW t \in Task, Return(t),
         tasks[t].pc \notin Reserved, UNCHANGED <<grants, issuer>>
  PROVE  IInv'
<1>1. tasks'[t] = Idle /\ \A u \in Task \ {t} : tasks'[u] = tasks[u]
  BY Zenon DEF Return, TypeOK
<1>2. TypeOK'
  BY Zenon DEF TypeOK, Return, Idle, Call, State, Reserved
<1>3. TaskInv(t)' /\ ~Uses(t)'
  BY <1>1 DEF TaskInv, Uses, Registering, Idle, OnRow, Reserved
<1> QED
  BY Zenon, <1>1, <1>2, <1>3, LocalStep

\* A new request that has no token.
LEMMA StartLocal ==
  ASSUME IInv, NEW t \in Task, NEW c \in Call, Start(t, c),
         c.pc \notin Reserved \cup {"grant", "insert"}, c.op \notin {"register", "bootstrap"},
         c.pc \in OnRow => c.id \in Ids,
         c.pc = "create" => c.key \in Key /\ c.owner \in Owner /\ c.code # None,
         c.pc = "pairInsert" => c.key \in Key /\ c.owner \in Owner,
         UNCHANGED <<devices, grants, issuer>>
  PROVE  IInv'
<1>1. tasks'[t] = c /\ \A u \in Task \ {t} : tasks'[u] = tasks[u]
  BY Zenon DEF Start, TypeOK, IInv
<1>2. tasks[t].pc = "idle"
  BY DEF Start, Idle
<1>3. TypeOK'
  BY Zenon DEF TypeOK, Start, IInv
<1>4. TaskInv(t)' /\ ~Uses(t)'
  BY Zenon, <1>1 DEF TaskInv, Uses, Registering, OnRow, Reserved, Ids
<1>5. RowsKept
  BY Zenon, ReadKeepsRows
<1> QED
  BY Zenon, <1>1, <1>2, <1>3, <1>4, <1>5, LocalStep DEF Reserved

\* A step of t to another statement of the same call: no field of the call but
\* its program counter and the state it has read changes.
LEMMA GotoLocal ==
  ASSUME IInv, NEW t \in Task, NEW c \in Call,
         tasks' = [tasks EXCEPT ![t] = c],
         devices' \in Seq(Row), RowsKept, UNCHANGED <<grants, issuer>>,
         c.op = tasks[t].op, c.key = tasks[t].key, c.owner = tasks[t].owner,
         c.grant = tasks[t].grant, c.code = tasks[t].code, c.id = tasks[t].id,
         c.pc \in Reserved \ {"get"} => tasks[t].pc \in Reserved \ {"get"},
         tasks[t].pc \in Reserved => c.pc \in Reserved,
         c.pc \in OnRow => tasks[t].pc \in OnRow,
         c.pc \notin {"get", "grant", "pairInsert"},
         c.pc \in {"ack", "sync"} => devices'[c.id].state # "pending",
         c.pc \in {"create", "insert"} => c.key \in Key /\ c.owner \in Owner /\ c.code # None,
         c.pc = "insert" => c.state \in State
  PROVE  IInv'
<1>1. tasks'[t] = c /\ \A u \in Task \ {t} : tasks'[u] = tasks[u]
  BY Zenon DEF TypeOK, IInv
<1>2. TypeOK'
  BY Zenon DEF TypeOK, IInv
<1>3. TaskInv(t)
  BY Zenon DEF IInv
<1>4. Uses(t)' => Uses(t) /\ tasks'[t].grant = tasks[t].grant
  BY Zenon, <1>1, <1>3 DEF Uses, Registering, Reserved
<1>5. tasks[t].id \in Ids => tasks[t].id \in Ids'
  BY DEF TypeOK, IInv, RowsKept, Ids
<1>6. ASSUME RowOf(tasks[t].id, tasks[t].key, tasks[t].grant)
      PROVE  RowOf(tasks[t].id, tasks[t].key, tasks[t].grant)'
  BY <1>1, <1>6 DEF RowOf, RowsKept, Ids, IInv, TypeOK
<1>7. TaskInv(t)'
  BY ZenonT(30), <1>1, <1>3, <1>4, <1>5, <1>6 DEF TaskInv, Uses, Registering, OnRow, Reserved
<1> QED
  BY Zenon, <1>1, <1>2, <1>4, <1>7, LocalStep

LEMMA CallType ==
  ASSUME IInv, NEW t \in Task
  PROVE  tasks[t] \in Call /\ TaskInv(t) /\ devices \in Seq(Row)
BY Zenon DEF IInv, TypeOK

LEMMA RowType ==
  ASSUME IInv, NEW t \in Task, tasks[t].pc \in OnRow
  PROVE  tasks[t].id \in Ids /\ devices[tasks[t].id] \in Row
<1>1. tasks[t].id \in Ids /\ devices \in Seq(Row)
  BY Zenon, CallType DEF TaskInv
<1> QED
  BY <1>1 DEF Ids

LEMMA CreateReadInv ==
  ASSUME IInv, NEW t \in Task, CreateRead(t)
  PROVE  IInv'
<1> DEFINE st == IF devices = <<>> THEN "approved" ELSE "pending"
           c == [tasks[t] EXCEPT !.pc = "insert", !.state = st]
<1>1. tasks[t] \in Call /\ TaskInv(t)
  BY Zenon, CallType
<1>2. tasks' = [tasks EXCEPT ![t] = c] /\ tasks[t].pc = "create" /\ UNCHANGED <<devices, grants, issuer>>
  BY ZenonT(60) DEF CreateRead
<1>3. c \in Call /\ c.pc = "insert" /\ c.state \in State
  <2>1. st \in State
    BY Zenon DEF State
  <2> HIDE DEF st
  <2> QED
    BY ZenonT(60), <1>1, <2>1 DEF Call
<1>4. c.op = tasks[t].op /\ c.key = tasks[t].key /\ c.owner = tasks[t].owner
      /\ c.grant = tasks[t].grant /\ c.code = tasks[t].code /\ c.id = tasks[t].id
  BY Zenon, <1>1 DEF Call
<1>5. c.key \in Key /\ c.owner \in Owner /\ c.code # None
  BY Zenon, <1>1, <1>2, <1>4 DEF TaskInv
<1> HIDE DEF c
<1> QED
  BY ZenonT(60), <1>2, <1>3, <1>4, <1>5, ReadKeepsRows, GotoLocal DEF Reserved, OnRow

LEMMA CreateInsertInv ==
  ASSUME IInv, NEW t \in Task, CreateInsert(t)
  PROVE  IInv'
<1>1. tasks[t] \in Call /\ TaskInv(t) /\ devices \in Seq(Row) /\ tasks[t].pc = "insert"
  BY Zenon, CallType DEF CreateInsert
<1>2. UNCHANGED <<grants, issuer>>
  BY Zenon DEF CreateInsert
<1>3. CASE WithKey(tasks[t].key) # {}
  <2> DEFINE c == [tasks[t] EXCEPT !.pc = "error"]
  <2>1. tasks' = [tasks EXCEPT ![t] = c] /\ UNCHANGED devices
    BY Zenon, <1>3 DEF CreateInsert, Goto
  <2>2. c \in Call /\ c.pc = "error" /\ c.op = tasks[t].op /\ c.key = tasks[t].key
        /\ c.owner = tasks[t].owner /\ c.grant = tasks[t].grant /\ c.code = tasks[t].code
        /\ c.id = tasks[t].id
    BY <1>1 DEF Call
  <2> HIDE DEF c
  <2> QED
    BY ZenonT(60), <1>1, <1>2, <2>1, <2>2, ReadKeepsRows, GotoLocal DEF Reserved, OnRow
<1>4. CASE WithKey(tasks[t].key) = {}
  <2> DEFINE r == [key |-> tasks[t].key, owner |-> tasks[t].owner, state |-> tasks[t].state,
                   code |-> IF tasks[t].state = "pending" THEN tasks[t].code ELSE None,
                   fresh |-> tasks[t].state = "pending" /\ tasks[t].code # Empty,
                   pairing |-> None]
  <2>1. Insert(r)
    BY Zenon, <1>4 DEF CreateInsert
  <2>2. r \in Row
    BY Zenon, <1>1 DEF Row, TaskInv, Call
  <2>3. /\ devices' \in Seq(Row) /\ RowsKept
        /\ Len(devices') = Len(devices) + 1 /\ devices'[Len(devices) + 1] = r
    <3> HIDE DEF r
    <3> QED
      BY Zenon, <1>1, <2>1, <2>2, InsertKeepsRows
  <2>4. CASE tasks[t].op # "register"
    BY Zenon, <1>1, <1>2, <1>4, <2>3, <2>4, ReturnLocal DEF CreateInsert, Reserved, IInv
  <2>5. CASE tasks[t].op = "register"
    <3> DEFINE n == Len(devices) + 1
               c == [tasks[t] EXCEPT !.pc = "grant", !.id = n]
    <3>1. n \in Nat /\ n \in Ids' /\ devices'[n] = r
      BY <1>1, <2>3 DEF Ids
    <3>2. tasks' = [tasks EXCEPT ![t] = c]
      BY ZenonT(60), <1>4, <2>5 DEF CreateInsert
    <3> HIDE DEF n
    <3>3. c \in Call /\ c.pc = "grant" /\ c.id = n /\ c.op = "register" /\ c.key = tasks[t].key
          /\ c.owner = tasks[t].owner /\ c.grant = tasks[t].grant /\ c.code = tasks[t].code
      BY ZenonT(60), <1>1, <2>5, <3>1 DEF Call
    <3> HIDE DEF c
    <3>4. tasks'[t] = c /\ \A u \in Task \ {t} : tasks'[u] = tasks[u]
      BY Zenon, <3>2 DEF IInv, TypeOK
    <3>5. TypeOK'
      BY Zenon, <1>2, <2>3, <3>2, <3>3 DEF IInv, TypeOK
    <3>6. Uses(t) /\ Uses(t)' /\ tasks'[t].grant = tasks[t].grant
      BY Zenon, <2>5, <3>3, <3>4 DEF Uses, Registering
    <3>7. RowOf(tasks[t].id, tasks[t].key, tasks[t].grant)'
      BY SMTT(30), <1>1, <1>2, <2>5, <3>1, <3>3, <3>4 DEF RowOf, TaskInv, Registering
    <3>8. TaskInv(t)'
      BY Zenon, <1>1, <1>2, <2>5, <3>1, <3>3, <3>4, <3>6, <3>7 DEF TaskInv, Uses, Registering,
         Reserved, OnRow
    <3> QED
      BY Zenon, <1>1, <1>2, <2>3, <3>4, <3>5, <3>6, <3>8, LocalStep DEF Reserved
  <2> QED
    BY Zenon, <2>4, <2>5
<1> QED
  BY Zenon, <1>3, <1>4

LEMMA EnrollInv ==
  ASSUME IInv, NEW t \in Task, NEW k \in Key, NEW o \in Owner, Enroll(t, k, o)
  PROVE  IInv'
<1> DEFINE c == [Idle EXCEPT !.op = "enroll", !.pc = "create", !.key = k, !.owner = o, !.code = Empty]
<1>1. c \in Call /\ c.pc = "create" /\ c.op = "enroll" /\ c.key = k /\ c.owner = o /\ c.code = Empty
  BY ZenonT(60) DEF Idle, Call, State
<1>2. Start(t, c) /\ UNCHANGED <<devices, grants, issuer>>
  BY Zenon DEF Enroll
<1> HIDE DEF c
<1> QED
  BY Zenon, <1>1, <1>2, StartLocal, NoneAssumption DEF Reserved, OnRow

PC == Reserved \cup {"idle", "create", "insert", "revoke", "count", "revokeWrite",
                     "selfWrite", "pairInsert", "pairRead", "pairWrite", "grant", "error"}

\* A step that moves the program counter and nothing else.
LEMMA GotoInv ==
  ASSUME IInv, NEW t \in Task, NEW p \in PC, Goto(t, p),
         devices' \in Seq(Row), RowsKept, UNCHANGED <<grants, issuer>>,
         p \in Reserved => tasks[t].pc \in Reserved \ {"get"},
         tasks[t].pc \in Reserved => p \in Reserved,
         p \in OnRow => tasks[t].pc \in OnRow,
         p \notin {"get", "grant", "pairInsert", "insert"},
         p \in {"ack", "sync"} => devices'[tasks[t].id].state # "pending",
         p = "create" => Registering(t)
  PROVE  IInv'
<1> DEFINE c == [tasks[t] EXCEPT !.pc = p]
<1>1. tasks[t] \in Call /\ TaskInv(t)
  BY Zenon, CallType
<1>2. tasks' = [tasks EXCEPT ![t] = c]
  BY Zenon DEF Goto
<1>3. c \in Call /\ c.pc = p /\ c.op = tasks[t].op /\ c.key = tasks[t].key
      /\ c.owner = tasks[t].owner /\ c.grant = tasks[t].grant /\ c.code = tasks[t].code
      /\ c.id = tasks[t].id
  BY <1>1 DEF Call, PC
<1>4. p = "create" => c.key \in Key /\ c.owner \in Owner /\ c.code # None
  BY <1>1, <1>3 DEF TaskInv, Uses, Registering, IInv, TypeOK
<1> HIDE DEF c
<1> QED
  BY ZenonT(60), <1>2, <1>3, <1>4, GotoLocal

LEMMA AfterRevokeInv ==
  ASSUME IInv, NEW t \in Task, AfterRevoke(t), tasks[t].pc \in OnRow, tasks[t].pc \notin Reserved,
         devices' \in Seq(Row), RowsKept, UNCHANGED <<grants, issuer>>
  PROVE  IInv'
<1>1. CASE tasks[t].op = "register"
  BY Zenon, <1>1, GotoInv DEF AfterRevoke, PC, Reserved, OnRow, Registering
<1>2. CASE tasks[t].op # "register"
  BY Zenon, <1>2, ReturnLocal DEF AfterRevoke, IInv
<1> QED
  BY Zenon, <1>1, <1>2

LEMMA RevokeReadInv ==
  ASSUME IInv, NEW t \in Task, RevokeRead(t)
  PROVE  IInv'
<1>1. tasks[t] \in Call /\ TaskInv(t) /\ devices \in Seq(Row) /\ tasks[t].pc = "revoke"
  BY Zenon, CallType DEF RevokeRead
<1>2. UNCHANGED <<devices, grants, issuer>>
  BY Zenon DEF RevokeRead
<1> DEFINE row == devices[tasks[t].id]
           stop == row.owner # tasks[t].owner \/ row.key = LocalKey \/ row.state = "revoked"
<1>3. CASE stop
  BY Zenon, <1>1, <1>2, <1>3, ReadKeepsRows, AfterRevokeInv DEF RevokeRead, OnRow, Reserved
<1>4. CASE ~stop
  <2> DEFINE c == [tasks[t] EXCEPT !.pc = "count", !.state = row.state]
  <2>1. tasks' = [tasks EXCEPT ![t] = c]
    BY ZenonT(60), <1>4 DEF RevokeRead
  <2>2. row.state \in State
    BY Zenon, <1>1, RowType DEF OnRow, Row
  <2> HIDE DEF row
  <2>3. c \in Call /\ c.pc = "count" /\ c.op = tasks[t].op /\ c.key = tasks[t].key
        /\ c.owner = tasks[t].owner /\ c.grant = tasks[t].grant /\ c.code = tasks[t].code
        /\ c.id = tasks[t].id
    BY ZenonT(60), <1>1, <2>2 DEF Call
  <2> HIDE DEF c
  <2> QED
    BY ZenonT(60), <1>1, <1>2, <2>1, <2>3, ReadKeepsRows, GotoLocal DEF OnRow, Reserved
<1> QED
  BY Zenon, <1>3, <1>4

LEMMA RevokeCountInv ==
  ASSUME IInv, NEW t \in Task, RevokeCount(t)
  PROVE  IInv'
<1>1. tasks[t].pc = "count" /\ UNCHANGED <<devices, grants, issuer>>
  BY Zenon DEF RevokeCount
<1>2. CASE AfterRevoke(t)
  BY Zenon, <1>1, <1>2, ReadKeepsRows, AfterRevokeInv DEF OnRow, Reserved
<1>3. CASE Goto(t, "revokeWrite")
  BY Zenon, <1>1, <1>3, ReadKeepsRows, GotoInv DEF OnRow, Reserved, PC
<1> QED
  BY Zenon, <1>2, <1>3 DEF RevokeCount

LEMMA RevokedRow ==
  ASSUME IInv, NEW t \in Task, tasks[t].pc \in OnRow,
         devices' = [devices EXCEPT ![tasks[t].id].state = "revoked"]
  PROVE  devices' \in Seq(Row) /\ RowsKept
<1> DEFINE i == tasks[t].id
           r == [devices[i] EXCEPT !.state = "revoked"]
<1>1. i \in Ids /\ devices[i] \in Row /\ devices \in Seq(Row)
  BY Zenon, RowType, CallType
<1>2. r \in Row /\ r.key = devices[i].key /\ r.owner = devices[i].owner /\ r.state = "revoked"
  BY Zenon, <1>1 DEF Row, State
<1>3. devices' = [devices EXCEPT ![i] = r]
  BY Zenon
<1> HIDE DEF i, r
<1> QED
  BY ZenonT(60), <1>1, <1>2, <1>3, UpdateKeepsRows

LEMMA RevokeWriteInv ==
  ASSUME IInv, NEW t \in Task, RevokeWrite(t)
  PROVE  IInv'
<1>1. tasks[t].pc = "revokeWrite" /\ UNCHANGED <<grants, issuer>> /\ AfterRevoke(t)
  BY Zenon DEF RevokeWrite
<1>2. devices' \in Seq(Row) /\ RowsKept
  BY ZenonT(60), <1>1, RevokedRow DEF RevokeWrite, OnRow
<1> QED
  BY Zenon, <1>1, <1>2, AfterRevokeInv DEF OnRow, Reserved

LEMMA RevokeSelfWriteInv ==
  ASSUME IInv, NEW t \in Task, RevokeSelfWrite(t)
  PROVE  IInv'
<1>1. tasks[t].pc = "selfWrite" /\ UNCHANGED <<grants, issuer>> /\ Return(t)
  BY Zenon DEF RevokeSelfWrite
<1>2. devices' \in Seq(Row) /\ RowsKept
  BY Zenon, <1>1, RevokedRow DEF RevokeSelfWrite, OnRow
<1> QED
  BY Zenon, <1>1, <1>2, ReturnLocal DEF IInv, Reserved

LEMMA RevokeInv ==
  ASSUME IInv, NEW t \in Task, NEW o \in Owner, NEW i \in Ids, Revoke(t, o, i)
  PROVE  IInv'
<1> DEFINE c == [Idle EXCEPT !.op = "revoke", !.pc = "revoke", !.owner = o, !.id = i]
<1>0. i \in Nat
  BY DEF Ids
<1>1. c \in Call /\ c.pc = "revoke" /\ c.op = "revoke" /\ c.id = i
  BY Zenon, <1>0 DEF Idle, Call, State
<1>2. Start(t, c) /\ UNCHANGED <<devices, grants, issuer>>
  BY Zenon DEF Revoke
<1> HIDE DEF c
<1> QED
  BY Zenon, <1>1, <1>2, StartLocal DEF Reserved, OnRow

LEMMA RevokeSelfInv ==
  ASSUME IInv, NEW t \in Task, NEW k \in Key, RevokeSelf(t, k)
  PROVE  IInv'
<1>1. PICK i \in WithKey(k) :
        Start(t, [Idle EXCEPT !.op = "revokeSelf", !.pc = "selfWrite", !.key = k, !.id = i])
  BY Zenon DEF RevokeSelf
<1> DEFINE c == [Idle EXCEPT !.op = "revokeSelf", !.pc = "selfWrite", !.key = k, !.id = i]
<1>2. i \in Ids /\ i \in Nat
  BY DEF WithKey, Ids
<1>3. c \in Call /\ c.pc = "selfWrite" /\ c.op = "revokeSelf" /\ c.id = i
  BY Zenon, <1>2 DEF Idle, Call, State
<1>4. Start(t, c) /\ UNCHANGED <<devices, grants, issuer>>
  BY Zenon, <1>1 DEF RevokeSelf
<1> HIDE DEF c
<1> QED
  BY Zenon, <1>2, <1>3, <1>4, StartLocal DEF Reserved, OnRow

LEMMA RequestPairingInv ==
  ASSUME IInv, NEW t \in Task, NEW k \in Key, NEW a \in Key, RequestPairing(t, k, a)
  PROVE  IInv'
<1>1. PICK i \in WithKey(a) \cap Approved :
        Start(t, [Idle EXCEPT !.op = "pair", !.pc = "pairInsert", !.key = k,
                              !.owner = devices[i].owner, !.accepting = a])
  BY Zenon DEF RequestPairing
<1> DEFINE o == devices[i].owner
           c == [Idle EXCEPT !.op = "pair", !.pc = "pairInsert", !.key = k, !.owner = o, !.accepting = a]
<1>2. o \in Owner
  <2>1. devices[i] \in Row
    BY DEF WithKey, Ids, IInv, TypeOK
  <2> QED
    BY Zenon, <2>1 DEF Row
<1>3. Start(t, c) /\ UNCHANGED <<devices, grants, issuer>>
  BY Zenon, <1>1 DEF RequestPairing
<1> HIDE DEF o
<1>4. c \in Call /\ c.pc = "pairInsert" /\ c.op = "pair" /\ c.key = k /\ c.owner = o
  BY ZenonT(60), <1>2 DEF Idle, Call, State
<1> HIDE DEF c
<1> QED
  BY Zenon, <1>2, <1>3, <1>4, StartLocal DEF Reserved, OnRow

LEMMA PairingInsertInv ==
  ASSUME IInv, NEW t \in Task, PairingInsert(t)
  PROVE  IInv'
<1>1. tasks[t] \in Call /\ TaskInv(t) /\ devices \in Seq(Row) /\ tasks[t].pc = "pairInsert"
      /\ UNCHANGED <<grants, issuer>>
  BY Zenon, CallType DEF PairingInsert
<1>2. CASE WithKey(tasks[t].key) # {}
  BY Zenon, <1>1, <1>2, ReadKeepsRows, GotoInv DEF PairingInsert, Reserved, OnRow, PC
<1>3. CASE WithKey(tasks[t].key) = {}
  <2> DEFINE r == [key |-> tasks[t].key, owner |-> tasks[t].owner, state |-> "pending",
                   code |-> None, fresh |-> FALSE, pairing |-> tasks[t].accepting]
  <2>1. Insert(r) /\ Return(t)
    BY Zenon, <1>3 DEF PairingInsert
  <2>2. r \in Row
    BY Zenon, <1>1 DEF Row, TaskInv, Call, State
  <2> HIDE DEF r
  <2>3. devices' \in Seq(Row) /\ RowsKept
    BY Zenon, <1>1, <2>1, <2>2, InsertKeepsRows
  <2> QED
    BY Zenon, <1>1, <2>1, <2>3, ReturnLocal DEF IInv, Reserved
<1> QED
  BY Zenon, <1>2, <1>3

LEMMA ApprovePairingInv ==
  ASSUME IInv, NEW t \in Task, NEW i \in Ids, ApprovePairing(t, i)
  PROVE  IInv'
<1> DEFINE c == [Idle EXCEPT !.op = "approvePairing", !.pc = "pairRead", !.id = i]
<1>0. i \in Nat
  BY DEF Ids
<1>1. c \in Call /\ c.pc = "pairRead" /\ c.op = "approvePairing" /\ c.id = i
  BY ZenonT(60), <1>0 DEF Idle, Call, State
<1>2. Start(t, c) /\ UNCHANGED <<devices, grants, issuer>>
  BY Zenon DEF ApprovePairing
<1> HIDE DEF c
<1> QED
  BY Zenon, <1>1, <1>2, StartLocal DEF Reserved, OnRow

LEMMA PairingReadInv ==
  ASSUME IInv, NEW t \in Task, PairingRead(t)
  PROVE  IInv'
<1>1. tasks[t].pc = "pairRead" /\ UNCHANGED <<devices, grants, issuer>>
  BY Zenon DEF PairingRead
<1>2. CASE Goto(t, "pairWrite")
  BY Zenon, <1>1, <1>2, ReadKeepsRows, GotoInv DEF Reserved, OnRow, PC
<1>3. CASE Return(t)
  BY Zenon, <1>1, <1>3, ReadKeepsRows, ReturnLocal DEF IInv, Reserved
<1> QED
  BY Zenon, <1>2, <1>3 DEF PairingRead

LEMMA PairingWriteInv ==
  ASSUME IInv, NEW t \in Task, PairingWrite(t)
  PROVE  IInv'
<1> DEFINE i == tasks[t].id
           r == [devices[i] EXCEPT !.state = "approved", !.pairing = None]
<1>1. tasks[t].pc = "pairWrite" /\ UNCHANGED <<grants, issuer>> /\ Return(t)
  BY Zenon DEF PairingWrite
<1>2. i \in Ids /\ devices[i] \in Row /\ devices \in Seq(Row)
  BY Zenon, <1>1, RowType, CallType DEF OnRow
<1>3. r \in Row /\ r.key = devices[i].key /\ r.owner = devices[i].owner /\ r.state = "approved"
  BY ZenonT(60), <1>2 DEF Row, State
<1>4. devices' = [devices EXCEPT ![i] = r]
  BY ZenonT(60) DEF PairingWrite
<1> HIDE DEF i, r
<1>5. devices' \in Seq(Row) /\ RowsKept
  BY ZenonT(60), <1>2, <1>3, <1>4, UpdateKeepsRows
<1> QED
  BY Zenon, <1>1, <1>5, ReturnLocal DEF IInv, Reserved

LEMMA RefuseInv ==
  ASSUME IInv, NEW t \in Task, Refuse(t)
  PROVE  IInv'
BY Zenon, ReadKeepsRows, ReturnLocal DEF Refuse, IInv, Reserved

LEMMA AbandonInv ==
  ASSUME IInv, NEW t \in Task, Abandon(t)
  PROVE  IInv'
<1>1. tasks[t].pc \notin Reserved
  BY Zenon, CallType DEF Abandon, TaskInv
<1> QED
  BY Zenon, <1>1, ReadKeepsRows, ReturnLocal DEF Abandon, IInv

\* The request takes a token nobody has had.
LEMMA RegisterInv ==
  ASSUME IInv, NEW t \in Task, NEW k \in Key, NEW o \in Owner, NEW g \in Grant, Register(t, k, o, g)
  PROVE  IInv'
<1> DEFINE base == [Idle EXCEPT !.op = "register", !.pc = "create", !.key = k, !.owner = o,
                                !.grant = g, !.code = g]
<1>1. /\ issuer[g] = None /\ issuer' = [issuer EXCEPT ![g] = o]
      /\ UNCHANGED <<devices, grants>> /\ TypeOK /\ o # None
  BY Zenon, NoneAssumption DEF Register, IInv
<1>2. PICK c \in Call :
        /\ Start(t, c)
        /\ c.op = "register" /\ c.key = k /\ c.owner = o /\ c.grant = g /\ c.code \in Grant \cup {Empty}
        /\ \/ c.pc = "create"
           \/ c.pc \in {"grant", "revoke"} /\ c.id \in Ids /\ devices[c.id].key = k /\ devices[c.id].owner = o
  <2>1. CASE WithKey(k) = {} /\ Start(t, base)
    <3>1. base \in Call /\ base.op = "register" /\ base.key = k /\ base.owner = o /\ base.grant = g
          /\ base.code = g /\ base.pc = "create"
      BY Zenon DEF Idle, Call, State
    <3> HIDE DEF base
    <3> QED
      BY Zenon, <2>1, <3>1
  <2>2. CASE WithKey(k) # {}
    <3>1. PICK i \in WithKey(k) : Start(t, [base EXCEPT
            !.retry = devices[i].state = "pending" /\ devices[i].pairing = None,
            !.id = i,
            !.pc = CASE devices[i].state = "approved" -> "grant"
                     [] devices[i].state = "pending"  -> "revoke"
                     [] devices[i].state = "revoked"  -> "create",
            !.code = CodeFor(i, g)])
      BY Zenon, <2>2 DEF Register
    <3>2. i \in Ids /\ i \in Nat /\ devices[i].key = k /\ devices[i].owner = o
      <4>1. MayRegister(k, o)
        BY Zenon DEF Register
      <4> QED
        BY <4>1 DEF WithKey, Ids, MayRegister
    <3> DEFINE again == devices[i].state = "pending" /\ devices[i].pairing = None
               pc == CASE devices[i].state = "approved" -> "grant"
                       [] devices[i].state = "pending"  -> "revoke"
                       [] devices[i].state = "revoked"  -> "create"
               code == CodeFor(i, g)
               c == [base EXCEPT !.retry = again, !.id = i, !.pc = pc, !.code = code]
    <3>3. devices[i].state \in State
      <4>1. devices[i] \in Row
        BY <1>1, <3>2 DEF TypeOK, Ids
      <4> QED
        BY Zenon, <4>1 DEF Row
    <3>4. pc \in {"grant", "revoke", "create"}
      BY Zenon, <3>3 DEF State
    <3>5. code \in Grant \cup {Empty} /\ again \in BOOLEAN
      BY Zenon DEF CodeFor
    <3>6. Start(t, c)
      BY ZenonT(60), <3>1
    <3> HIDE DEF again, pc, code
    <3>7. c \in Call /\ c.op = "register" /\ c.key = k /\ c.owner = o /\ c.grant = g
          /\ c.code = code /\ c.pc = pc /\ c.id = i
      BY ZenonT(60), <3>2, <3>4, <3>5 DEF Idle, Call, State
    <3> HIDE DEF c
    <3> QED
      BY Zenon, <3>2, <3>4, <3>5, <3>6, <3>7
  <2> QED
    BY Zenon, <2>1, <2>2 DEF Register
<1>3. tasks[t] = Idle /\ tasks'[t] = c /\ \A u \in Task \ {t} : tasks'[u] = tasks[u]
  BY Zenon, <1>1, <1>2 DEF Start, TypeOK
<1>4. TypeOK'
  BY Zenon, <1>1, <1>2 DEF Start, TypeOK
<1>5. RowsKept
  BY Zenon, <1>1, ReadKeepsRows
<1>6. grants[g] = None /\ \A u \in Task : Uses(u) => tasks[u].grant # g
  BY Zenon, <1>1 DEF IInv, GrantInv, TaskInv
<1>7. ~Uses(t) /\ Uses(t)' /\ \A u \in Task \ {t} : Uses(u)' <=> Uses(u)
  BY <1>2, <1>3 DEF Uses, Registering, Idle, Reserved
<1>8. \A u \in Task : TaskInv(u)'
  <2>1. TaskInv(t)'
    <3>1. (tasks'[t].id \in Ids' /\ RowOf(tasks[t].id, tasks[t].key, tasks[t].grant)') \/ c.pc = "create"
      BY Zenon, <1>1, <1>2, <1>3 DEF RowOf, Ids, TypeOK
    <3> QED
      BY Zenon, <1>1, <1>2, <1>3, <1>6, <3>1, NoneAssumption
      DEF TaskInv, Uses, Registering, Reserved, OnRow, TypeOK
  <2>2. ASSUME NEW u \in Task \ {t} PROVE TaskInv(u)'
    BY SMTT(30), <1>1, <1>3, <1>5, <1>6, OtherTask DEF IInv, TypeOK
  <2> QED
    BY Zenon, <2>1, <2>2
<1>9. \A h \in Grant : GrantInv(h)'
  BY Zenon, <1>1, <1>6 DEF IInv, GrantInv, RowOf, Ids, TypeOK
<1>10. (\A u, w \in Task : Uses(u) /\ Uses(w) /\ tasks[u].grant = tasks[w].grant => u = w)'
  <2>1. \A u \in Task \ {t} : Uses(u)' => tasks'[u].grant # tasks'[t].grant
    BY Zenon, <1>2, <1>3, <1>6, <1>7
  <2>2. \A u, w \in Task \ {t} : Uses(u)' /\ Uses(w)' /\ tasks'[u].grant = tasks'[w].grant => u = w
    BY Zenon, <1>3, <1>7 DEF IInv
  <2> QED
    BY Zenon, <2>1, <2>2
<1>11. GrantNotLeaked'
  BY <1>1, <1>3 DEF IInv, GrantNotLeaked, Holds, Idle, Reserved
<1> QED
  BY Zenon, <1>4, <1>8, <1>9, <1>10, <1>11 DEF IInv

\* A use of the registry drops expired grants and leaves the others alone.
LEMMA LiveGrants ==
  ASSUME TypeOK
  PROVE  /\ Live \in [Grant -> GrantRecord \cup {None}]
         /\ \A g \in Grant : Live[g] = None \/ Live[g] = grants[g]
BY Zenon DEF Live, TypeOK

LEMMA RegisterGrantInv ==
  ASSUME IInv, NEW t \in Task, RegisterGrant(t)
  PROVE  IInv'
<1> DEFINE g == tasks[t].grant
           rec == [key |-> tasks[t].key, id |-> tasks[t].id, code |-> tasks[t].code,
                   inUse |-> FALSE, fresh |-> TRUE]
<1>1. /\ tasks[t].pc = "grant" /\ Return(t) /\ UNCHANGED <<devices, issuer>>
      /\ grants' = [Live EXCEPT ![g] = rec] /\ TypeOK /\ TaskInv(t)
  BY Zenon DEF RegisterGrant, IInv
<1>2. tasks[t] \in Call /\ tasks[t].op = "register" /\ tasks[t].pc \notin Reserved
  BY Zenon, <1>1, CallType DEF TaskInv, Reserved
<1>3. g \in Grant /\ tasks[t].key \in Key /\ issuer[g] # None /\ RowOf(tasks[t].id, tasks[t].key, g)
      /\ tasks[t].code \in Grant \cup {Empty} /\ Uses(t)
  BY Zenon, <1>1, <1>2 DEF TaskInv, Uses, Registering, Call
<1>4. rec \in GrantRecord /\ rec.id = tasks[t].id /\ rec.key = tasks[t].key /\ rec.inUse = FALSE
  BY Zenon, <1>2, <1>3 DEF GrantRecord, Call
<1> HIDE DEF rec
<1>5. tasks'[t] = Idle /\ \A u \in Task \ {t} : tasks'[u] = tasks[u]
  BY Zenon, <1>1 DEF Return, TypeOK
<1>6. grants'[g] = rec /\ \A h \in Grant \ {g} : grants'[h] = None \/ grants'[h] = grants[h]
  BY Zenon, <1>1, <1>3, LiveGrants
<1>7. TypeOK'
  <2>1. Idle \in Call
    BY Zenon DEF Idle, Call, State, Reserved
  <2>2. grants' \in [Grant -> GrantRecord \cup {None}]
    BY ZenonT(60), <1>1, <1>4, LiveGrants
  <2>3. tasks' \in [Task -> Call]
    BY Zenon, <1>1, <2>1 DEF Return, TypeOK
  <2> QED
    BY Zenon, <1>1, <2>2, <2>3 DEF TypeOK
<1>8. \A u \in Task : Uses(u)' => u # t /\ Uses(u) /\ tasks[u].grant # g
  <2>1. ~Uses(t)'
    BY <1>5 DEF Uses, Registering, Idle, Reserved
  <2>2. \A u \in Task \ {t} : Uses(u)' => Uses(u)
    BY Zenon, <1>5 DEF Uses, Registering
  <2> QED
    BY Zenon, <1>3, <2>1, <2>2 DEF IInv
<1>9. \A u \in Task : TaskInv(u)'
  <2>1. TaskInv(t)'
    BY SMTT(30), <1>5 DEF TaskInv, Uses, Registering, Idle, Reserved, OnRow
  <2>2. ASSUME NEW u \in Task \ {t} PROVE TaskInv(u)'
    <3>1. TaskInv(u) /\ tasks'[u] = tasks[u] /\ (Uses(u) <=> Uses(u)')
      BY Zenon, <1>5 DEF IInv, Uses, Registering
    <3>2. Uses(u) => grants'[tasks[u].grant] = None \/ grants'[tasks[u].grant] = grants[tasks[u].grant]
      BY Zenon, <1>6, <1>8, <3>1 DEF TaskInv
    <3>3. RowOf(tasks[u].id, tasks[u].key, tasks[u].grant)' <=> RowOf(tasks[u].id, tasks[u].key, tasks[u].grant)
      BY Zenon, <1>1, <3>1 DEF RowOf, Ids
    <3> QED
      BY Zenon, <1>1, <3>1, <3>2, <3>3 DEF TaskInv, Uses, Registering, Ids
  <2> QED
    BY Zenon, <2>1, <2>2
<1>10. \A h \in Grant : GrantInv(h)'
  BY SMTT(30), <1>1, <1>3, <1>4, <1>6 DEF IInv, GrantInv, RowOf, Ids
<1>11. (\A u, w \in Task : Uses(u) /\ Uses(w) /\ tasks[u].grant = tasks[w].grant => u = w)'
  BY Zenon, <1>5, <1>8 DEF IInv
<1>12. GrantNotLeaked'
  <2> SUFFICES ASSUME NEW h \in Grant, grants'[h] # None, grants'[h].inUse
               PROVE  \E u \in Task : Holds(u, h)'
    BY Zenon DEF GrantNotLeaked
  <2>1. h # g /\ grants[h] # None /\ grants[h].inUse
    BY Zenon, <1>4, <1>6
  <2>2. PICK u \in Task : Holds(u, h)
    BY Zenon, <2>1 DEF IInv, GrantNotLeaked
  <2> QED
    BY Zenon, <1>2, <1>5, <2>2 DEF Holds
<1> QED
  BY Zenon, <1>7, <1>9, <1>10, <1>11, <1>12 DEF IInv

\* reserve marks a grant that is registered for the peer and in nobody's use.
LEMMA ReserveInv ==
  ASSUME IInv, NEW t \in Task, NEW k \in Key, NEW g \in Grant, Reserve(t, k, g)
  PROVE  IInv'
<1>1. TypeOK /\ UNCHANGED <<devices, issuer>> /\ tasks[t] = Idle /\ TaskInv(t)
  BY Zenon DEF Reserve, IInv
<1>2. Live \in [Grant -> GrantRecord \cup {None}] /\ \A h \in Grant : Live[h] = None \/ Live[h] = grants[h]
  BY Zenon, <1>1, LiveGrants
<1>3. CASE ~Reservable(k, g)
  <2>1. grants' = Live /\ UNCHANGED tasks
    BY Zenon, <1>3 DEF Reserve
  <2>2. TypeOK'
    BY Zenon, <1>1, <1>2, <2>1 DEF TypeOK
  <2>3. ASSUME NEW u \in Task PROVE TaskInv(u)'
    <3>1. TaskInv(u) /\ (Uses(u)' <=> Uses(u)) /\ (Registering(u)' <=> Registering(u))
      BY Zenon, <2>1 DEF IInv, Uses, Registering
    <3>2. Uses(u) => grants'[tasks[u].grant] = None \/ grants'[tasks[u].grant] = grants[tasks[u].grant]
      BY Zenon, <1>2, <2>1, <3>1 DEF TaskInv
    <3>3. RowOf(tasks[u].id, tasks[u].key, tasks[u].grant)' <=> RowOf(tasks[u].id, tasks[u].key, tasks[u].grant)
      BY Zenon, <1>1, <2>1 DEF RowOf, Ids
    <3> QED
      BY ZenonT(60), <1>1, <2>1, <3>1, <3>2, <3>3 DEF TaskInv, Uses, Ids
  <2>4. \A h \in Grant : GrantInv(h)'
    BY Zenon, <1>1, <1>2, <2>1 DEF IInv, GrantInv, RowOf, Ids
  <2>5. (\A u, w \in Task : Uses(u) /\ Uses(w) /\ tasks[u].grant = tasks[w].grant => u = w)'
    BY Zenon, <2>1 DEF IInv, Uses, Registering
  <2>6. GrantNotLeaked'
    BY Zenon, <1>2, <2>1 DEF IInv, GrantNotLeaked, Holds
  <2> QED
    BY Zenon, <2>2, <2>3, <2>4, <2>5, <2>6 DEF IInv
<1>4. CASE Reservable(k, g)
  <2> DEFINE c == [Idle EXCEPT !.op = "bootstrap", !.pc = "get", !.key = k, !.grant = g]
             rec == [Live[g] EXCEPT !.inUse = TRUE]
  <2>1. grants' = [Live EXCEPT ![g] = rec] /\ tasks' = [tasks EXCEPT ![t] = c]
    BY Zenon, <1>4 DEF Reserve, Start
  <2>2. Live[g] = grants[g] /\ grants[g] \in GrantRecord /\ grants[g].key = k /\ ~grants[g].inUse
        /\ grants[g] # None
    BY Zenon, <1>2, <1>4 DEF Reservable
  <2>3. rec \in GrantRecord /\ rec.inUse = TRUE /\ rec.key = k /\ rec.id = grants[g].id
    BY ZenonT(60), <2>2 DEF GrantRecord
  <2>4. c \in Call /\ c.op = "bootstrap" /\ c.pc = "get" /\ c.key = k /\ c.grant = g
    BY ZenonT(60) DEF Idle, Call, State, Reserved
  <2> HIDE DEF rec, c
  <2>5. tasks'[t] = c /\ \A u \in Task \ {t} : tasks'[u] = tasks[u]
    BY Zenon, <1>1, <2>1 DEF TypeOK
  <2>6. grants'[g] = rec /\ \A h \in Grant \ {g} : grants'[h] = None \/ grants'[h] = grants[h]
    BY Zenon, <1>2, <2>1
  <2>7. TypeOK'
    BY Zenon, <1>1, <1>2, <2>1, <2>3, <2>4 DEF TypeOK
  <2>8. issuer[g] # None /\ RowOf(grants[g].id, k, g)
    BY Zenon, <2>2 DEF IInv, GrantInv
  <2>9. \A u \in Task : Uses(u) => tasks[u].grant # g
    BY Zenon, <2>2 DEF IInv, TaskInv, Uses
  <2>10. Uses(t)' /\ \A u \in Task \ {t} : Uses(u)' <=> Uses(u)
    BY Zenon, <2>4, <2>5 DEF Uses, Registering, Reserved
  <2>11. ASSUME NEW u \in Task PROVE TaskInv(u)'
    <3>1. CASE u = t
      BY Zenon, <1>1, <2>3, <2>4, <2>5, <2>6, <2>8, <3>1 DEF TaskInv, Uses, Registering,
         Reserved, OnRow
    <3>2. CASE u # t
      <4>1. TaskInv(u) /\ tasks'[u] = tasks[u] /\ (Uses(u)' <=> Uses(u)) /\ (Registering(u)' <=> Registering(u))
        BY Zenon, <2>5, <2>10, <3>2 DEF IInv, Registering
      <4>2. Uses(u) => grants'[tasks[u].grant] = None \/ grants'[tasks[u].grant] = grants[tasks[u].grant]
        BY Zenon, <2>6, <2>9, <4>1 DEF TaskInv
      <4>3. RowOf(tasks[u].id, tasks[u].key, tasks[u].grant)' <=> RowOf(tasks[u].id, tasks[u].key, tasks[u].grant)
        BY Zenon, <1>1, <4>1 DEF RowOf, Ids
      <4> QED
        BY ZenonT(60), <1>1, <4>1, <4>2, <4>3 DEF TaskInv, Uses, Ids
    <3> QED
      BY Zenon, <3>1, <3>2
  <2>12. \A h \in Grant : GrantInv(h)'
    BY ZenonT(30), <1>1, <2>2, <2>3, <2>6, <2>8 DEF IInv, GrantInv, RowOf, Ids
  <2>13. (\A u, w \in Task : Uses(u) /\ Uses(w) /\ tasks[u].grant = tasks[w].grant => u = w)'
    <3>1. \A u \in Task \ {t} : Uses(u)' => tasks'[u].grant # tasks'[t].grant
      BY Zenon, <2>4, <2>5, <2>9, <2>10
    <3>2. \A u, w \in Task \ {t} : Uses(u)' /\ Uses(w)' /\ tasks'[u].grant = tasks'[w].grant => u = w
      BY Zenon, <2>5, <2>10 DEF IInv
    <3> QED
      BY Zenon, <3>1, <3>2
  <2>14. GrantNotLeaked'
    <3> SUFFICES ASSUME NEW h \in Grant, grants'[h] # None, grants'[h].inUse
                 PROVE  \E u \in Task : Holds(u, h)'
      BY Zenon DEF GrantNotLeaked
    <3>1. CASE h = g
      BY Zenon, <2>4, <2>5, <3>1 DEF Holds, Reserved
    <3>2. CASE h # g
      <4>1. PICK u \in Task : Holds(u, h)
        BY Zenon, <2>6, <3>2 DEF IInv, GrantNotLeaked
      <4>2. u # t
        BY <1>1, <4>1 DEF Holds, Idle, Reserved
      <4> QED
        BY Zenon, <2>5, <4>1, <4>2 DEF Holds
    <3> QED
      BY Zenon, <3>1, <3>2
  <2> QED
    BY Zenon, <2>7, <2>11, <2>12, <2>13, <2>14 DEF IInv
<1> QED
  BY Zenon, <1>3, <1>4

\* finish removes the grant or clears its mark, and the handler is over.
LEMMA FinishInv ==
  ASSUME IInv, NEW t \in Task, NEW ok \in BOOLEAN, Finish(t, ok), tasks[t].pc \in Reserved,
         UNCHANGED <<devices, issuer>>
  PROVE  IInv'
<1> DEFINE g == tasks[t].grant
<1>1. TypeOK /\ TaskInv(t) /\ Return(t) /\ Uses(t)
  BY Zenon DEF IInv, Finish, Uses
<1>2. g \in Grant /\ tasks[t].key \in Key /\ (grants[g] # None => grants[g].key = tasks[t].key)
  BY Zenon, <1>1 DEF TaskInv
<1>3. /\ grants' \in [Grant -> GrantRecord \cup {None}]
      /\ \A h \in Grant \ {g} : grants'[h] = grants[h]
      /\ \/ grants'[g] = None
         \/ /\ grants[g] # None /\ ~grants'[g].inUse
            /\ grants'[g].id = grants[g].id /\ grants'[g].key = grants[g].key
  <2>1. CASE grants[g] = None
    <3>1. grants' = grants
      BY Zenon, <2>1 DEF Finish
    <3> QED
      BY Zenon, <1>1, <2>1, <3>1 DEF TypeOK
  <2>2. CASE grants[g] # None /\ ok
    <3>1. grants' = [grants EXCEPT ![g] = None]
      BY Zenon, <1>2, <2>2 DEF Finish
    <3> QED
      BY Zenon, <1>1, <1>2, <3>1 DEF TypeOK
  <2>3. CASE grants[g] # None /\ ~ok
    <3> DEFINE rec == [grants[g] EXCEPT !.inUse = FALSE]
    <3>1. grants' = [grants EXCEPT ![g] = rec]
      BY Zenon, <1>2, <2>3 DEF Finish
    <3>2. grants[g] \in GrantRecord
      BY Zenon, <1>1, <1>2, <2>3 DEF TypeOK
    <3>3. rec \in GrantRecord /\ rec.inUse = FALSE /\ rec.id = grants[g].id /\ rec.key = grants[g].key
      BY Zenon, <3>2 DEF GrantRecord
    <3> HIDE DEF rec
    <3> QED
      BY Zenon, <1>1, <1>2, <2>3, <3>1, <3>3 DEF TypeOK
  <2> QED
    BY Zenon, <2>1, <2>2, <2>3
<1>4. tasks'[t] = Idle /\ \A u \in Task \ {t} : tasks'[u] = tasks[u]
  BY Zenon, <1>1 DEF Return, TypeOK
<1>5. TypeOK'
  <2>1. Idle \in Call
    BY Zenon DEF Idle, Call, State, Reserved
  <2>2. tasks' \in [Task -> Call]
    BY Zenon, <1>1, <2>1 DEF Return, TypeOK
  <2> QED
    BY Zenon, <1>1, <1>3, <2>2 DEF TypeOK
<1>6. \A u \in Task : Uses(u)' => u # t /\ Uses(u) /\ tasks[u].grant # g
  <2>1. ~Uses(t)'
    BY <1>4 DEF Uses, Registering, Idle, Reserved
  <2>2. \A u \in Task \ {t} : Uses(u)' => Uses(u)
    BY Zenon, <1>4 DEF Uses, Registering
  <2> QED
    BY Zenon, <1>1, <2>1, <2>2 DEF IInv
<1>7. \A u \in Task : TaskInv(u)'
  <2>1. TaskInv(t)'
    BY <1>4 DEF TaskInv, Uses, Registering, Idle, Reserved, OnRow
  <2>2. ASSUME NEW u \in Task \ {t} PROVE TaskInv(u)'
    <3>1. RowsKept /\ TaskInv(u) /\ tasks'[u] = tasks[u] /\ (Uses(u)' <=> Uses(u))
      BY Zenon, <1>4, ReadKeepsRows DEF IInv, Uses, Registering
    <3>2. Uses(u) => grants'[tasks[u].grant] = grants[tasks[u].grant]
      BY Zenon, <1>3, <1>6, <3>1 DEF TaskInv
    <3> QED
      BY Zenon, <1>1, <1>5, <3>1, <3>2, OtherTask DEF TypeOK
  <2> QED
    BY Zenon, <2>1, <2>2
<1>8. \A h \in Grant : GrantInv(h)'
  BY Zenon, <1>2, <1>3 DEF IInv, GrantInv, RowOf, Ids
<1>9. (\A u, w \in Task : Uses(u) /\ Uses(w) /\ tasks[u].grant = tasks[w].grant => u = w)'
  BY Zenon, <1>4, <1>6 DEF IInv
<1>10. GrantNotLeaked'
  <2> SUFFICES ASSUME NEW h \in Grant, grants'[h] # None, grants'[h].inUse
               PROVE  \E u \in Task : Holds(u, h)'
    BY Zenon DEF GrantNotLeaked
  <2>1. h # g /\ grants[h] # None /\ grants[h].inUse
    BY Zenon, <1>3
  <2>2. PICK u \in Task : Holds(u, h)
    BY Zenon, <2>1 DEF IInv, GrantNotLeaked
  <2> QED
    BY Zenon, <1>4, <2>1, <2>2 DEF Holds
<1> QED
  BY Zenon, <1>5, <1>7, <1>8, <1>9, <1>10 DEF IInv

LEMMA GetGrantInv ==
  ASSUME IInv, NEW t \in Task, GetGrant(t)
  PROVE  IInv'
<1> DEFINE g == tasks[t].grant
<1>1. TypeOK /\ TaskInv(t) /\ tasks[t].pc = "get" /\ UNCHANGED <<devices, issuer>>
  BY Zenon DEF IInv, GetGrant
<1>2. CASE grants[g] = None
  BY Zenon, <1>1, <1>2, FinishInv DEF GetGrant, Reserved
<1>3. CASE grants[g] # None
  <2> DEFINE c == [tasks[t] EXCEPT !.pc = "approve", !.id = grants[g].id, !.code = grants[g].code]
  <2>1. tasks' = [tasks EXCEPT ![t] = c] /\ UNCHANGED grants
    BY ZenonT(60), <1>3 DEF GetGrant
  <2>2. Uses(t) /\ g \in Grant /\ tasks[t] \in Call /\ grants[g] \in GrantRecord
    BY Zenon, <1>1, <1>3 DEF Uses, Reserved, TaskInv, TypeOK
  <2>3. grants[g].id \in Nat /\ grants[g].code \in Grant \cup {Empty, None}
    BY Zenon, <2>2 DEF GrantRecord
  <2>4. c \in Call /\ c.pc = "approve" /\ c.id = grants[g].id /\ c.op = tasks[t].op
        /\ c.key = tasks[t].key /\ c.grant = g
    BY ZenonT(60), <2>2, <2>3 DEF Call, Reserved
  <2>5. RowOf(grants[g].id, tasks[t].key, g)
    BY Zenon, <1>1, <1>3, <2>2 DEF IInv, GrantInv, TaskInv, Reserved
  <2> HIDE DEF c
  <2>6. tasks'[t] = c /\ \A u \in Task \ {t} : tasks'[u] = tasks[u]
    BY Zenon, <1>1, <2>1 DEF TypeOK
  <2>7. TypeOK'
    BY Zenon, <1>1, <2>1, <2>4 DEF TypeOK
  <2>8. \A u \in Task : (Uses(u)' <=> Uses(u)) /\ tasks'[u].grant = tasks[u].grant
                        /\ (Holds(u, tasks[u].grant)' <=> Holds(u, tasks[u].grant))
    BY Zenon, <1>1, <2>4, <2>6 DEF Uses, Registering, Reserved, Holds
  <2>9. ASSUME NEW u \in Task PROVE TaskInv(u)'
    <3>1. CASE u = t
      <4>1. RowOf(tasks[t].id, tasks[t].key, tasks[t].grant)'
        BY Zenon, <1>1, <2>4, <2>5, <2>6 DEF RowOf, Ids
      <4>2. tasks'[t].id \in Ids'
        BY Zenon, <4>1 DEF RowOf
      <4> QED
        BY Zenon, <1>1, <2>1, <2>2, <2>4, <2>6, <3>1, <4>1, <4>2 DEF TaskInv, Uses,
           Registering, Reserved, OnRow
    <3>2. CASE u # t
      <4>1. RowsKept /\ TaskInv(u) /\ tasks'[u] = tasks[u]
        BY Zenon, <1>1, <2>6, <3>2, ReadKeepsRows DEF IInv
      <4> QED
        BY Zenon, <1>1, <2>1, <2>7, <4>1, OtherTask DEF TypeOK
    <3> QED
      BY Zenon, <3>1, <3>2
  <2>10. \A h \in Grant : GrantInv(h)'
    BY Zenon, <1>1, <2>1 DEF IInv, GrantInv, RowOf, Ids
  <2>11. (\A u, w \in Task : Uses(u) /\ Uses(w) /\ tasks[u].grant = tasks[w].grant => u = w)'
    BY Zenon, <2>8 DEF IInv
  <2>12. GrantNotLeaked'
    BY <2>1, <2>8 DEF IInv, GrantNotLeaked, Holds
  <2> QED
    BY Zenon, <2>7, <2>9, <2>10, <2>11, <2>12 DEF IInv
<1> QED
  BY Zenon, <1>2, <1>3

\* A step of the handler that keeps its grant: the row of the grant stays the
\* row, and is not pending once the device is to be synchronized.
LEMMA HandlerStep ==
  ASSUME IInv, NEW t \in Task, NEW pc \in Reserved \ {"get"}, Goto(t, pc),
         tasks[t].pc \in Reserved \ {"get"}, UNCHANGED <<grants, issuer>>,
         devices' \in Seq(Row), RowsKept,
         pc \in {"ack", "sync"} => devices'[tasks[t].id].state # "pending"
  PROVE  IInv'
<1> DEFINE c == [tasks[t] EXCEPT !.pc = pc]
<1>1. TypeOK /\ TaskInv(t) /\ tasks[t] \in Call
  BY Zenon, CallType DEF IInv
<1>2. tasks' = [tasks EXCEPT ![t] = c]
  BY Zenon DEF Goto
<1>3. c \in Call /\ c.pc = pc /\ c.op = tasks[t].op /\ c.id = tasks[t].id /\ c.key = tasks[t].key
      /\ c.grant = tasks[t].grant
  BY <1>1 DEF Call
<1> HIDE DEF c
<1>4. tasks'[t] = c /\ \A u \in Task \ {t} : tasks'[u] = tasks[u]
  BY Zenon, <1>1, <1>2 DEF TypeOK
<1>5. TypeOK'
  BY Zenon, <1>1, <1>2, <1>3 DEF TypeOK
<1>6. \A u \in Task : (Uses(u)' <=> Uses(u)) /\ tasks'[u].grant = tasks[u].grant
  BY Zenon, <1>3, <1>4 DEF Uses, Registering
<1>7. ASSUME NEW u \in Task PROVE TaskInv(u)'
  <2>1. CASE u = t
    <3>1. RowOf(tasks[t].id, tasks[t].key, tasks[t].grant)
      BY Zenon, <1>1 DEF TaskInv
    <3>2. devices \in Seq(Row)
      BY Zenon, <1>1 DEF TypeOK
    <3>3. tasks'[t].id \in Ids' /\ devices'[tasks'[t].id].key = tasks'[t].key
          /\ devices'[tasks'[t].id].owner = issuer'[tasks'[t].grant]
      BY <1>3, <1>4, <3>1, <3>2 DEF RowOf, RowsKept, Ids
    <3>4. RowOf(tasks[t].id, tasks[t].key, tasks[t].grant)'
      BY Zenon, <3>3 DEF RowOf
    <3> QED
      BY Zenon, <1>1, <1>3, <1>4, <2>1, <3>3, <3>4 DEF TaskInv, Uses, Registering, Reserved
  <2>2. CASE u # t
    <3>1. TaskInv(u) /\ tasks'[u] = tasks[u]
      BY Zenon, <1>4, <2>2 DEF IInv
    <3> QED
      BY Zenon, <1>1, <3>1, OtherTask
  <2> QED
    BY Zenon, <2>1, <2>2
<1>8. ASSUME NEW h \in Grant PROVE GrantInv(h)'
  <2>1. GrantInv(h) /\ devices \in Seq(Row)
    BY Zenon, <1>1 DEF IInv, TypeOK
  <2>2. grants[h] # None => RowOf(grants[h].id, grants[h].key, h)'
    BY <2>1 DEF GrantInv, RowOf, RowsKept, Ids
  <2> QED
    BY Zenon, <2>1, <2>2 DEF GrantInv, RowOf, Ids
<1>9. (\A u, w \in Task : Uses(u) /\ Uses(w) /\ tasks[u].grant = tasks[w].grant => u = w)'
  BY Zenon, <1>6 DEF IInv
<1>10. GrantNotLeaked'
  BY <1>3, <1>4 DEF IInv, GrantNotLeaked, Holds
<1> QED
  BY Zenon, <1>5, <1>7, <1>8, <1>9, <1>10 DEF IInv

LEMMA ApproveReadInv ==
  ASSUME IInv, NEW t \in Task, ApproveRead(t)
  PROVE  IInv'
<1>1. devices' \in Seq(Row) /\ RowsKept
  BY Zenon, ReadKeepsRows DEF ApproveRead
<1>2. PICK pc \in {"approveWrite", "lookup"} : Goto(t, pc)
  BY Zenon DEF ApproveRead
<1>3. tasks[t].pc = "approve" /\ UNCHANGED <<grants, issuer>>
  BY Zenon DEF ApproveRead
<1> QED
  BY Zenon, <1>1, <1>2, <1>3, HandlerStep DEF Reserved

LEMMA ApproveWriteInv ==
  ASSUME IInv, NEW t \in Task, ApproveWrite(t)
  PROVE  IInv'
<1> DEFINE i == tasks[t].id
           r == [devices[i] EXCEPT !.state = "approved", !.code = None, !.fresh = FALSE]
<1>1. tasks[t].pc = "approveWrite" /\ UNCHANGED <<grants, issuer>> /\ Goto(t, "ack")
  BY Zenon DEF ApproveWrite
<1>2. i \in Ids /\ devices[i] \in Row /\ devices \in Seq(Row)
  BY Zenon, <1>1, RowType, CallType DEF OnRow
<1>3. r \in Row /\ r.key = devices[i].key /\ r.owner = devices[i].owner /\ r.state = "approved"
  BY ZenonT(60), <1>2 DEF Row, State
<1>4. devices' = [devices EXCEPT ![i] = r]
  BY ZenonT(60) DEF ApproveWrite
<1> HIDE DEF r
<1>5. devices' \in Seq(Row) /\ RowsKept /\ devices'[i] = r
  BY Zenon, <1>2, <1>3, <1>4, UpdateKeepsRows
<1>6. devices'[tasks[t].id].state # "pending"
  BY Zenon, <1>3, <1>5
<1> HIDE DEF i
<1> QED
  BY Zenon, <1>1, <1>5, <1>6, HandlerStep DEF Reserved

LEMMA LookupInv ==
  ASSUME IInv, NEW t \in Task, Lookup(t)
  PROVE  IInv'
<1>1. tasks[t].pc = "lookup" /\ UNCHANGED <<devices, issuer>> /\ devices' \in Seq(Row) /\ RowsKept
  BY Zenon, ReadKeepsRows DEF Lookup
<1>2. CASE WithKey(tasks[t].key) = {tasks[t].id} /\ tasks[t].id \in Approved
  <2>1. Goto(t, "ack") /\ UNCHANGED grants
    BY Zenon, <1>2 DEF Lookup
  <2>2. devices'[tasks[t].id].state # "pending"
    BY Zenon, <1>1, <1>2 DEF Approved
  <2> QED
    BY Zenon, <1>1, <2>1, <2>2, HandlerStep DEF Reserved
<1>3. CASE ~(WithKey(tasks[t].key) = {tasks[t].id} /\ tasks[t].id \in Approved)
  <2>1. Finish(t, FALSE)
    BY ZenonT(60), <1>3 DEF Lookup
  <2> QED
    BY ZenonT(60), <1>1, <2>1, FinishInv DEF Reserved
<1> QED
  BY Zenon, <1>2, <1>3

LEMMA AcknowledgeInv ==
  ASSUME IInv, NEW t \in Task, Acknowledge(t)
  PROVE  IInv'
<1>1. tasks[t].pc = "ack" /\ Goto(t, "sync") /\ UNCHANGED <<devices, grants, issuer>>
      /\ devices' \in Seq(Row) /\ RowsKept
  BY Zenon, ReadKeepsRows DEF Acknowledge
<1>2. devices'[tasks[t].id].state # "pending"
  BY Zenon, <1>1, CallType DEF TaskInv
<1> QED
  BY Zenon, <1>1, <1>2, HandlerStep DEF Reserved

LEMMA SynchronizedInv ==
  ASSUME IInv, NEW t \in Task, Synchronized(t)
  PROVE  IInv'
BY Zenon, FinishInv DEF Synchronized, Reserved

LEMMA HandlerFailsInv ==
  ASSUME IInv, NEW t \in Task, HandlerFails(t)
  PROVE  IInv'
BY ZenonT(60), FinishInv DEF HandlerFails, Reserved

---------------------------------------------------------------------------
(* Time and restarts *)

LEMMA ExpireInv ==
  ASSUME IInv, Expire
  PROVE  IInv'
<1>1. TypeOK /\ UNCHANGED <<tasks, issuer>>
  BY Zenon DEF IInv, Expire
<1>2. /\ devices' \in Seq(Row) /\ RowsKept
      /\ grants' \in [Grant -> GrantRecord \cup {None}]
      /\ \A g \in Grant : grants'[g] # None => /\ grants[g] # None
                                                /\ grants'[g].id = grants[g].id
                                                /\ grants'[g].key = grants[g].key
                                                /\ grants'[g].inUse = grants[g].inUse
  <2>1. CASE /\ \E i \in Ids : devices[i].fresh /\ devices' = [devices EXCEPT ![i].fresh = FALSE]
             /\ UNCHANGED grants
    <3>1. PICK i \in Ids : devices' = [devices EXCEPT ![i].fresh = FALSE]
      BY Zenon, <2>1
    <3> DEFINE r == [devices[i] EXCEPT !.fresh = FALSE]
    <3>2. devices[i] \in Row /\ devices \in Seq(Row)
      BY <1>1 DEF TypeOK, Ids
    <3>3. r \in Row /\ r.key = devices[i].key /\ r.owner = devices[i].owner /\ r.state = devices[i].state
      BY ZenonT(60), <3>2 DEF Row
    <3>4. devices' = [devices EXCEPT ![i] = r]
      BY Zenon, <3>1
    <3> HIDE DEF r
    <3>5. devices' \in Seq(Row) /\ RowsKept
      BY Zenon, <3>2, <3>3, <3>4, UpdateKeepsRows
    <3> QED
      BY Zenon, <1>1, <2>1, <3>5 DEF TypeOK
  <2>2. CASE /\ \E g \in Grant : /\ grants[g] # None /\ grants[g].fresh
                                 /\ grants' = [grants EXCEPT ![g].fresh = FALSE]
             /\ UNCHANGED devices
    <3>1. PICK g \in Grant : grants[g] # None /\ grants' = [grants EXCEPT ![g].fresh = FALSE]
      BY ZenonT(60), <2>2
    <3> DEFINE r == [grants[g] EXCEPT !.fresh = FALSE]
    <3>2. grants[g] \in GrantRecord
      BY Zenon, <1>1, <3>1 DEF TypeOK
    <3>3. r \in GrantRecord /\ r.id = grants[g].id /\ r.key = grants[g].key /\ r.inUse = grants[g].inUse
      BY ZenonT(60), <3>2 DEF GrantRecord
    <3>4. grants' = [grants EXCEPT ![g] = r]
      BY Zenon, <3>1
    <3> HIDE DEF r
    <3> QED
      BY ZenonT(60), <1>1, <2>2, <3>1, <3>3, <3>4, ReadKeepsRows DEF TypeOK
  <2> QED
    BY Zenon, <2>1, <2>2 DEF Expire
<1>3. TypeOK'
  BY Zenon, <1>1, <1>2 DEF TypeOK
<1>4. ASSUME NEW u \in Task PROVE TaskInv(u)'
  <2>1. TaskInv(u) /\ devices \in Seq(Row) /\ (Uses(u)' <=> Uses(u)) /\ (Registering(u)' <=> Registering(u))
    BY Zenon, <1>1 DEF IInv, TypeOK, Uses, Registering
  <2>2. RowOf(tasks[u].id, tasks[u].key, tasks[u].grant)
        => RowOf(tasks[u].id, tasks[u].key, tasks[u].grant)'
    BY <1>1, <1>2, <2>1 DEF RowOf, RowsKept, Ids
  <2>3. tasks[u].id \in Ids => tasks[u].id \in Ids'
    BY SMTT(30), <1>2, <2>1 DEF RowsKept, Ids
  <2>4. tasks[u].pc \in {"ack", "sync"} => devices'[tasks[u].id].state # "pending"
    BY Zenon, <1>2, <2>1 DEF TaskInv, RowsKept, OnRow
  <2> QED
    BY Zenon, <1>1, <1>2, <2>1, <2>2, <2>3, <2>4 DEF TaskInv, Uses
<1>5. ASSUME NEW h \in Grant PROVE GrantInv(h)'
  <2>1. GrantInv(h) /\ devices \in Seq(Row)
    BY Zenon, <1>1 DEF IInv, TypeOK
  <2> QED
    BY SMTT(30), <1>1, <1>2, <2>1 DEF GrantInv, RowOf, RowsKept, Ids
<1>6. (\A u, w \in Task : Uses(u) /\ Uses(w) /\ tasks[u].grant = tasks[w].grant => u = w)'
  BY Zenon, <1>1 DEF IInv, Uses, Registering
<1>7. GrantNotLeaked'
  BY Zenon, <1>1, <1>2 DEF IInv, GrantNotLeaked, Holds
<1> QED
  BY Zenon, <1>3, <1>4, <1>5, <1>6, <1>7 DEF IInv

\* No grant and no task outlives the process.
LEMMA Quiet ==
  ASSUME devices \in Seq(Row), issuer \in [Grant -> Owner \cup {None}],
         grants = [g \in Grant |-> None], tasks = [t \in Task |-> Idle]
  PROVE  IInv
<1>1. Idle \in Call /\ Idle.op = "none" /\ Idle.pc = "idle"
  BY Zenon DEF Idle, Call, State
<1> HIDE DEF Idle
<1>2. TypeOK
  BY Zenon, <1>1 DEF TypeOK
<1>3. \A t \in Task : tasks[t] = Idle /\ ~Uses(t)
  BY Zenon, <1>1 DEF Uses, Registering, Reserved
<1>4. \A t \in Task : TaskInv(t)
  BY Zenon, <1>1, <1>3 DEF TaskInv, Uses, Reserved, OnRow
<1> QED
  BY Zenon, <1>2, <1>3, <1>4 DEF IInv, GrantInv, GrantNotLeaked

LEMMA InitInv ==
  ASSUME Init
  PROVE  IInv
<1>1. devices \in Seq(Row)
  BY DEF Init
<1>2. issuer \in [Grant -> Owner \cup {None}]
  BY Zenon DEF Init
<1> QED
  BY Zenon, <1>1, <1>2, Quiet DEF Init

LEMMA RestartInv ==
  ASSUME IInv, Restart
  PROVE  IInv'
<1>1. devices' \in Seq(Row) /\ issuer' \in [Grant -> Owner \cup {None}]
  BY Zenon DEF IInv, TypeOK, Restart
<1>2. Idle \in Call /\ Idle.op = "none" /\ Idle.pc = "idle"
  BY Zenon DEF Idle, Call, State
<1>3. grants' = [g \in Grant |-> None] /\ tasks' = [t \in Task |-> Idle]
  BY Zenon DEF Restart
<1> HIDE DEF Idle
<1>4. TypeOK'
  BY Zenon, <1>1, <1>2, <1>3 DEF TypeOK
<1>5. \A t \in Task : tasks'[t] = Idle /\ ~Uses(t)'
  BY Zenon, <1>2, <1>3 DEF Uses, Registering, Reserved
<1>6. \A t \in Task : TaskInv(t)'
  BY Zenon, <1>2, <1>5 DEF TaskInv, Uses, Reserved, OnRow
<1> QED
  BY Zenon, <1>3, <1>4, <1>5, <1>6 DEF IInv, GrantInv, GrantNotLeaked

---------------------------------------------------------------------------

LEMMA StutterInv ==
  ASSUME IInv, UNCHANGED vars
  PROVE  IInv'
<1>1. UNCHANGED <<devices, grants, tasks, issuer>>
  BY Zenon DEF vars
<1>2. TypeOK'
  BY Zenon, <1>1 DEF IInv, TypeOK
<1>3. ASSUME NEW t \in Task PROVE TaskInv(t)'
  BY Zenon, <1>1 DEF IInv, TaskInv, Uses, Registering, RowOf, Ids
<1>4. ASSUME NEW g \in Grant PROVE GrantInv(g)'
  BY Zenon, <1>1 DEF IInv, GrantInv, RowOf, Ids
<1>5. ASSUME NEW t \in Task, NEW u \in Task, Uses(t)', Uses(u)', tasks'[t].grant = tasks'[u].grant
      PROVE  t = u
  BY Zenon, <1>1, <1>5 DEF IInv, Uses, Registering
<1>6. GrantNotLeaked'
  BY Zenon, <1>1 DEF IInv, GrantNotLeaked, Holds
<1> QED
  BY Zenon, <1>2, <1>3, <1>4, <1>5, <1>6 DEF IInv

LEMMA NextInv ==
  ASSUME IInv, Next
  PROVE  IInv'
<1>1. ASSUME NEW t \in Task, Request(t) PROVE IInv'
  <2>1. ASSUME NEW k \in Key, NEW o \in Owner, Enroll(t, k, o) PROVE IInv'
    BY Zenon, <2>1, EnrollInv
  <2>2. ASSUME NEW k \in Key, NEW o \in Owner, NEW g \in Grant, Register(t, k, o, g) PROVE IInv'
    BY Zenon, <2>2, RegisterInv
  <2>3. ASSUME NEW o \in Owner, NEW i \in Ids, Revoke(t, o, i) PROVE IInv'
    BY Zenon, <2>3, RevokeInv
  <2>4. ASSUME NEW k \in Key, RevokeSelf(t, k) PROVE IInv'
    BY Zenon, <2>4, RevokeSelfInv
  <2>5. ASSUME NEW k \in Key, NEW a \in Key, RequestPairing(t, k, a) PROVE IInv'
    BY Zenon, <2>5, RequestPairingInv
  <2>6. ASSUME NEW i \in Ids, ApprovePairing(t, i) PROVE IInv'
    BY Zenon, <2>6, ApprovePairingInv
  <2> QED
    BY Zenon, <1>1, <2>1, <2>2, <2>3, <2>4, <2>5, <2>6 DEF Request
<1>2. ASSUME NEW t \in Task, Repository(t) PROVE IInv'
  BY Zenon, <1>2, CreateReadInv, CreateInsertInv, RevokeReadInv, RevokeCountInv, RevokeWriteInv,
     RevokeSelfWriteInv, PairingInsertInv, PairingReadInv, PairingWriteInv, RefuseInv,
     AbandonInv
     DEF Repository
<1>3. ASSUME NEW t \in Task, RegisterGrant(t) PROVE IInv'
  BY Zenon, <1>3, RegisterGrantInv
<1>4. ASSUME NEW t \in Task, Bootstrap(t) PROVE IInv'
  BY Zenon, <1>4, GetGrantInv, ApproveReadInv, ApproveWriteInv, LookupInv, AcknowledgeInv,
     SynchronizedInv, HandlerFailsInv DEF Bootstrap
<1>5. ASSUME NEW t \in Task, NEW k \in Key, NEW g \in Grant, Reserve(t, k, g) PROVE IInv'
  BY Zenon, <1>5, ReserveInv
<1> QED
  BY Zenon, <1>1, <1>2, <1>3, <1>4, <1>5, ExpireInv, RestartInv DEF Next

\* IInv, which every theorem below follows from, is an invariant of the control
\* plane's device registry and bootstrap handler.
THEOREM Invariance == Spec => []IInv
<1>1. Init => IInv
  BY Zenon, InitInv
<1>2. IInv /\ [Next]_vars => IInv'
  BY Zenon, NextInv, StutterInv
<1> QED
  BY <1>1, <1>2, PTL DEF Spec

---------------------------------------------------------------------------
(* The properties, for every set of keys, subjects, tokens and tasks *)

\* The devices table, the grant registry and the tasks in flight keep their shape
\* in every reachable state.
THEOREM DeviceTypeCorrect == Spec => []TypeOK
<1>1. IInv => TypeOK
  BY Zenon DEF IInv
<1> QED
  BY <1>1, Invariance, PTL

\* BootstrapRegistry::reserve gives a grant to one connection at a time, whatever
\* expires, fails or restarts between reserve and finish.
THEOREM GrantsExclusive == Spec => []GrantExclusive
<1>1. IInv => GrantExclusive
  BY Zenon DEF IInv, GrantExclusive, Holds, Uses
<1> QED
  BY <1>1, Invariance, PTL

\* A grant the registry holds as in use has a handler at work: every way out of
\* BootstrapProtocolHandler::handle goes through BootstrapRegistry::finish.
THEOREM GrantsNotLeaked == Spec => []GrantNotLeaked
<1>1. IInv => GrantNotLeaked
  BY Zenon DEF IInv
<1> QED
  BY <1>1, Invariance, PTL

\* The bootstrap handler synchronizes the control-plane database only with the
\* device whose row the token's subject owns, and never while the row is pending.
THEOREM SyncsOnlyWithGrantee == Spec => []SyncOnlyWithGrantee
<1>1. IInv => SyncOnlyWithGrantee
  BY Zenon DEF IInv, TaskInv, SyncOnlyWithGrantee, RowOf, WithKey, Reserved
<1> QED
  BY <1>1, Invariance, PTL

---------------------------------------------------------------------------
(* The transport's allowlist: every action keeps the rows, so a key that   *)
(* was listed as approved belongs to a row that is never pending again.    *)

LEMMA CreateInsertRows ==
  ASSUME IInv, NEW t \in Task, CreateInsert(t)
  PROVE  RowsKept
<1>1. tasks[t] \in Call /\ TaskInv(t) /\ devices \in Seq(Row) /\ tasks[t].pc = "insert"
  BY Zenon, CallType DEF CreateInsert
<1>2. CASE WithKey(tasks[t].key) # {}
  BY Zenon, <1>2, ReadKeepsRows DEF CreateInsert
<1>3. CASE WithKey(tasks[t].key) = {}
  <2> DEFINE r == [key |-> tasks[t].key, owner |-> tasks[t].owner, state |-> tasks[t].state,
                   code |-> IF tasks[t].state = "pending" THEN tasks[t].code ELSE None,
                   fresh |-> tasks[t].state = "pending" /\ tasks[t].code # Empty,
                   pairing |-> None]
  <2>1. Insert(r)
    BY Zenon, <1>3 DEF CreateInsert
  <2>2. r \in Row
    BY Zenon, <1>1 DEF Row, TaskInv, Call
  <2> HIDE DEF r
  <2> QED
    BY Zenon, <1>1, <2>1, <2>2, InsertKeepsRows
<1> QED
  BY Zenon, <1>2, <1>3

LEMMA PairingInsertRows ==
  ASSUME IInv, NEW t \in Task, PairingInsert(t)
  PROVE  RowsKept
<1>1. tasks[t] \in Call /\ TaskInv(t) /\ devices \in Seq(Row) /\ tasks[t].pc = "pairInsert"
  BY Zenon, CallType DEF PairingInsert
<1>2. CASE WithKey(tasks[t].key) # {}
  BY Zenon, <1>2, ReadKeepsRows DEF PairingInsert
<1>3. CASE WithKey(tasks[t].key) = {}
  <2> DEFINE r == [key |-> tasks[t].key, owner |-> tasks[t].owner, state |-> "pending",
                   code |-> None, fresh |-> FALSE, pairing |-> tasks[t].accepting]
  <2>1. Insert(r)
    BY Zenon, <1>3 DEF PairingInsert
  <2>2. r \in Row
    BY Zenon, <1>1 DEF Row, TaskInv, Call, State
  <2> HIDE DEF r
  <2> QED
    BY Zenon, <1>1, <2>1, <2>2, InsertKeepsRows
<1> QED
  BY Zenon, <1>2, <1>3

\* The two statements that approve a row.
LEMMA ApprovedRows ==
  ASSUME IInv, NEW t \in Task, PairingWrite(t) \/ ApproveWrite(t)
  PROVE  RowsKept
<1>1. tasks[t].pc \in OnRow
  BY Zenon DEF PairingWrite, ApproveWrite, OnRow
<1>2. tasks[t].id \in Ids /\ devices[tasks[t].id] \in Row /\ devices \in Seq(Row)
  BY Zenon, <1>1, RowType, CallType
<1>3. PICK r \in Row : /\ devices' = [devices EXCEPT ![tasks[t].id] = r]
                       /\ r.key = devices[tasks[t].id].key
                       /\ r.owner = devices[tasks[t].id].owner
                       /\ r.state = "approved"
  <2> DEFINE i == tasks[t].id
             p == [devices[i] EXCEPT !.state = "approved", !.pairing = None]
             a == [devices[i] EXCEPT !.state = "approved", !.code = None, !.fresh = FALSE]
  <2>1. p \in Row /\ p.key = devices[i].key /\ p.owner = devices[i].owner /\ p.state = "approved"
    BY ZenonT(60), <1>2 DEF Row, State
  <2>2. a \in Row /\ a.key = devices[i].key /\ a.owner = devices[i].owner /\ a.state = "approved"
    BY ZenonT(60), <1>2 DEF Row, State
  <2>3. PairingWrite(t) => devices' = [devices EXCEPT ![i] = p]
    BY ZenonT(60) DEF PairingWrite
  <2>4. ApproveWrite(t) => devices' = [devices EXCEPT ![i] = a]
    BY ZenonT(60) DEF ApproveWrite
  <2> HIDE DEF p, a
  <2> QED
    BY Zenon, <2>1, <2>2, <2>3, <2>4
<1> QED
  BY ZenonT(60), <1>2, <1>3, UpdateKeepsRows

LEMMA ExpireRows ==
  ASSUME IInv, Expire
  PROVE  RowsKept
<1>1. CASE UNCHANGED devices
  BY Zenon, <1>1, ReadKeepsRows
<1>2. ASSUME NEW i \in Ids, devices' = [devices EXCEPT ![i].fresh = FALSE]
      PROVE  RowsKept
  <2> DEFINE r == [devices[i] EXCEPT !.fresh = FALSE]
  <2>1. devices \in Seq(Row) /\ devices[i] \in Row
    BY DEF IInv, TypeOK, Ids
  <2>2. r \in Row /\ r.key = devices[i].key /\ r.owner = devices[i].owner
        /\ r.state = devices[i].state
    BY ZenonT(60), <2>1 DEF Row, State
  <2>3. devices' = [devices EXCEPT ![i] = r]
    BY Zenon, <1>2
  <2> HIDE DEF r
  <2> QED
    BY ZenonT(60), <2>1, <2>2, <2>3, UpdateKeepsRows
<1> QED
  BY Zenon, <1>1, <1>2 DEF Expire

LEMMA NextKeepsRows ==
  ASSUME IInv, Next
  PROVE  RowsKept
<1>1. ASSUME NEW t \in Task, Request(t) PROVE UNCHANGED devices
  BY Zenon, <1>1 DEF Request, Enroll, Register, Revoke, RevokeSelf, RequestPairing,
     ApprovePairing
<1>2. ASSUME NEW t \in Task, Repository(t) PROVE RowsKept
  <2>1. CASE CreateInsert(t)  BY Zenon, <2>1, CreateInsertRows
  <2>2. CASE PairingInsert(t)  BY Zenon, <2>2, PairingInsertRows
  <2>3. CASE PairingWrite(t)  BY Zenon, <2>3, ApprovedRows
  <2>4. CASE RevokeWrite(t)  BY ZenonT(60), <2>4, RevokedRow DEF RevokeWrite, OnRow
  <2>5. CASE RevokeSelfWrite(t)  BY ZenonT(60), <2>5, RevokedRow DEF RevokeSelfWrite, OnRow
  <2>6. CASE CreateRead(t) \/ RevokeRead(t) \/ RevokeCount(t) \/ PairingRead(t)
             \/ Refuse(t) \/ Abandon(t)
    <3>1. UNCHANGED devices
      BY Zenon, <2>6 DEF CreateRead, RevokeRead, RevokeCount, PairingRead, Refuse, Abandon
    <3> QED
      BY Zenon, <3>1, ReadKeepsRows
  <2> QED
    BY Zenon, <1>2, <2>1, <2>2, <2>3, <2>4, <2>5, <2>6 DEF Repository
<1>3. ASSUME NEW t \in Task, Bootstrap(t) PROVE RowsKept
  <2>1. CASE ApproveWrite(t)  BY Zenon, <2>1, ApprovedRows
  <2>2. CASE GetGrant(t) \/ ApproveRead(t) \/ Lookup(t) \/ Acknowledge(t) \/ Synchronized(t)
             \/ HandlerFails(t)
    <3>1. UNCHANGED devices
      BY Zenon, <2>2 DEF GetGrant, ApproveRead, Lookup, Acknowledge, Synchronized, HandlerFails
    <3> QED
      BY Zenon, <3>1, ReadKeepsRows
  <2> QED
    BY Zenon, <1>3, <2>1, <2>2 DEF Bootstrap
<1>4. ASSUME NEW t \in Task, RegisterGrant(t) PROVE UNCHANGED devices
  BY Zenon, <1>4 DEF RegisterGrant
<1>5. ASSUME NEW t \in Task, NEW k \in Key, NEW g \in Grant, Reserve(t, k, g)
      PROVE  UNCHANGED devices
  BY Zenon, <1>5 DEF Reserve
<1>6. Restart => UNCHANGED devices
  BY Zenon DEF Restart
<1> QED
  BY Zenon, <1>1, <1>2, <1>3, <1>4, <1>5, <1>6, ExpireRows, ReadKeepsRows DEF Next

\* Some row of this key is approved, or was.
WasApproved(k) == \E i \in WithKey(k) : devices[i].state # "pending"

PeerInv ==
  /\ IInv
  /\ PeerTypeOK
  /\ AllowedWasApproved
  /\ snapshot # None => \A k \in snapshot : WasApproved(k)

LEMMA ApprovalLasts ==
  ASSUME IInv, RowsKept, NEW k, WasApproved(k)
  PROVE  WasApproved(k)'
<1>1. PICK i \in Ids : devices[i].key = k /\ devices[i].state # "pending"
  BY Zenon DEF WasApproved, WithKey
<1>2. i \in Ids' /\ devices'[i].key = k /\ devices'[i].state # "pending"
  BY SMTT(30), <1>1 DEF RowsKept, Ids, IInv, TypeOK
<1> QED
  BY Zenon, <1>2 DEF WasApproved, WithKey

\* What the server lists is approved.
LEMMA ListedFacts ==
  ASSUME IInv
  PROVE  Listed \subseteq Key /\ \A k \in Listed : WasApproved(k)
<1>1. ASSUME NEW i \in Ids PROVE devices[i].key \in Key
  <2>1. devices[i] \in Row
    BY DEF IInv, TypeOK, Ids
  <2> QED
    BY Zenon, <2>1 DEF Row
<1> QED
  BY Zenon, <1>1 DEF Listed, ApprovedKeys, Approved, WasApproved, WithKey

\* A step of the transport is a step of the registry behind it, or none.
LEMMA PeerStep ==
  ASSUME PeerNext
  PROVE  Next \/ UNCHANGED vars
BY Zenon DEF PeerNext, Next, AdmitRegistered, Connect, RefreshList, RefreshReplace,
       AdmissionExpires, ListingTurns, RestartServer

LEMMA PeerNextInv ==
  ASSUME PeerInv, [PeerNext]_allVars
  PROVE  PeerInv'
<1>1. (Next \/ UNCHANGED vars) /\ IInv
  BY Zenon, PeerStep DEF allVars, vars, PeerInv
<1>2. IInv' /\ RowsKept
  <2>1. CASE Next  BY Zenon, <1>1, <2>1, NextInv, NextKeepsRows
  <2>2. CASE UNCHANGED vars  BY Zenon, <1>1, <2>2, StutterInv, ReadKeepsRows DEF vars
  <2> QED
    BY Zenon, <1>1, <2>1, <2>2
<1>3. ASSUME NEW k, WasApproved(k) PROVE WasApproved(k)'
  BY Zenon, <1>1, <1>2, <1>3, ApprovalLasts
<1>4. Listed \subseteq Key /\ \A k \in Listed : WasApproved(k)
  BY Zenon, <1>1, ListedFacts
<1>5. /\ allow' \in {allow, Listed} \/ (snapshot # None /\ allow' = snapshot)
      /\ snapshot' \in {snapshot, None, Listed}
      /\ admitted' \subseteq admitted \/ \E t \in Task : tasks[t].pc = "grant"
                                       /\ admitted' = admitted \cup {tasks[t].key}
  BY Zenon DEF PeerNext, AdmitRegistered, RegisterGrant, Connect, RefreshList, RefreshReplace,
         AdmissionExpires, ListingTurns, RestartServer, peers, allVars
<1>5a. listable' \in BOOLEAN
  <2>1. listable \in BOOLEAN BY Zenon DEF PeerInv, PeerTypeOK
  <2>2. listable' = listable \/ listable' = ~listable
    BY Zenon DEF PeerNext, AdmitRegistered, Connect, RefreshList, RefreshReplace,
           AdmissionExpires, ListingTurns, RestartServer, peers, allVars
  <2> QED BY <2>1, <2>2, Zenon
<1>6. \A k \in allow : WasApproved(k)
  BY Zenon DEF PeerInv, AllowedWasApproved, WasApproved
<1>7. \A k \in allow' : WasApproved(k)
  BY Zenon, <1>4, <1>5, <1>6 DEF PeerInv
<1>8. snapshot' # None => \A k \in snapshot' : WasApproved(k)
  BY Zenon, <1>4, <1>5 DEF PeerInv
<1>9. ASSUME NEW t \in Task, tasks[t].pc = "grant" PROVE tasks[t].key \in Key
  BY Zenon, <1>1, <1>9 DEF IInv, TaskInv, Uses, Registering
<1>10. PeerTypeOK'
  BY Zenon, <1>4, <1>5, <1>5a, <1>9 DEF PeerInv, PeerTypeOK
<1>11. AllowedWasApproved'
  BY Zenon, <1>3, <1>7 DEF AllowedWasApproved, WasApproved
<1>12. snapshot' # None => \A k \in snapshot' : WasApproved(k)'
  BY Zenon, <1>3, <1>8
<1> QED
  BY Zenon, <1>2, <1>10, <1>11, <1>12 DEF PeerInv

\* PeerInv, the registry's invariant with what the transport has listed and installed,
\* is an invariant of the server with its allowlist.
THEOREM PeerInvariance == PeerSpec => []PeerInv
<1>1. PeerInit => PeerInv
  BY Zenon, InitInv DEF PeerInit, PeerInv, PeerTypeOK, AllowedWasApproved
<1> QED
  BY <1>1, PeerNextInv, PTL DEF PeerSpec

\* The transport admits for every protocol no device that nobody has approved, from
\* whichever listing EndpointIdStore was filled (run.rs, the start and the refresh).
THEOREM AllowedApproved == PeerSpec => []AllowedWasApproved
<1>1. PeerInv => AllowedWasApproved
  BY Zenon DEF PeerInv
<1> QED
  BY <1>1, PeerInvariance, PTL

\* Behind the transport the registry and the bootstrap handler behave as without it:
\* what is proved of Spec holds of the server with its allowlist.
THEOREM TransportImplementsEnrollment == PeerSpec => Spec
<1>1. PeerInit => Init
  BY Zenon DEF PeerInit
<1>2. [PeerNext]_allVars => [Next]_vars
  BY Zenon, PeerStep DEF allVars, vars
<1> QED
  BY <1>1, <1>2, PTL DEF PeerSpec, Spec

-----------------------------------------------------------------------------
(* Sign-ins and sessions                                                   *)

\* A verifier is remembered under the state generated with it.
Paired(verifiersByState) ==
  \A a \in DOMAIN verifiersByState : verifiersByState[a] = a

\* A session whose code was accepted or whose tokens came without one.
Backed(a) == a \in given \/ accepted[a] # <<>>

\* A method call that awaits something; one about a cleared session began before
\* the clear.
FlowOK(f) ==
  flows[f] # NoFlow =>
    /\ flows[f].at \in {"configuration", "token"}
    /\ flows[f].page \in Page
    /\ flows[f].kind \in {"signin", "signout", "callback", "refresh"}
    /\ flows[f].at = "token" => flows[f].kind \in {"callback", "refresh"}
    /\ flows[f].kind = "callback" =>
         flows[f].state \in DOMAIN origin /\ flows[f].verifier = flows[f].state
    /\ flows[f].kind = "refresh" => flows[f].token \in Tokens
    /\ flows[f].kind \in {"callback", "refresh"} =>
         /\ SessionOf(f) \in Attempt /\ Backed(SessionOf(f))
         /\ SessionOf(f) \in cleared => flows[f].late

StatesOK ==
  /\ DOMAIN origin \subseteq Attempt
  /\ \A a \in DOMAIN origin : origin[a] \in Page
  /\ DOMAIN verifiers \subseteq DOMAIN origin /\ Paired(verifiers)
  /\ DOMAIN memory = Page
  /\ \A p \in Page : /\ Paired(memory[p])
                     /\ \A a \in DOMAIN memory[p] : a \in DOMAIN origin /\ origin[a] = p

\* The storage holds a state until some page accepts its callback, the memory of the page
\* that generated it until that page does.
AcceptedAt(a) ==
  /\ (a \in DOMAIN verifiers \/ a \notin DOMAIN origin) => accepted[a] = <<>>
  /\ \A p \in Page : a \in DOMAIN memory[p] =>
       \A i \in DOMAIN accepted[a] : accepted[a][i] # p
  /\ \A i, j \in DOMAIN accepted[a] :
       i < j => accepted[a][i] # accepted[a][j] /\ accepted[a][i] # origin[a]

AcceptedOK ==
  /\ accepted \in [Attempt -> Seq(Page)]
  /\ \A a \in Attempt : AcceptedAt(a)

SessionsOK ==
  /\ stored \in Tokens \cup {NoToken}
  /\ given \subseteq Attempt /\ cleared \subseteq Attempt
  /\ \A a \in cleared : Backed(a)
  /\ stored # NoToken => Backed(stored.session) /\ stored.session \notin cleared

FlowsOK ==
  /\ config \in [Page -> {"none", "fetching", "ok", "failed"}]
  /\ DOMAIN flows = Flow /\ \A f \in Flow : FlowOK(f)

OidcInv == StatesOK /\ AcceptedOK /\ SessionsOK /\ FlowsOK

LEMMA OidcInitInv == OidcInit => OidcInv
<1>. SUFFICES ASSUME OidcInit PROVE OidcInv BY Zenon
<1>1. StatesOK BY Zenon DEF OidcInit, StatesOK, Paired, NoStates
<1>2. AcceptedOK
  <2>1. \A a \in Attempt : accepted[a] = <<>> BY Zenon DEF OidcInit
  <2>2. accepted \in [Attempt -> Seq(Page)] BY DEF OidcInit
  <2>3. DOMAIN <<>> = {} OBVIOUS
  <2>. QED BY Zenon, <2>1, <2>2, <2>3 DEF AcceptedOK, AcceptedAt
<1>3. SessionsOK BY Zenon DEF OidcInit, SessionsOK
<1>4. FlowsOK BY Zenon DEF OidcInit, FlowsOK, FlowOK
<1>. QED BY <1>1, <1>2, <1>3, <1>4, Zenon DEF OidcInv

\* What a session rests on is never taken from it.
Grows == \A a \in Attempt : Backed(a) => Backed(a)'

LEMMA GrowsAlong ==
  ASSUME given \subseteq given', accepted' = accepted PROVE Grows
BY Zenon DEF Grows, Backed

\* A call the step does not touch.
LEMMA FlowKept ==
  ASSUME NEW f, FlowOK(f), flows'[f] = flows[f],
         DOMAIN origin \subseteq DOMAIN origin', Grows, cleared' \subseteq cleared
  PROVE FlowOK(f)'
<1>1. SessionOf(f)' = SessionOf(f) BY Zenon DEF SessionOf
<1>2. ASSUME SessionOf(f) \in Attempt, Backed(SessionOf(f)) PROVE Backed(SessionOf(f))'
  <2>1. PICK a \in Attempt : a = SessionOf(f) BY <1>2, Zenon
  <2>2. Backed(a)' BY <1>2, <2>1, Zenon DEF Grows
  <2>. QED BY <1>1, <2>1, <2>2, Zenon DEF Backed
<1>. QED BY <1>1, <1>2, Zenon DEF FlowOK

LEMMA SessionsKept ==
  ASSUME SessionsOK, Grows, stored' = stored, given' = given, cleared' \subseteq cleared
  PROVE SessionsOK'
<1>1. ASSUME NEW a \in cleared' PROVE Backed(a)'
  <2>1. a \in Attempt /\ Backed(a) BY Zenon DEF SessionsOK
  <2>. QED BY <2>1, Zenon DEF Grows
<1>2. ASSUME stored # NoToken PROVE Backed(stored.session)' /\ stored.session \notin cleared'
  <2>1. PICK a \in Attempt : a = stored.session BY <1>2, Zenon DEF SessionsOK, Tokens
  <2>2. Backed(a) /\ a \notin cleared' BY <1>2, <2>1, Zenon DEF SessionsOK
  <2>3. Backed(a)' BY <2>2, Zenon DEF Grows
  <2>. QED BY <2>1, <2>2, <2>3, Zenon DEF Backed
<1>. QED BY <1>1, <1>2, Zenon DEF SessionsOK, Backed

LEMMA FlowEnds ==
  ASSUME NEW f, flows'[f] = NoFlow PROVE FlowOK(f)'
BY Zenon DEF FlowOK

\* One call changes, and what the others stand on stays.
LEMMA FlowsStep ==
  ASSUME FlowsOK, NEW f \in Flow, NEW w, flows' = [flows EXCEPT ![f] = w], FlowOK(f)',
         config' \in [Page -> {"none", "fetching", "ok", "failed"}],
         DOMAIN origin \subseteq DOMAIN origin', Grows, cleared' \subseteq cleared
  PROVE FlowsOK'
<1>1. /\ DOMAIN flows' = Flow /\ flows'[f] = w
      /\ \A g \in Flow : g # f => flows'[g] = flows[g]
  BY Zenon DEF FlowsOK
<1>2. ASSUME NEW g \in Flow, g # f PROVE FlowOK(g)'
  <2>1. FlowOK(g) /\ flows'[g] = flows[g] BY <1>1, <1>2, Zenon DEF FlowsOK
  <2>. QED BY <2>1, FlowKept, Zenon
<1>. QED BY <1>1, <1>2, Zenon DEF FlowsOK

LEMMA FlowAt ==
  ASSUME FlowsOK, NEW f \in Flow, NEW w, flows' = [flows EXCEPT ![f] = w]
  PROVE flows'[f] = w
BY Zenon DEF FlowsOK

LEMMA AwaitType ==
  ASSUME FlowsOK, NEW p \in Page, AwaitConfiguration(p)
  PROVE config' \in [Page -> {"none", "fetching", "ok", "failed"}]
BY Zenon DEF FlowsOK, AwaitConfiguration

LEMMA ConfigKept ==
  ASSUME FlowsOK, config' = config
  PROVE config' \in [Page -> {"none", "fetching", "ok", "failed"}]
BY Zenon DEF FlowsOK

\* A state whose acceptances stay, wherever else it is remembered or forgotten.
LEMMA AcceptedKept ==
  ASSUME NEW a \in Attempt, AcceptedAt(a), accepted' = accepted,
         a \in DOMAIN verifiers' => accepted[a] = <<>>,
         a \in DOMAIN origin => (a \in DOMAIN origin' /\ origin'[a] = origin[a]),
         \A p \in Page : a \in DOMAIN memory'[p] =>
           (a \in DOMAIN memory[p] \/ accepted[a] = <<>>)
  PROVE AcceptedAt(a)'
<1>1. a \notin DOMAIN origin' => accepted[a] = <<>> BY Zenon DEF AcceptedAt
<1>2. accepted'[a] = accepted[a] BY Zenon
<1>3. CASE accepted[a] = <<>>
  <2>1. DOMAIN accepted'[a] = {} BY <1>2, <1>3
  <2>2. accepted'[a] = <<>> BY Zenon, <1>2, <1>3
  <2>. QED BY Zenon, <2>1, <2>2 DEF AcceptedAt
<1>4. CASE accepted[a] # <<>>
  <2>1. a \in DOMAIN origin BY Zenon, <1>4 DEF AcceptedAt
  <2>2. origin'[a] = origin[a] BY Zenon, <2>1
  <2>3. a \notin DOMAIN verifiers' /\ a \in DOMAIN origin' BY Zenon, <1>4, <2>1
  <2>4. ASSUME NEW p \in Page, a \in DOMAIN memory'[p]
        PROVE \A i \in DOMAIN accepted'[a] : accepted'[a][i] # p
    BY Zenon, <1>2, <1>4, <2>4 DEF AcceptedAt
  <2>5. \A i, j \in DOMAIN accepted'[a] :
          i < j => accepted'[a][i] # accepted'[a][j] /\ accepted'[a][i] # origin'[a]
    BY Zenon, <1>2, <2>2 DEF AcceptedAt
  <2>. QED BY Zenon, <2>3, <2>4, <2>5 DEF AcceptedAt
<1>. QED BY Zenon, <1>3, <1>4

\* Steps that touch neither states nor sessions.
LEMMA Elsewhere ==
  ASSUME OidcInv, UNCHANGED <<stored, pkce, histories>>
  PROVE /\ StatesOK' /\ AcceptedOK' /\ SessionsOK'
        /\ DOMAIN origin \subseteq DOMAIN origin' /\ Grows
        /\ given' = given /\ cleared' = cleared
<1>1. /\ stored' = stored /\ verifiers' = verifiers /\ memory' = memory /\ origin' = origin
      /\ given' = given /\ accepted' = accepted /\ cleared' = cleared
  BY Zenon DEF pkce, histories
<1>2. StatesOK /\ AcceptedOK /\ SessionsOK BY Zenon DEF OidcInv
<1>3. StatesOK' BY <1>1, <1>2, Zenon DEF StatesOK, Paired
<1>4. AcceptedOK'
  <2>1. ASSUME NEW a \in Attempt PROVE AcceptedAt(a)'
    <3>1. AcceptedAt(a) BY <1>2, Zenon DEF AcceptedOK
    <3>2. a \in DOMAIN verifiers' => accepted[a] = <<>> BY <1>1, <3>1, Zenon DEF AcceptedAt
    <3>. QED BY <1>1, <3>1, <3>2, AcceptedKept, Zenon
  <2>. QED BY <1>1, <1>2, <2>1, Zenon DEF AcceptedOK
<1>5. Grows BY <1>1, GrowsAlong, Zenon
<1>6. SessionsOK' BY <1>1, <1>2, <1>5, SessionsKept, Zenon
<1>. QED BY <1>1, <1>3, <1>4, <1>5, <1>6, Zenon

LEMMA OidcBeginStep ==
  ASSUME OidcInv, NEW f \in Flow, NEW p \in Page, Signin(f, p) \/ Signout(f, p)
  PROVE OidcInv'
<1>1. PICK kind \in {"signin", "signout"} :
        BeginCall(f, [at |-> "configuration", kind |-> kind, page |-> p])
  BY Zenon DEF Signin, Signout
<1>2. AwaitConfiguration(p) /\ UNCHANGED <<stored, pkce, histories>>
  BY Zenon DEF Signin, Signout
<1>. DEFINE w == [at |-> "configuration", kind |-> kind, page |-> p]
<1>3. flows' = [flows EXCEPT ![f] = w] BY Zenon, <1>1 DEF BeginCall
<1>4. w.at = "configuration" /\ w.page = p /\ w.kind \in {"signin", "signout"} BY Zenon
<1>. HIDE DEF w
<1>5. FlowsOK BY Zenon DEF OidcInv
<1>6. flows'[f] = w BY <1>3, <1>5, FlowAt, Zenon
<1>7. FlowOK(f)' BY Zenon, <1>4, <1>6 DEF FlowOK
<1>8. config' \in [Page -> {"none", "fetching", "ok", "failed"}]
  BY <1>2, <1>5, AwaitType, Zenon
<1>9. /\ StatesOK' /\ AcceptedOK' /\ SessionsOK'
      /\ DOMAIN origin \subseteq DOMAIN origin' /\ Grows
      /\ given' = given /\ cleared' = cleared
  BY <1>2, Elsewhere, Zenon
<1>10. FlowsOK' BY <1>3, <1>5, <1>7, <1>8, <1>9, FlowsStep, Zenon
<1>. QED BY <1>9, <1>10, Zenon DEF OidcInv

LEMMA RefreshStep ==
  ASSUME OidcInv, NEW f \in Flow, NEW p \in Page, Refresh(f, p)
  PROVE OidcInv'
<1>. DEFINE w == [at |-> "configuration", kind |-> "refresh", page |-> p, token |-> stored,
                 late |-> FALSE]
<1>1. /\ stored # NoToken /\ BeginCall(f, w) /\ AwaitConfiguration(p)
      /\ UNCHANGED <<stored, pkce, histories>>
  BY Zenon DEF Refresh
<1>2. flows' = [flows EXCEPT ![f] = w] BY Zenon, <1>1 DEF BeginCall
<1>3. w.at = "configuration" /\ w.page = p /\ w.kind = "refresh" /\ w.token = stored BY Zenon
<1>. HIDE DEF w
<1>4. FlowsOK /\ SessionsOK BY Zenon DEF OidcInv
<1>5. flows'[f] = w BY <1>2, <1>4, FlowAt, Zenon
<1>6. PICK a \in Attempt : /\ stored \in Tokens /\ stored.session = a
                           /\ Backed(a) /\ a \notin cleared
  BY <1>1, <1>4, Zenon DEF SessionsOK, Tokens
<1>7. given' = given /\ accepted' = accepted /\ cleared' = cleared BY <1>1, Zenon DEF histories
<1>8. FlowOK(f)'
  <2>1. SessionOf(f)' = a BY <1>3, <1>5, <1>6 DEF SessionOf
  <2>2. Backed(SessionOf(f))' BY <1>6, <1>7, <2>1, Zenon DEF Backed
  <2>. QED BY Zenon, <1>3, <1>5, <1>6, <1>7, <2>1, <2>2 DEF FlowOK
<1>9. config' \in [Page -> {"none", "fetching", "ok", "failed"}]
  BY <1>1, <1>4, AwaitType, Zenon
<1>10. /\ StatesOK' /\ AcceptedOK' /\ SessionsOK'
       /\ DOMAIN origin \subseteq DOMAIN origin' /\ Grows
       /\ given' = given /\ cleared' = cleared
  BY <1>1, Elsewhere, Zenon
<1>11. FlowsOK' BY <1>2, <1>4, <1>8, <1>9, <1>10, FlowsStep, Zenon
<1>. QED BY <1>10, <1>11, Zenon DEF OidcInv

LEMMA ConfigurationArrivesStep ==
  ASSUME OidcInv, NEW p \in Page, ConfigurationArrives(p)
  PROVE OidcInv'
<1>1. flows' = flows /\ UNCHANGED <<stored, pkce, histories>> BY Zenon DEF ConfigurationArrives
<1>2. FlowsOK BY Zenon DEF OidcInv
<1>3. config' \in [Page -> {"none", "fetching", "ok", "failed"}]
  BY Zenon, <1>2 DEF ConfigurationArrives, FlowsOK
<1>4. /\ StatesOK' /\ AcceptedOK' /\ SessionsOK'
      /\ origin' = origin /\ Grows /\ cleared' = cleared
  BY <1>1, Elsewhere, Zenon DEF histories
<1>5. FlowsOK' BY <1>1, <1>2, <1>3, <1>4, FlowKept, Zenon DEF FlowsOK
<1>. QED BY <1>4, <1>5, Zenon DEF OidcInv

\* A call throws, or goes on to the token request.
LEMMA AwaitedStep ==
  ASSUME OidcInv, NEW f \in Flow, ConfigurationFailed(f) \/ Exchange(f) \/ ExchangeFails(f)
  PROVE OidcInv'
<1>1. config' = config /\ UNCHANGED <<stored, pkce, histories>>
  BY Zenon DEF ConfigurationFailed, Exchange, ExchangeFails
<1>2. FlowsOK BY Zenon DEF OidcInv
<1>3. config' \in [Page -> {"none", "fetching", "ok", "failed"}]
  BY <1>1, <1>2, ConfigKept, Zenon
<1>4. /\ StatesOK' /\ AcceptedOK' /\ SessionsOK'
      /\ DOMAIN origin \subseteq DOMAIN origin' /\ Grows
      /\ given' = given /\ cleared' = cleared
  BY <1>1, Elsewhere, Zenon
<1>5. CASE ConfigurationFailed(f) \/ ExchangeFails(f)
  <2>1. flows' = [flows EXCEPT ![f] = NoFlow]
    BY <1>5, Zenon DEF ConfigurationFailed, ExchangeFails
  <2>2. FlowOK(f)' BY <2>1, <1>2, FlowAt, FlowEnds, Zenon
  <2>3. FlowsOK' BY <2>1, <2>2, <1>2, <1>3, <1>4, FlowsStep, Zenon
  <2>. QED BY <1>4, <2>3, Zenon DEF OidcInv
<1>6. CASE Exchange(f)
  <2>. DEFINE w == [flows[f] EXCEPT !.at = "token"]
  <2>1. flows' = [flows EXCEPT ![f] = w] BY Zenon, <1>6 DEF Exchange
  <2>2. flows[f].at = "configuration" /\ flows[f].kind \in {"callback", "refresh"}
    BY Zenon, <1>6 DEF Exchange, Configured, Waits
  <2>3. flows[f] # NoFlow BY <2>2 DEF NoFlow
  <2>4. /\ w.at = "token" /\ w.kind = flows[f].kind /\ w.page = flows[f].page
        /\ w.state = flows[f].state /\ w.verifier = flows[f].verifier /\ w.token = flows[f].token
        /\ w.late = flows[f].late
    BY <2>2
  <2>. HIDE DEF w
  <2>5. flows'[f] = w BY <2>1, <1>2, FlowAt, Zenon
  <2>6. FlowOK(f) BY <1>2, Zenon DEF FlowsOK
  <2>7. FlowOK(f)'
    <3>1. SessionOf(f)' = SessionOf(f) BY <2>4, <2>5, Zenon DEF SessionOf
    <3>2. SessionOf(f) \in Attempt /\ Backed(SessionOf(f))
      BY <2>2, <2>3, <2>6, Zenon DEF FlowOK
    <3>3. PICK a \in Attempt : a = SessionOf(f) /\ Backed(a) BY <3>2, Zenon
    <3>4. Backed(a)' BY <1>4, <3>3, Zenon DEF Grows
    <3>5. Backed(SessionOf(f))' BY <3>1, <3>3, <3>4, Zenon DEF Backed
    <3>. QED BY Zenon, <2>2, <2>3, <2>4, <2>5, <2>6, <3>1, <3>2, <3>5, <1>4 DEF FlowOK
  <2>8. FlowsOK' BY <2>1, <2>7, <1>2, <1>3, <1>4, FlowsStep, Zenon
  <2>. QED BY <1>4, <2>8, Zenon DEF OidcInv
<1>. QED BY Zenon, <1>5, <1>6

LEMMA RememberShape ==
  ASSUME NEW m, NEW a
  PROVE /\ DOMAIN Remember(m, a) = DOMAIN m \cup {a}
        /\ Paired(m) => Paired(Remember(m, a))
BY Zenon DEF Remember, Paired

LEMMA ForgetShape ==
  ASSUME NEW m, NEW a
  PROVE /\ DOMAIN Forget(m, a) = DOMAIN m \ {a}
        /\ Paired(m) => Paired(Forget(m, a))
BY Zenon DEF Forget, Paired

\* A new state begins at page p.
LEMMA OriginGrows ==
  ASSUME StatesOK, NEW a \in Attempt, NEW p \in Page, a \notin DOMAIN origin,
         origin' = [x \in DOMAIN origin \cup {a} |-> IF x = a THEN p ELSE origin[x]]
  PROVE /\ DOMAIN origin' = DOMAIN origin \cup {a} /\ DOMAIN origin' \subseteq Attempt
        /\ \A b \in DOMAIN origin : b # a /\ origin'[b] = origin[b]
        /\ origin'[a] = p
        /\ \A b \in DOMAIN origin' : origin'[b] \in Page
BY Zenon DEF StatesOK

LEMMA AuthorizeStep ==
  ASSUME OidcInv, NEW f \in Flow, NEW a \in Attempt, Authorize(f, a)
  PROVE OidcInv'
<1>0. StatesOK /\ AcceptedOK /\ SessionsOK /\ FlowsOK BY Zenon DEF OidcInv
<1>1. flows[f].at = "configuration" BY Zenon DEF Authorize, Configured, Waits
<1>2. flows[f] # NoFlow BY <1>1 DEF NoFlow
<1>3. PICK p \in Page : p = flows[f].page
  BY <1>0, <1>2, Zenon DEF FlowsOK, FlowOK
<1>4. /\ a \notin DOMAIN origin
      /\ origin' = [x \in DOMAIN origin \cup {a} |-> IF x = a THEN p ELSE origin[x]]
      /\ memory' = [memory EXCEPT ![p] = Remember(memory[p], a)]
      /\ verifiers' = Remember(verifiers, a)
      /\ flows' = [flows EXCEPT ![f] = NoFlow]
      /\ stored' = stored /\ config' = config /\ given' = given
      /\ accepted' = accepted /\ cleared' = cleared
  BY Zenon, <1>3 DEF Authorize
<1>5. /\ DOMAIN origin' = DOMAIN origin \cup {a} /\ DOMAIN origin' \subseteq Attempt
      /\ \A b \in DOMAIN origin : b # a /\ origin'[b] = origin[b]
      /\ origin'[a] = p
      /\ \A b \in DOMAIN origin' : origin'[b] \in Page
  BY Zenon, <1>0, <1>4, OriginGrows
<1>6. DOMAIN origin \subseteq DOMAIN origin' BY <1>5, Zenon
<1>7. DOMAIN memory = Page BY <1>0, Zenon DEF StatesOK
<1>8. /\ DOMAIN memory' = Page
      /\ memory'[p] = Remember(memory[p], a)
      /\ \A q \in Page : q # p => memory'[q] = memory[q]
  BY Zenon, <1>4, <1>7
<1>9. /\ DOMAIN memory'[p] = DOMAIN memory[p] \cup {a}
      /\ Paired(memory[p]) => Paired(memory'[p])
  BY SMTT(30), <1>8, RememberShape
<1>10. /\ DOMAIN verifiers' = DOMAIN verifiers \cup {a}
       /\ Paired(verifiers) => Paired(verifiers')
  BY Zenon, <1>4, RememberShape
<1>11. StatesOK'
  <2>1. DOMAIN verifiers' \subseteq DOMAIN origin' /\ Paired(verifiers')
    BY <1>0, <1>5, <1>10, Zenon DEF StatesOK
  <2>2. ASSUME NEW q \in Page
        PROVE /\ Paired(memory'[q])
              /\ \A b \in DOMAIN memory'[q] : b \in DOMAIN origin' /\ origin'[b] = q
    <3>1. Paired(memory[q])
          /\ \A b \in DOMAIN memory[q] : b \in DOMAIN origin /\ origin[b] = q
      BY <1>0, Zenon DEF StatesOK
    <3>2. CASE q = p BY <3>1, <3>2, <1>5, <1>9, Zenon
    <3>3. CASE q # p BY <3>1, <3>3, <1>5, <1>8, Zenon
    <3>. QED BY Zenon, <3>2, <3>3
  <2>. QED BY Zenon, <2>1, <2>2, <1>5, <1>8 DEF StatesOK, Paired
<1>12. AcceptedOK'
  <2>1. ASSUME NEW b \in Attempt PROVE AcceptedAt(b)'
    <3>1. AcceptedAt(b) /\ AcceptedAt(a) BY <1>0, Zenon DEF AcceptedOK
    <3>2. accepted[a] = <<>> BY <3>1, <1>4, Zenon DEF AcceptedAt
    <3>3. b \in DOMAIN verifiers' => accepted[b] = <<>>
      BY <3>1, <3>2, <1>10, Zenon DEF AcceptedAt
    <3>4. \A q \in Page : b \in DOMAIN memory'[q] =>
            (b \in DOMAIN memory[q] \/ accepted[b] = <<>>)
      BY <3>2, <1>8, <1>9, Zenon
    <3>5. b \in DOMAIN origin => (b \in DOMAIN origin' /\ origin'[b] = origin[b])
      BY <1>5, Zenon
    <3>. QED BY <1>4, <3>1, <3>3, <3>4, <3>5, AcceptedKept, Zenon
  <2>. QED BY <1>0, <1>4, <2>1, Zenon DEF AcceptedOK
<1>15. Grows BY <1>4, GrowsAlong, Zenon
<1>13. SessionsOK' BY <1>0, <1>4, <1>15, SessionsKept, Zenon
<1>14. FlowOK(f)' BY <1>0, <1>4, FlowAt, FlowEnds, Zenon
<1>16. FlowsOK' BY <1>0, <1>4, <1>6, <1>14, <1>15, ConfigKept, FlowsStep, Zenon
<1>. QED BY <1>11, <1>12, <1>13, <1>16, Zenon DEF OidcInv

\* The states and their acceptances stay while a session begins, ages or ends.
LEMMA StatesKept ==
  ASSUME StatesOK, AcceptedOK, UNCHANGED pkce, origin' = origin, accepted' = accepted
  PROVE StatesOK' /\ AcceptedOK'
<1>1. verifiers' = verifiers /\ memory' = memory BY Zenon DEF pkce
<1>2. StatesOK' BY <1>1, Zenon DEF StatesOK, Paired
<1>3. ASSUME NEW b \in Attempt PROVE AcceptedAt(b)'
  <2>1. AcceptedAt(b) BY Zenon DEF AcceptedOK
  <2>2. b \in DOMAIN verifiers' => accepted[b] = <<>> BY <1>1, <2>1, Zenon DEF AcceptedAt
  <2>. QED BY <1>1, <2>1, <2>2, AcceptedKept, Zenon
<1>. QED BY <1>2, <1>3, Zenon DEF AcceptedOK

\* A session that nothing knows, or the one of a callback address, is stored.
LEMMA GivenStep ==
  ASSUME OidcInv, NEW a \in Attempt, SetToken(a) \/ CallbackTokens(a)
  PROVE OidcInv'
<1>0. StatesOK /\ AcceptedOK /\ SessionsOK /\ FlowsOK BY Zenon DEF OidcInv
<1>1. /\ given' = given \cup {a} /\ UNCHANGED pkce /\ config' = config /\ flows' = flows
      /\ origin' = origin /\ accepted' = accepted /\ cleared' \subseteq cleared
  BY Zenon DEF SetToken, CallbackTokens
<1>2. stored' \in Tokens /\ stored'.session = a
  <2>1. PICK stale \in BOOLEAN : stored' = [session |-> a, stale |-> stale]
    BY Zenon DEF SetToken, CallbackTokens
  <2>. QED BY <2>1, Zenon DEF Tokens
<1>3. StatesOK' /\ AcceptedOK' BY <1>0, <1>1, StatesKept, Zenon
<1>4. Grows BY <1>1, GrowsAlong, Zenon
<1>5. a \notin cleared'
  <2>1. CASE CallbackTokens(a) BY <2>1, Zenon DEF CallbackTokens
  <2>2. CASE SetToken(a)
    <3>1. a \notin given /\ accepted[a] = <<>>
      BY <1>0, <2>2, Zenon DEF SetToken, AcceptedOK, AcceptedAt
    <3>. QED BY <1>0, <1>1, <3>1, Zenon DEF SessionsOK, Backed
  <2>. QED BY <2>1, <2>2, Zenon
<1>6. SessionsOK'
  <2>1. ASSUME NEW b \in cleared' PROVE Backed(b)'
    BY <1>0, <1>1, <1>4, Zenon DEF SessionsOK, Grows
  <2>2. Backed(a)' BY <1>1, Zenon DEF Backed
  <2>3. Backed(stored.session)' BY <1>2, <2>2, Zenon DEF Backed
  <2>4. given' \subseteq Attempt /\ cleared' \subseteq Attempt
    BY <1>0, <1>1, Zenon DEF SessionsOK
  <2>. QED BY <1>2, <1>5, <2>1, <2>3, <2>4, Zenon DEF SessionsOK
<1>7. FlowsOK' BY <1>0, <1>1, <1>4, FlowKept, Zenon DEF FlowsOK
<1>. QED BY <1>3, <1>6, <1>7, Zenon DEF OidcInv

LEMMA TokenStoredStep ==
  ASSUME OidcInv, NEW f \in Flow, TokenIssued(f) \/ TokenRefreshed(f)
  PROVE OidcInv'
<1>0. StatesOK /\ AcceptedOK /\ SessionsOK /\ FlowsOK BY Zenon DEF OidcInv
<1>1. /\ flows[f].at = "token" /\ flows' = [flows EXCEPT ![f] = NoFlow]
      /\ UNCHANGED pkce /\ config' = config /\ origin' = origin /\ given' = given
      /\ accepted' = accepted /\ cleared' = ClearedAfter(f)
  BY Zenon DEF TokenIssued, TokenRefreshed
<1>2. flows[f] # NoFlow /\ FlowOK(f)
  BY <1>0, <1>1 DEF NoFlow, FlowsOK
<1>3. StatesOK' /\ AcceptedOK' BY <1>0, <1>1, StatesKept, Zenon
<1>4. Grows BY <1>1, GrowsAlong, Zenon
<1>5. PICK a \in Attempt : a = SessionOf(f) /\ Backed(a) /\ (a \in cleared => flows[f].late)
  BY <1>1, <1>2, Zenon DEF FlowOK
<1>6. cleared' \subseteq cleared /\ a \notin cleared'
  BY <1>1, <1>5, Zenon DEF ClearedAfter
<1>7. stored' \in Tokens /\ stored'.session = a
  <2>1. CASE TokenIssued(f)
    <3>1. flows[f].kind = "callback" /\ stored' = [session |-> flows[f].state, stale |-> FALSE]
      BY <2>1, Zenon DEF TokenIssued
    <3>2. flows[f].state = a BY <1>5, <3>1, Zenon DEF SessionOf
    <3>. QED BY <3>1, <3>2, Zenon DEF Tokens
  <2>2. CASE TokenRefreshed(f)
    <3>1. flows[f].kind = "refresh" /\ stored' = flows[f].token
      BY <2>2, Zenon DEF TokenRefreshed
    <3>2. flows[f].token \in Tokens BY <1>2, <3>1, Zenon DEF FlowOK
    <3>3. flows[f].token.session = a BY <1>5, <3>1 DEF SessionOf
    <3>. QED BY <3>1, <3>2, <3>3, Zenon
  <2>. QED BY Zenon, <2>1, <2>2
<1>8. SessionsOK'
  <2>1. ASSUME NEW b \in cleared' PROVE Backed(b)'
    BY <1>0, <1>4, <1>6, Zenon DEF SessionsOK, Grows
  <2>2. Backed(a)' BY <1>4, <1>5, Zenon DEF Grows
  <2>3. Backed(stored.session)' BY <1>7, <2>2, Zenon DEF Backed
  <2>. QED BY <1>0, <1>1, <1>6, <1>7, <2>1, <2>3, Zenon DEF SessionsOK
<1>9. FlowOK(f)' BY <1>0, <1>1, FlowAt, FlowEnds, Zenon
<1>10. FlowsOK' BY <1>0, <1>1, <1>4, <1>6, <1>9, ConfigKept, FlowsStep, Zenon
<1>. QED BY <1>3, <1>8, <1>10, Zenon DEF OidcInv

LEMMA TokenAgesStep ==
  ASSUME OidcInv, TokenAges
  PROVE OidcInv'
<1>0. StatesOK /\ AcceptedOK /\ SessionsOK /\ FlowsOK BY Zenon DEF OidcInv
<1>1. /\ stored # NoToken /\ stored' = [stored EXCEPT !.stale = TRUE]
      /\ UNCHANGED pkce /\ config' = config /\ flows' = flows
      /\ origin' = origin /\ given' = given /\ accepted' = accepted /\ cleared' = cleared
  BY Zenon DEF TokenAges, histories
<1>2. StatesOK' /\ AcceptedOK' BY <1>0, <1>1, StatesKept, Zenon
<1>3. stored \in Tokens BY <1>0, <1>1, Zenon DEF SessionsOK
<1>4. stored' \in Tokens /\ stored'.session = stored.session BY Zenon, <1>1, <1>3 DEF Tokens
<1>5. SessionsOK'
  <2>1. \A a \in cleared' : Backed(a)' BY <1>0, <1>1, Zenon DEF SessionsOK, Backed
  <2>2. Backed(stored.session)' /\ stored'.session \notin cleared'
    <3>1. PICK a : a = stored.session /\ a = stored'.session BY <1>4, Zenon
    <3>2. Backed(a) /\ a \notin cleared BY <1>0, <1>1, <3>1, Zenon DEF SessionsOK
    <3>3. Backed(a)' BY <1>1, <3>2, Zenon DEF Backed
    <3>4. Backed(stored.session)' BY <3>1, <3>3 DEF Backed
    <3>5. cleared' = cleared BY <1>1, Zenon
    <3>6. a \notin cleared' BY <3>2, <3>5
    <3>. QED BY <3>1, <3>4, <3>6
  <2>. QED BY <1>0, <1>1, <1>4, <2>1, <2>2, Zenon DEF SessionsOK
<1>6. Grows BY <1>1, GrowsAlong, Zenon
<1>7. FlowsOK' BY <1>0, <1>1, <1>6, FlowKept, Zenon DEF FlowsOK
<1>. QED BY <1>2, <1>5, <1>7, Zenon DEF OidcInv

\* A call of the session that is cleared becomes late, another one stays.
LEMMA OvertakenOK ==
  ASSUME SessionsOK, NEW f \in Flow, FlowOK(f), flows'[f] = Overtaken[f], Clear,
         origin' = origin, given' = given, accepted' = accepted
  PROVE FlowOK(f)'
<1>. DEFINE overtaken == /\ flows[f] # NoFlow /\ flows[f].kind \in {"callback", "refresh"}
                        /\ SessionOf(f) \in Current
<1>1. flows'[f] = IF overtaken THEN [flows[f] EXCEPT !.late = TRUE] ELSE flows[f]
  BY Zenon DEF Overtaken
<1>2. cleared' = cleared \cup Current BY Zenon DEF Clear
<1>3. CASE overtaken
  <2>1. PICK w : w = flows'[f] BY Zenon
  <2>2. w = [flows[f] EXCEPT !.late = TRUE] BY <1>1, <1>3, <2>1, Zenon
  <2>3. /\ w.at = flows[f].at /\ w.kind = flows[f].kind /\ w.page = flows[f].page
        /\ w.state = flows[f].state /\ w.verifier = flows[f].verifier
        /\ w.token = flows[f].token /\ w.late = TRUE
    BY <2>2
  <2>4. SessionOf(f)' = SessionOf(f) BY <2>1, <2>3, Zenon DEF SessionOf
  <2>5. Backed(SessionOf(f)) => Backed(SessionOf(f))' BY <2>4, Zenon DEF Backed
  <2>. QED BY <1>3, <2>1, <2>3, <2>4, <2>5, Zenon DEF FlowOK
<1>4. CASE ~overtaken
  <2>1. flows'[f] = flows[f] BY <1>1, <1>4, Zenon
  <2>2. SessionOf(f)' = SessionOf(f) BY <2>1, Zenon DEF SessionOf
  <2>3. Backed(SessionOf(f)) => Backed(SessionOf(f))' BY <2>2, Zenon DEF Backed
  <2>. QED BY <1>2, <1>4, <2>1, <2>2, <2>3, Zenon DEF FlowOK
<1>. QED BY <1>3, <1>4, Zenon

LEMMA ClearStep ==
  ASSUME OidcInv, Clear, UNCHANGED <<pkce, config, origin, given, accepted>>,
         DOMAIN flows' = Flow,
         \A f \in Flow : flows'[f] = NoFlow \/ flows'[f] = Overtaken[f]
  PROVE OidcInv'
<1>0. StatesOK /\ AcceptedOK /\ SessionsOK /\ FlowsOK BY Zenon DEF OidcInv
<1>1. StatesOK' /\ AcceptedOK' BY <1>0, StatesKept, Zenon
<1>2. stored' = NoToken /\ cleared' = cleared \cup Current BY Zenon DEF Clear
<1>3. SessionsOK'
  <2>1. ASSUME NEW a \in cleared' PROVE a \in Attempt /\ Backed(a)
    BY <1>0, <1>2, Zenon DEF SessionsOK, Current
  <2>. QED BY <1>0, <1>2, <2>1, Zenon DEF SessionsOK, Backed
<1>4. ASSUME NEW f \in Flow PROVE FlowOK(f)'
  <2>1. FlowOK(f) BY <1>0, Zenon DEF FlowsOK
  <2>2. CASE flows'[f] = NoFlow BY <2>2, FlowEnds, Zenon
  <2>3. CASE flows'[f] = Overtaken[f]
    BY <1>0, <2>1, <2>3, OvertakenOK, Zenon
  <2>. QED BY <2>2, <2>3, Zenon
<1>5. FlowsOK' BY <1>0, <1>4, ConfigKept, Zenon DEF FlowsOK
<1>. QED BY <1>1, <1>3, <1>5, Zenon DEF OidcInv

LEMMA SessionEndsStep ==
  ASSUME OidcInv, Dropped \/ \E f \in Flow : SignedOut(f)
  PROVE OidcInv'
<1>0. DOMAIN Overtaken = Flow BY Zenon DEF Overtaken
<1>1. CASE Dropped
  BY <1>0, <1>1, ClearStep, Zenon DEF Dropped
<1>2. CASE \E f \in Flow : SignedOut(f)
  <2>1. PICK f \in Flow : SignedOut(f) BY <1>2, Zenon
  <2>2. flows' = [Overtaken EXCEPT ![f] = NoFlow] BY <2>1, Zenon DEF SignedOut
  <2>3. DOMAIN flows' = Flow /\ \A g \in Flow : flows'[g] = NoFlow \/ flows'[g] = Overtaken[g]
    BY Zenon, <1>0, <2>2
  <2>. QED BY <2>1, <2>3, ClearStep, Zenon DEF SignedOut
<1>. QED BY <1>1, <1>2, Zenon

LEMMA ReloadStep ==
  ASSUME OidcInv, NEW p \in Page, Reload(p)
  PROVE OidcInv'
<1>0. StatesOK /\ AcceptedOK /\ SessionsOK /\ FlowsOK BY Zenon DEF OidcInv
<1>1. /\ memory' = [memory EXCEPT ![p] = NoStates]
      /\ stored' = stored /\ verifiers' = verifiers /\ origin' = origin
      /\ given' = given /\ accepted' = accepted /\ cleared' = cleared
  BY Zenon DEF Reload, histories
<1>2. DOMAIN memory = Page BY <1>0, Zenon DEF StatesOK
<1>3. /\ DOMAIN memory' = Page /\ DOMAIN memory'[p] = {}
      /\ \A q \in Page : q # p => memory'[q] = memory[q]
  BY Zenon, <1>1, <1>2 DEF NoStates
<1>4. StatesOK'
  <2>1. ASSUME NEW q \in Page
        PROVE /\ Paired(memory'[q])
              /\ \A b \in DOMAIN memory'[q] : b \in DOMAIN origin' /\ origin'[b] = q
    <3>1. CASE q = p BY <3>1, <1>3, Zenon DEF Paired
    <3>2. CASE q # p BY <3>2, <1>0, <1>1, <1>3, Zenon DEF StatesOK
    <3>. QED BY <3>1, <3>2, Zenon
  <2>. QED BY <1>0, <1>1, <1>3, <2>1, Zenon DEF StatesOK, Paired
<1>5. AcceptedOK'
  <2>1. ASSUME NEW b \in Attempt PROVE AcceptedAt(b)'
    <3>1. AcceptedAt(b) BY <1>0, Zenon DEF AcceptedOK
    <3>2. b \in DOMAIN verifiers' => accepted[b] = <<>> BY <1>1, <3>1, Zenon DEF AcceptedAt
    <3>3. \A q \in Page : b \in DOMAIN memory'[q] =>
            (b \in DOMAIN memory[q] \/ accepted[b] = <<>>)
      BY <1>3, Zenon
    <3>. QED BY <1>1, <3>1, <3>2, <3>3, AcceptedKept, Zenon
  <2>. QED BY <1>0, <1>1, <2>1, Zenon DEF AcceptedOK
<1>11. Grows BY <1>1, GrowsAlong, Zenon
<1>6. SessionsOK' BY <1>0, <1>1, <1>11, SessionsKept, Zenon
<1>7. config' \in [Page -> {"none", "fetching", "ok", "failed"}]
  BY Zenon, <1>0 DEF Reload, FlowsOK
<1>8. DOMAIN flows' = Flow /\ \A f \in Flow : flows'[f] = NoFlow \/ flows'[f] = flows[f]
  BY Zenon DEF Reload
<1>9. ASSUME NEW f \in Flow PROVE FlowOK(f)'
  <2>1. FlowOK(f) BY <1>0, Zenon DEF FlowsOK
  <2>. QED BY <1>1, <1>8, <1>11, <2>1, FlowKept, FlowEnds, Zenon
<1>10. FlowsOK' BY <1>7, <1>8, <1>9, Zenon DEF FlowsOK
<1>. QED BY <1>4, <1>5, <1>6, <1>10, Zenon DEF OidcInv

\* consumePkceVerifier returns the verifier of that state or none.
LEMMA ConsumeIsOwn ==
  ASSUME StatesOK, NEW p \in Page, NEW a \in Attempt, Consume(p, a) # NoVerifier
  PROVE /\ Consume(p, a) = a
        /\ a \in DOMAIN memory[p] \/ a \in DOMAIN verifiers
BY Zenon DEF Consume, StatesOK, Paired

LEMMA ConsumedShape ==
  ASSUME StatesOK, NEW p \in Page, NEW a \in Attempt, Consumed(p, a)
  PROVE /\ DOMAIN verifiers' = DOMAIN verifiers \ {a} /\ Paired(verifiers')
        /\ DOMAIN memory' = Page
        /\ DOMAIN memory'[p] = DOMAIN memory[p] \ {a}
        /\ Paired(memory'[p])
        /\ \A q \in Page : q # p => memory'[q] = memory[q]
<1>1. /\ memory' = [memory EXCEPT ![p] = Forget(memory[p], a)]
      /\ verifiers' = Forget(verifiers, a)
  BY Zenon DEF Consumed
<1>2. DOMAIN memory = Page /\ Paired(verifiers) /\ Paired(memory[p])
  BY Zenon DEF StatesOK
<1>3. /\ DOMAIN memory' = Page /\ memory'[p] = Forget(memory[p], a)
      /\ \A q \in Page : q # p => memory'[q] = memory[q]
  BY Zenon, <1>1, <1>2
<1>4. DOMAIN verifiers' = DOMAIN verifiers \ {a} /\ Paired(verifiers')
  BY Zenon, <1>1, <1>2, ForgetShape
<1>5. DOMAIN memory'[p] = DOMAIN memory[p] \ {a} /\ Paired(memory'[p])
  BY SMTT(30), <1>2, <1>3, ForgetShape
<1>. QED BY Zenon, <1>3, <1>4, <1>5

LEMMA AppendedPages ==
  ASSUME NEW s \in Seq(Page), NEW p \in Page
  PROVE /\ Append(s, p) \in Seq(Page)
        /\ \A i \in DOMAIN Append(s, p) : Append(s, p)[i] = p \/ (i \in DOMAIN s /\ Append(s, p)[i] = s[i])
        /\ \A i, j \in DOMAIN Append(s, p) : i < j =>
             /\ i \in DOMAIN s /\ Append(s, p)[i] = s[i]
             /\ (j \in DOMAIN s /\ Append(s, p)[j] = s[j]) \/ Append(s, p)[j] = p
OBVIOUS

\* The page that accepts is not among those that did; if the page that began the sign-in
\* had, neither its memory nor the storage would hold the state.
LEMMA AcceptedAgain ==
  ASSUME OidcInv, NEW p \in Page, NEW a \in Attempt, a \in DOMAIN origin, Consumed(p, a),
         a \in DOMAIN memory[p] \/ a \in DOMAIN verifiers,
         accepted' = [accepted EXCEPT ![a] = Append(accepted[a], p)], origin' = origin
  PROVE AcceptedAt(a)'
<1>0. StatesOK /\ AcceptedOK BY Zenon DEF OidcInv
<1>1. AcceptedAt(a) /\ accepted[a] \in Seq(Page) BY Zenon, <1>0 DEF AcceptedOK
<1>2. accepted'[a] = Append(accepted[a], p) BY Zenon, <1>0 DEF AcceptedOK
<1>3. PICK s \in Seq(Page) : s = accepted[a] BY Zenon, <1>1
<1>4. accepted'[a] = Append(s, p) BY Zenon, <1>2, <1>3
<1>5. \A i \in DOMAIN s : s[i] # p
  <2>1. CASE a \in DOMAIN memory[p] BY <1>1, <1>3, <2>1, Zenon DEF AcceptedAt
  <2>2. CASE a \in DOMAIN verifiers
    <3>1. s = <<>> BY <1>1, <1>3, <2>2, Zenon DEF AcceptedAt
    <3>. QED BY SMTT(30), <3>1
  <2>. QED BY Zenon, <2>1, <2>2
<1>6. \A i \in DOMAIN s : s[i] # origin[a]
  <2>1. CASE a \in DOMAIN memory[p]
    <3>1. p = origin[a] BY <1>0, <2>1, Zenon DEF StatesOK
    <3>. QED BY <3>1, <1>5, Zenon
  <2>2. CASE a \in DOMAIN verifiers
    <3>1. s = <<>> BY <1>1, <1>3, <2>2, Zenon DEF AcceptedAt
    <3>. QED BY <3>1
  <2>. QED BY Zenon, <2>1, <2>2
<1>7. \A i, j \in DOMAIN s : i < j => s[i] # s[j] BY <1>1, <1>3, Zenon DEF AcceptedAt
<1>8. /\ DOMAIN verifiers' = DOMAIN verifiers \ {a}
      /\ DOMAIN memory'[p] = DOMAIN memory[p] \ {a}
      /\ \A q \in Page : q # p => memory'[q] = memory[q]
  BY <1>0, ConsumedShape, Zenon
<1>9. ASSUME NEW q \in Page, a \in DOMAIN memory'[q]
      PROVE \A i \in DOMAIN accepted'[a] : accepted'[a][i] # q
  <2>1. q # p /\ a \in DOMAIN memory[q] BY <1>8, <1>9, Zenon
  <2>2. \A i \in DOMAIN s : s[i] # q BY <1>1, <1>3, <2>1, Zenon DEF AcceptedAt
  <2>3. \A i \in DOMAIN accepted'[a] :
          accepted'[a][i] = p \/ (i \in DOMAIN s /\ accepted'[a][i] = s[i])
    BY SMTT(30), <1>4, AppendedPages
  <2>. QED BY <2>1, <2>2, <2>3, Zenon
<1>10. ASSUME NEW i \in DOMAIN accepted'[a], NEW j \in DOMAIN accepted'[a], i < j
       PROVE accepted'[a][i] # accepted'[a][j] /\ accepted'[a][i] # origin'[a]
  <2>1. /\ i \in DOMAIN s /\ accepted'[a][i] = s[i]
        /\ (j \in DOMAIN s /\ accepted'[a][j] = s[j]) \/ accepted'[a][j] = p
    BY SMTT(30), <1>4, <1>10, AppendedPages
  <2>. QED BY <2>1, <1>5, <1>6, <1>7, <1>10, Zenon
<1>11. a \notin DOMAIN verifiers' /\ a \in DOMAIN origin' BY <1>8, Zenon
<1>. QED BY Zenon, <1>9, <1>10, <1>11 DEF AcceptedAt

LEMMA CallbackStep ==
  ASSUME OidcInv, NEW f \in Flow, NEW p \in Page, NEW a \in Attempt, Callback(f, p, a)
  PROVE OidcInv'
<1>0. StatesOK /\ AcceptedOK /\ SessionsOK /\ FlowsOK BY Zenon DEF OidcInv
<1>1. /\ a \in DOMAIN origin /\ Consumed(p, a)
      /\ stored' = stored /\ origin' = origin /\ given' = given
  BY Zenon DEF Callback
<1>2. /\ DOMAIN verifiers' = DOMAIN verifiers \ {a} /\ Paired(verifiers')
      /\ DOMAIN memory' = Page
      /\ DOMAIN memory'[p] = DOMAIN memory[p] \ {a}
      /\ Paired(memory'[p])
      /\ \A q \in Page : q # p => memory'[q] = memory[q]
  BY <1>0, <1>1, ConsumedShape, Zenon
<1>3. StatesOK'
  <2>1. ASSUME NEW q \in Page
        PROVE /\ Paired(memory'[q])
              /\ \A b \in DOMAIN memory'[q] : b \in DOMAIN origin' /\ origin'[b] = q
    <3>1. Paired(memory[q])
          /\ \A b \in DOMAIN memory[q] : b \in DOMAIN origin /\ origin[b] = q
      BY <1>0, Zenon DEF StatesOK
    <3>2. CASE q = p BY <3>1, <3>2, <1>1, <1>2, Zenon
    <3>3. CASE q # p BY <3>1, <3>3, <1>1, <1>2, Zenon
    <3>. QED BY Zenon, <3>2, <3>3
  <2>2. DOMAIN verifiers' \subseteq DOMAIN origin' BY <1>0, <1>1, <1>2, Zenon DEF StatesOK
  <2>. QED BY Zenon, <1>0, <1>1, <1>2, <2>1, <2>2 DEF StatesOK, Paired
\* A state of which no acceptance is added.
<1>5. ASSUME NEW b \in Attempt, accepted'[b] = accepted[b] PROVE AcceptedAt(b)'
  <2>1. AcceptedAt(b) BY <1>0, Zenon DEF AcceptedOK
  <2>2. b \in DOMAIN verifiers' => b \in DOMAIN verifiers BY <1>2, Zenon
  <2>3. \A q \in Page : b \in DOMAIN memory'[q] => b \in DOMAIN memory[q]
    BY <1>2, Zenon
  <2>. QED BY Zenon, <1>1, <1>5, <2>1, <2>2, <2>3 DEF AcceptedAt
<1>6. CASE Consume(p, a) = NoVerifier
  <2>1. flows' = flows /\ config' = config /\ accepted' = accepted /\ cleared' = cleared
    BY Zenon, <1>6 DEF Callback
  <2>2. AcceptedOK' BY <1>0, <1>5, <2>1, Zenon DEF AcceptedOK
  <2>3. Grows BY <1>1, <2>1, GrowsAlong, Zenon
  <2>4. SessionsOK' BY <1>0, <1>1, <2>1, <2>3, SessionsKept, Zenon
  <2>5. FlowsOK' BY <1>0, <1>1, <2>1, <2>3, FlowKept, Zenon DEF FlowsOK
  <2>. QED BY <1>3, <2>2, <2>4, <2>5, Zenon DEF OidcInv
<1>7. CASE Consume(p, a) # NoVerifier
  <2>1. /\ Consume(p, a) = a
        /\ a \in DOMAIN memory[p] \/ a \in DOMAIN verifiers
    BY Zenon, <1>0, <1>7, ConsumeIsOwn
  <2>. DEFINE w == [at |-> "configuration", kind |-> "callback", page |-> p,
                    state |-> a, verifier |-> a, late |-> FALSE]
  <2>2. /\ BeginCall(f, w) /\ AwaitConfiguration(p)
        /\ accepted' = [accepted EXCEPT ![a] = Append(accepted[a], p)]
        /\ cleared' = cleared \ {a}
    BY Zenon, <1>7, <2>1 DEF Callback
  <2>3. flows' = [flows EXCEPT ![f] = w] BY Zenon, <2>2 DEF BeginCall
  <2>4. /\ w.at = "configuration" /\ w.kind = "callback" /\ w.page = p
        /\ w.state = a /\ w.verifier = a
    BY Zenon
  <2>. HIDE DEF w
  <2>5. flows'[f] = w BY <1>0, <2>3, FlowAt, Zenon
  <2>13. /\ accepted'[a] # <<>>
         /\ \A b \in Attempt : b # a => accepted'[b] = accepted[b]
    <3>1. accepted'[a] = Append(accepted[a], p)
          /\ \A b \in Attempt : b # a => accepted'[b] = accepted[b]
      BY Zenon, <1>0, <2>2 DEF AcceptedOK
    <3>2. PICK r \in Seq(Page) : r = accepted[a] BY Zenon, <1>0 DEF AcceptedOK
    <3>3. Len(Append(r, p)) = Len(r) + 1 /\ Len(r) \in Nat /\ Len(<<>>) = 0 OBVIOUS
    <3>4. Append(r, p) # <<>> BY <3>3
    <3>. QED BY <3>1, <3>2, <3>4, Zenon
  <2>14. Grows BY <1>1, <2>13, Zenon DEF Grows, Backed
  <2>15. SessionsOK' BY <1>0, <1>1, <2>2, <2>14, SessionsKept, Zenon
  <2>6. FlowOK(f)'
    <3>1. SessionOf(f)' = a BY <2>4, <2>5 DEF SessionOf
    <3>2. Backed(SessionOf(f))' BY <2>13, <3>1, Zenon DEF Backed
    <3>. QED BY Zenon, <1>1, <2>2, <2>4, <2>5, <3>1, <3>2 DEF FlowOK
  <2>7. config' \in [Page -> {"none", "fetching", "ok", "failed"}]
    BY <1>0, <2>2, AwaitType, Zenon
  <2>8. FlowsOK' BY <1>0, <1>1, <2>2, <2>3, <2>6, <2>7, <2>14, FlowsStep, Zenon
  <2>9. AcceptedAt(a)' BY <1>1, <2>1, <2>2, AcceptedAgain, Zenon
  <2>10. ASSUME NEW b \in Attempt PROVE AcceptedAt(b)'
    <3>1. b # a => accepted'[b] = accepted[b] BY Zenon, <1>0, <2>2 DEF AcceptedOK
    <3>. QED BY <1>5, <2>9, <3>1, Zenon
  <2>11. accepted' \in [Attempt -> Seq(Page)]
    <3>1. accepted[a] \in Seq(Page) BY Zenon, <1>0 DEF AcceptedOK
    <3>2. Append(accepted[a], p) \in Seq(Page) BY <3>1
    <3>. QED BY Zenon, <1>0, <2>2, <3>2 DEF AcceptedOK
  <2>12. AcceptedOK' BY <2>10, <2>11, Zenon DEF AcceptedOK
  <2>. QED BY <1>3, <2>8, <2>12, <2>15, Zenon DEF OidcInv
<1>. QED BY Zenon, <1>6, <1>7

LEMMA OidcStutter ==
  ASSUME OidcInv, UNCHANGED oidcVars PROVE OidcInv'
<1>1. UNCHANGED <<stored, pkce, histories>> /\ config' = config /\ flows' = flows
  BY Zenon DEF oidcVars, pkce, histories
<1>2. /\ StatesOK' /\ AcceptedOK' /\ SessionsOK'
      /\ origin' = origin /\ Grows /\ cleared' = cleared
  BY <1>1, Elsewhere, Zenon DEF histories
<1>3. FlowsOK' BY <1>1, <1>2, FlowKept, Zenon DEF OidcInv, FlowsOK
<1>. QED BY <1>2, <1>3, Zenon DEF OidcInv

\* The invariant of the sign-in and session methods, for every number of pages,
\* of calls and of sign-ins.
THEOREM OidcInvariant == OidcSpec => []OidcInv
<1>1. OidcInv /\ [OidcNext]_oidcVars => OidcInv'
  <2>. SUFFICES ASSUME OidcInv, [OidcNext]_oidcVars PROVE OidcInv' BY Zenon
  <2>1. ASSUME NEW f \in Flow, NEW p \in Page,
               Signin(f, p) \/ Refresh(f, p) \/ Signout(f, p)
        PROVE OidcInv'
    BY <2>1, OidcBeginStep, RefreshStep, Zenon
  <2>2. ASSUME NEW f \in Flow, NEW p \in Page, NEW a \in Attempt, Callback(f, p, a)
        PROVE OidcInv'
    BY <2>2, CallbackStep, Zenon
  <2>3. ASSUME NEW f \in Flow, ConfigurationFailed(f) \/ Exchange(f) \/ ExchangeFails(f)
        PROVE OidcInv'
    BY <2>3, AwaitedStep, Zenon
  <2>4. ASSUME NEW f \in Flow, TokenIssued(f) \/ TokenRefreshed(f) PROVE OidcInv'
    BY <2>4, TokenStoredStep, Zenon
  <2>5. CASE Dropped \/ \E f \in Flow : SignedOut(f) BY <2>5, SessionEndsStep, Zenon
  <2>6. ASSUME NEW f \in Flow, NEW a \in Attempt, Authorize(f, a) PROVE OidcInv'
    BY <2>6, AuthorizeStep, Zenon
  <2>7. ASSUME NEW p \in Page, ConfigurationArrives(p) \/ Reload(p) PROVE OidcInv'
    BY <2>7, ConfigurationArrivesStep, ReloadStep, Zenon
  <2>8. ASSUME NEW a \in Attempt, SetToken(a) \/ CallbackTokens(a) PROVE OidcInv'
    BY <2>8, GivenStep, Zenon
  <2>9. CASE TokenAges BY <2>9, TokenAgesStep, Zenon
  <2>10. CASE UNCHANGED oidcVars BY <2>10, OidcStutter, Zenon
  <2>. QED BY <2>1, <2>2, <2>3, <2>4, <2>5, <2>6, <2>7, <2>8, <2>9, <2>10, Zenon DEF OidcNext
<1>. QED BY <1>1, OidcInitInv, PTL DEF OidcSpec

\* Type correctness: verifiers are known for states that were generated only.
THEOREM OidcTypeCorrect == OidcSpec => []OidcTypeOK
<1>1. OidcInv => OidcTypeOK
  BY Zenon DEF OidcInv, StatesOK, SessionsOK, FlowsOK, OidcTypeOK
<1>. QED BY <1>1, OidcInvariant, PTL

\* consumePkceVerifier hands a callback the verifier generated with its state, no
\* page accepts a code that it, or the page that began the sign-in, accepted before,
\* and a session is stored only where its code was accepted or its tokens were given.
THEOREM CallbacksOwn == OidcSpec => []CallbackIsItsOwn
<1>1. ASSUME OidcInv PROVE CallbackIsItsOwn
  <2>1. FlowsOK /\ AcceptedOK /\ SessionsOK BY <1>1, Zenon DEF OidcInv
  <2>2. \A f \in Flow :
          (flows[f] # NoFlow /\ flows[f].kind = "callback") => flows[f].verifier = flows[f].state
    BY <2>1, Zenon DEF FlowsOK, FlowOK
  <2>3. \A a \in Attempt : \A i, j \in DOMAIN accepted[a] :
          i < j => accepted[a][i] # accepted[a][j] /\ accepted[a][i] # origin[a]
    BY <2>1, Zenon DEF AcceptedOK, AcceptedAt
  <2>4. (stored # NoToken /\ stored.session \notin given) => accepted[stored.session] # <<>>
    BY <2>1, Zenon DEF SessionsOK, Backed
  <2>. QED BY <2>2, <2>3, <2>4, Zenon DEF CallbackIsItsOwn
<1>. QED BY <1>1, OidcInvariant, PTL

\* A cleared session is stored again only by a call that was under way at the clear
\* or by its callback address.
THEOREM ClearedForGood == OidcSpec => []ClearedStaysCleared
<1>1. OidcInv => ClearedStaysCleared BY Zenon DEF OidcInv, SessionsOK, ClearedStaysCleared
<1>. QED BY <1>1, OidcInvariant, PTL
===============================================================================
