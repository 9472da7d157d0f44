------------------------- MODULE DatabaseAccessProofs -------------------------
(*****************************************************************************)
(* DatabaseRuntime, which implements ResourceLife and opens no file twice;   *)
(* AccessControl (roles and permissions) and StorageAccess (service tokens,  *)
(* user tokens, approved peers), for every value of their constants.  They   *)
(* share no variable.                                                        *)
(*****************************************************************************)
EXTENDS DatabaseRuntime, AccessControl, StorageAccess, TLAPS

-----------------------------------------------------------------------------
(* Databases                                                               *)

CallType ==
  [op : Operation \cup {"none"}, db : Db \cup {None}, barred : BOOLEAN,
   pc : {"idle", "granted", "lock", "catalog", "file", "undo", "evict", "evictKv"}]

\* The calls that hold the mutex of the open databases from Lock to their end.
Locking == {"create", "open", "openSelected", "delete", "tombstone"}

\* A call knows its database as soon as it has one, and holds its mutex.
Holds(t) ==
  LET c == tasks[t] IN
  /\ c.pc # "idle" => c.op \in Operation
  /\ c.pc # "idle" /\ c.op # "create" => c.db \in Db
  /\ c.pc \in {"file", "undo", "evict", "evictKv"} => c.db \in Db
  /\ c.pc \in {"catalog", "file", "undo", "evict", "evictKv"} /\ c.op \in Locking => openLock = t
  /\ c.pc \in {"catalog", "file"} /\ c.op = "openKv" => kvLock = t
  /\ c.pc = "file" => c.op \in {"create", "open", "openSelected", "openKv"}
  /\ c.pc = "undo" => c.op = "create"
  /\ c.pc \in {"evict", "evictKv"} => c.op \in {"delete", "tombstone"}

\* What a call relies on between its steps.
Relies(t) ==
  LET c == tasks[t] IN
  /\ c.pc \in {"evict", "evictKv"} => record[c.db] = "deleted"
  /\ c.pc = "file" /\ c.op # "openKv" => record[c.db] = "live"
  /\ c.pc = "file" /\ c.op = "openKv" /\ c.db \notin kv => opened[c.db].kv = 0
  /\ c.barred => c.db \in Db /\ record[c.db] = "deleted"
  /\ c.pc = "file" /\ c.op \in Access => ~c.barred

\* A file that was opened is cached until its database is deleted.
Cached(d) ==
  /\ opened[d].open \in {0, 1} /\ opened[d].kv \in {0, 1}
  /\ opened[d].open = 1 => d \in open \/ record[d] = "deleted"
  /\ opened[d].kv = 1 => d \in kv \/ record[d] = "deleted"

RuntimeInv ==
  /\ TypeOK
  /\ \A t \in Task : Holds(t) /\ Relies(t)
  /\ \A d \in Db : Cached(d)

LEMMA InitInv == Init => RuntimeInv
  BY DEF Init, RuntimeInv, TypeOK, Holds, Record, Idle, Relies, Cached

LEMMA GotoType ==
  ASSUME TypeOK, NEW t \in Task, NEW pc \in {"file", "undo", "granted", "catalog", "evict", "evictKv"},
         Goto(t, pc)
  PROVE  tasks' \in [Task -> CallType]
<1>1. tasks[t] \in CallType  BY Zenon DEF TypeOK, CallType
<1>2. [tasks[t] EXCEPT !.pc = pc] \in CallType  BY Zenon, <1>1 DEF CallType
<1> QED  BY Zenon, <1>2 DEF TypeOK, CallType, Goto

LEMMA LeaveType ==
  ASSUME TypeOK, NEW t \in Task, NEW pc \in {"idle", "granted"}, Leave(t, pc)
  PROVE  /\ tasks' \in [Task -> CallType]
         /\ openLock' \in Task \cup {None} /\ kvLock' \in Task \cup {None}
<1>1. CASE pc = "idle"
  <2>1. Idle \in CallType  BY Zenon DEF Idle, CallType
  <2> QED  BY <1>1, <2>1 DEF TypeOK, CallType, Leave
<1>2. CASE pc = "granted"
  <2>1. Goto(t, pc)  BY Zenon, <1>2 DEF Leave
  <2>2. tasks' \in [Task -> CallType]  BY Zenon, <1>2, <2>1, GotoType
  <2> QED  BY Zenon, <2>2 DEF TypeOK, Leave
<1> QED  BY Zenon, <1>1, <1>2

LEMMA CallInv ==
  ASSUME RuntimeInv, NEW t \in Task, NEW op \in Operation \ {"create"}, NEW d \in Db, Call(t, op, d)
  PROVE  RuntimeInv'
<1>1. TypeOK'  BY Zenon DEF RuntimeInv, TypeOK, Call
<1>2. ASSUME NEW s \in Task PROVE Holds(s)'
  BY Zenon DEF RuntimeInv, TypeOK, Holds, Call, Locking
<1>3. ASSUME NEW s \in Task PROVE Relies(s)'
  BY ZenonT(60) DEF RuntimeInv, TypeOK, Call, Relies
<1>4. \A e \in Db : Cached(e)'  BY Zenon DEF RuntimeInv, Call, Cached
<1> QED  BY Zenon, <1>1, <1>2, <1>3, <1>4 DEF RuntimeInv

LEMMA CallCreateInv ==
  ASSUME RuntimeInv, NEW t \in Task, CallCreate(t)
  PROVE  RuntimeInv'
<1>1. TypeOK'
  BY ZenonT(60), NoneAssumption DEF RuntimeInv, TypeOK, Operation, Idle, CallCreate
<1>2. ASSUME NEW s \in Task PROVE Holds(s)'
  BY DEF RuntimeInv, TypeOK, Holds, Operation, CallCreate
<1>3. ASSUME NEW s \in Task PROVE Relies(s)'
  BY Zenon DEF RuntimeInv, TypeOK, Relies, Idle, CallCreate
<1>4. ASSUME NEW e \in Db PROVE Cached(e)'
  BY Zenon DEF RuntimeInv, TypeOK, Cached, CallCreate
<1> QED  BY Zenon, <1>1, <1>2, <1>3, <1>4 DEF RuntimeInv

LEMMA LockInv ==
  ASSUME RuntimeInv, NEW t \in Task, Lock(t)
  PROVE  RuntimeInv'
<1>1. TypeOK'
  BY ZenonT(30) DEF RuntimeInv, TypeOK, Lock, Running, Goto
<1>2. ASSUME NEW s \in Task PROVE Holds(s)'
  BY NoneAssumption DEF RuntimeInv, TypeOK, Holds, Locking, Lock, Running, Goto
<1>3. ASSUME NEW s \in Task PROVE Relies(s)'
  BY DEF RuntimeInv, TypeOK, Relies, Lock, Running, Goto
<1>4. ASSUME NEW e \in Db PROVE Cached(e)'
  BY Zenon DEF RuntimeInv, TypeOK, Cached, Lock, Running
<1> QED  BY Zenon, <1>1, <1>2, <1>3, <1>4 DEF RuntimeInv

LEMMA CreateRecordInv ==
  ASSUME RuntimeInv, NEW t \in Task, NEW d \in Db, CreateRecord(t, d)
  PROVE  RuntimeInv'
<1>1. TypeOK'
  <2>1. record' \in [Db -> Record]
    BY DEF RuntimeInv, TypeOK, Record, CreateRecord, CatalogCreate, Replace
  <2>2. PICK result \in CatalogCreate(record[d]) :
          IF result.ok
          THEN /\ tasks' = [tasks EXCEPT ![t].pc = "file", ![t].db = d]
               /\ UNCHANGED <<openLock, kvLock>>
          ELSE Leave(t, "idle")
    BY Zenon DEF CreateRecord
  <2>3. [tasks[t] EXCEPT !.pc = "file", !.db = d] \in CallType
    BY ZenonT(60) DEF RuntimeInv, TypeOK, CallType
  <2>4. /\ tasks' \in [Task -> CallType]
        /\ openLock' \in Task \cup {None} /\ kvLock' \in Task \cup {None}
    <3>1. CASE result.ok  BY <2>2, <2>3, <3>1 DEF RuntimeInv, TypeOK, CallType
    <3>2. CASE ~result.ok  BY Zenon, <2>2, <3>2, LeaveType DEF RuntimeInv
    <3> QED  BY Zenon, <3>1, <3>2
  <2> QED  BY Zenon, <2>1, <2>4 DEF RuntimeInv, TypeOK, CallType, CreateRecord
<1>2. ASSUME NEW s \in Task PROVE Holds(s)'
  BY DEF RuntimeInv, TypeOK, Holds, Idle, CreateRecord, CatalogCreate, Replace, Running, Leave
<1>3. ASSUME NEW s \in Task PROVE Relies(s)'
  BY DEF RuntimeInv, TypeOK, Relies, Idle, CreateRecord, CatalogCreate, Replace, Running, Leave
<1>4. ASSUME NEW e \in Db PROVE Cached(e)'
  BY Zenon DEF RuntimeInv, TypeOK, Cached, CreateRecord, CatalogCreate, Replace, Running
<1> QED  BY Zenon, <1>1, <1>2, <1>3, <1>4 DEF RuntimeInv

LEMMA CreateFailsInv ==
  ASSUME RuntimeInv, NEW t \in Task, CreateFails(t)
  PROVE  RuntimeInv'
<1>1. TypeOK'
  <2>1. /\ tasks' \in [Task -> CallType]
        /\ openLock' \in Task \cup {None} /\ kvLock' \in Task \cup {None}
    BY Zenon, GotoType, LeaveType DEF RuntimeInv, TypeOK, CreateFails
  <2> QED  BY Zenon, <2>1 DEF RuntimeInv, TypeOK, CallType, Running, CreateFails
<1>2. ASSUME NEW s \in Task PROVE Holds(s)'
  BY DEF RuntimeInv, TypeOK, Holds, Idle, CreateFails, Running, Leave
<1>3. ASSUME NEW s \in Task PROVE Relies(s)'
  BY DEF RuntimeInv, TypeOK, Relies, Idle, CreateFails, Running, Leave
<1>4. ASSUME NEW e \in Db PROVE Cached(e)'
  BY Zenon DEF RuntimeInv, TypeOK, Cached, CreateFails, Running
<1> QED  BY Zenon, <1>1, <1>2, <1>3, <1>4 DEF RuntimeInv

LEMMA GetInv ==
  ASSUME RuntimeInv, NEW t \in Task, Get(t)
  PROVE  RuntimeInv'
<1>1. TypeOK'
  <2>1. record' \in [Db -> Record]
    BY DEF RuntimeInv, TypeOK, Holds, Running, Get, Catalog, Recorded, Write, Keep
  <2>2. /\ tasks' \in [Task -> CallType]
        /\ openLock' \in Task \cup {None} /\ kvLock' \in Task \cup {None}
    BY Zenon, GotoType, LeaveType DEF RuntimeInv, TypeOK, Get, Catalog
  <2> QED  BY Zenon, <2>1, <2>2 DEF RuntimeInv, TypeOK, CallType, Get, Catalog
<1>2. ASSUME NEW s \in Task PROVE Holds(s)'
  BY DEF RuntimeInv, TypeOK, Holds, Idle, Get, Catalog, Recorded, Write, Allowed, Keep, Running,
     Goto, Leave
<1>3. ASSUME NEW s \in Task PROVE Relies(s)'
  BY SMTT(30) DEF RuntimeInv, TypeOK, Relies, Cached, Idle, Get, Catalog, Recorded, Write,
     Allowed, Keep,
     Running, Goto, Leave
<1>4. ASSUME NEW e \in Db PROVE Cached(e)'
  BY DEF RuntimeInv, TypeOK, Cached, Get, Catalog, Recorded, Write, Allowed, Keep, Running
<1> QED  BY Zenon, <1>1, <1>2, <1>3, <1>4 DEF RuntimeInv

LEMMA OpenGetInv ==
  ASSUME RuntimeInv, NEW t \in Task, OpenGet(t)
  PROVE  RuntimeInv'
<1>1. TypeOK'
  <2>1. record' \in [Db -> Record]
    BY DEF RuntimeInv, TypeOK, Holds, Running, OpenGet, Catalog, Recorded, Write, Keep
  <2>2. /\ tasks' \in [Task -> CallType]
        /\ openLock' \in Task \cup {None} /\ kvLock' \in Task \cup {None}
    BY Zenon, GotoType, LeaveType DEF RuntimeInv, TypeOK, OpenGet, Catalog
  <2> QED  BY Zenon, <2>1, <2>2 DEF RuntimeInv, TypeOK, CallType, OpenGet, Catalog
<1>2. ASSUME NEW s \in Task PROVE Holds(s)'
  BY DEF RuntimeInv, TypeOK, Holds, Idle, OpenGet, Catalog, Recorded, Write, Allowed, Keep,
     Running, Goto, Leave
<1>3. ASSUME NEW s \in Task PROVE Relies(s)'
  BY SMTT(30) DEF RuntimeInv, TypeOK, Relies, Access, Idle, OpenGet, Catalog, Recorded, Write,
     Allowed,
     Keep, Running, Goto, Leave
<1>4. ASSUME NEW e \in Db PROVE Cached(e)'
  BY DEF RuntimeInv, TypeOK, Cached, OpenGet, Catalog, Recorded, Write, Allowed, Keep, Running
<1> QED  BY Zenon, <1>1, <1>2, <1>3, <1>4 DEF RuntimeInv

LEMMA OpenSelectedInv ==
  ASSUME RuntimeInv, NEW t \in Task, OpenSelected(t)
  PROVE  RuntimeInv'
<1>1. TypeOK'
  <2>1. record' \in [Db -> Record]
    BY DEF RuntimeInv, TypeOK, Holds, Record, Running, OpenSelected, Catalog, Recorded, Write,
       RegisterSelected, Keep, Replace
  <2>2. /\ tasks' \in [Task -> CallType]
        /\ openLock' \in Task \cup {None} /\ kvLock' \in Task \cup {None}
    BY Zenon, GotoType, LeaveType DEF RuntimeInv, TypeOK, OpenSelected, Catalog
  <2> QED  BY Zenon, <2>1, <2>2 DEF RuntimeInv, TypeOK, CallType, OpenSelected, Catalog
<1>2. ASSUME NEW s \in Task PROVE Holds(s)'
  BY DEF RuntimeInv, TypeOK, Holds, Idle, OpenSelected, Catalog, Recorded, Write, Allowed,
     RegisterSelected, Keep, Replace, Running, Goto, Leave
<1>3. ASSUME NEW s \in Task PROVE Relies(s)'
  BY SMTT(30) DEF RuntimeInv, TypeOK, Holds, Relies, Access, Idle, OpenSelected, Catalog,
     Recorded,
     Write, Allowed, RegisterSelected, Keep, Replace, Running, Goto, Leave
<1>4. ASSUME NEW e \in Db PROVE Cached(e)'
  BY DEF RuntimeInv, TypeOK, Cached, OpenSelected, Catalog, Recorded, Write, Allowed,
     RegisterSelected, Keep, Replace, Running
<1> QED  BY Zenon, <1>1, <1>2, <1>3, <1>4 DEF RuntimeInv

LEMMA OpenKvSelectedInv ==
  ASSUME RuntimeInv, NEW t \in Task, OpenKvSelected(t)
  PROVE  RuntimeInv'
<1>1. TypeOK'
  <2>1. record' \in [Db -> Record]
    BY DEF RuntimeInv, TypeOK, Holds, Record, Running, OpenKvSelected, Catalog, Recorded, Write,
       RegisterSelected, Keep, Replace
  <2>2. /\ tasks' \in [Task -> CallType]
        /\ openLock' \in Task \cup {None} /\ kvLock' \in Task \cup {None}
    BY Zenon, GotoType, LeaveType DEF RuntimeInv, TypeOK, OpenKvSelected, Catalog
  <2> QED  BY Zenon, <2>1, <2>2 DEF RuntimeInv, TypeOK, CallType, OpenKvSelected, Catalog
<1>2. ASSUME NEW s \in Task PROVE Holds(s)'
  BY DEF RuntimeInv, TypeOK, Holds, Idle, OpenKvSelected, Catalog, Recorded, Write, Allowed,
     RegisterSelected, Keep, Replace, Running, Goto, Leave
<1>3. ASSUME NEW s \in Task PROVE Relies(s)'
  BY DEF RuntimeInv, TypeOK, Holds, Relies, Access, Cached, Idle, OpenKvSelected, Catalog,
     Recorded, Write, Allowed, RegisterSelected, Keep, Replace, Running, Goto, Leave
<1>4. ASSUME NEW e \in Db PROVE Cached(e)'
  BY DEF RuntimeInv, TypeOK, Cached, OpenKvSelected, Catalog, Recorded, Write, Allowed,
     RegisterSelected, Keep, Replace, Running
<1> QED  BY Zenon, <1>1, <1>2, <1>3, <1>4 DEF RuntimeInv

LEMMA TombstoneInv ==
  ASSUME RuntimeInv, NEW t \in Task, Tombstone(t)
  PROVE  RuntimeInv'
<1>1. TypeOK'
  <2>1. record' \in [Db -> Record]
    BY DEF RuntimeInv, TypeOK, Holds, Record, Running, Tombstone, Catalog, Recorded, Write,
       ApplyTombstone, Keep, Replace
  <2>2. /\ tasks' \in [Task -> CallType]
        /\ openLock' \in Task \cup {None} /\ kvLock' \in Task \cup {None}
    BY Zenon, GotoType, LeaveType DEF RuntimeInv, TypeOK, Tombstone, Catalog
  <2> QED  BY Zenon, <2>1, <2>2 DEF RuntimeInv, TypeOK, CallType, Tombstone, Catalog
<1>2. ASSUME NEW s \in Task PROVE Holds(s)'
  BY DEF RuntimeInv, TypeOK, Holds, Idle, Tombstone, Catalog, Recorded, Write, Allowed,
     ApplyTombstone, Keep, Replace, Running, Goto, Leave
<1>3. ASSUME NEW s \in Task PROVE Relies(s)'
  BY DEF RuntimeInv, TypeOK, Holds, Relies, Locking, Idle, Tombstone, Catalog, Recorded, Write,
     Allowed, ApplyTombstone, Keep, Replace, Running, Goto, Leave
<1>4. ASSUME NEW e \in Db PROVE Cached(e)'
  BY DEF RuntimeInv, TypeOK, Cached, Tombstone, Catalog, Recorded, Write, Allowed,
     ApplyTombstone, Keep, Replace, Running
<1> QED  BY Zenon, <1>1, <1>2, <1>3, <1>4 DEF RuntimeInv

LEMMA DeleteInv ==
  ASSUME RuntimeInv, NEW t \in Task, Delete(t)
  PROVE  RuntimeInv'
<1>1. TypeOK'
  <2>1. record' \in [Db -> Record]
    BY DEF RuntimeInv, TypeOK, Holds, Record, Running, Delete, Recorded, Write, CatalogDelete,
       Keep, Replace
  <2>2. /\ tasks' \in [Task -> CallType]
        /\ openLock' \in Task \cup {None} /\ kvLock' \in Task \cup {None}
    BY Zenon, GotoType, LeaveType DEF RuntimeInv, TypeOK, Delete
  <2> QED  BY Zenon, <2>1, <2>2 DEF RuntimeInv, TypeOK, CallType, Delete
<1>2. ASSUME NEW s \in Task PROVE Holds(s)'
  BY DEF RuntimeInv, TypeOK, Holds, Idle, Delete, Recorded, Write, CatalogDelete, Keep, Replace,
     Running, Goto, Leave
<1>3. ASSUME NEW s \in Task PROVE Relies(s)'
  BY DEF RuntimeInv, TypeOK, Holds, Relies, Locking, Idle, Delete, Recorded, Write,
     CatalogDelete, Keep, Replace, Running, Goto, Leave
<1>4. ASSUME NEW e \in Db PROVE Cached(e)'
  BY DEF RuntimeInv, TypeOK, Cached, Delete, Recorded, Write, CatalogDelete, Keep, Replace,
     Running
<1> QED  BY Zenon, <1>1, <1>2, <1>3, <1>4 DEF RuntimeInv

LEMMA OpenFileInv ==
  ASSUME RuntimeInv, NEW t \in Task, OpenFile(t)
  PROVE  RuntimeInv'
<1>1. TypeOK'
  <2>1. /\ tasks' \in [Task -> CallType]
        /\ openLock' \in Task \cup {None} /\ kvLock' \in Task \cup {None}
    BY Zenon, GotoType, LeaveType DEF RuntimeInv, TypeOK, OpenFile
  <2>2. tasks[t].db \in Db  BY Zenon DEF RuntimeInv, Holds, Running, OpenFile
  <2>3. [opened[tasks[t].db] EXCEPT !.open = @ + 1] \in [open : Nat, kv : Nat]
    BY <2>2 DEF RuntimeInv, TypeOK
  <2>4. opened' \in [Db -> [open : Nat, kv : Nat]]
    BY Zenon, <2>2, <2>3 DEF RuntimeInv, TypeOK, OpenFile
  <2> QED  BY <2>1, <2>2, <2>4 DEF RuntimeInv, TypeOK, CallType, OpenFile
<1>2. ASSUME NEW s \in Task PROVE Holds(s)'
  BY DEF RuntimeInv, TypeOK, Holds, OpenFile, Running, Goto, Leave
<1>3. ASSUME NEW s \in Task PROVE Relies(s)'
  BY SMTT(30) DEF RuntimeInv, TypeOK, Holds, Relies, Record, Idle, OpenFile, Running, Goto,
     Leave
<1>4. ASSUME NEW e \in Db PROVE Cached(e)'
  <2>1. CASE tasks[t].db \in open \/ e # tasks[t].db
    BY Zenon, <2>1 DEF RuntimeInv, TypeOK, Cached, OpenFile
  <2>2. CASE tasks[t].db \notin open /\ e = tasks[t].db
    <3>1. opened[e].open = 0
      BY Zenon, <2>2 DEF RuntimeInv, TypeOK, Relies, Cached, Running, OpenFile
    <3>2. opened'[e] = [opened[e] EXCEPT !.open = 1] /\ e \in open'
      BY <2>2, <3>1 DEF RuntimeInv, TypeOK, OpenFile
    <3> QED  BY <3>1, <3>2 DEF RuntimeInv, TypeOK, Cached, OpenFile
  <2> QED  BY Zenon, <2>1, <2>2
<1> QED  BY Zenon, <1>1, <1>2, <1>3, <1>4 DEF RuntimeInv

LEMMA OpenKvFileInv ==
  ASSUME RuntimeInv, NEW t \in Task, OpenKvFile(t)
  PROVE  RuntimeInv'
<1>1. TypeOK'
  <2>1. /\ tasks' \in [Task -> CallType]
        /\ openLock' \in Task \cup {None} /\ kvLock' \in Task \cup {None}
    BY Zenon, GotoType, LeaveType DEF RuntimeInv, TypeOK, OpenKvFile
  <2>2. tasks[t].db \in Db  BY Zenon DEF RuntimeInv, Holds, Running, OpenKvFile
  <2>3. [opened[tasks[t].db] EXCEPT !.kv = @ + 1] \in [open : Nat, kv : Nat]
    BY <2>2 DEF RuntimeInv, TypeOK
  <2>4. opened' \in [Db -> [open : Nat, kv : Nat]]
    BY Zenon, <2>2, <2>3 DEF RuntimeInv, TypeOK, OpenKvFile
  <2> QED  BY <2>1, <2>2, <2>4 DEF RuntimeInv, TypeOK, CallType, OpenKvFile
<1>2. ASSUME NEW s \in Task PROVE Holds(s)'
  BY DEF RuntimeInv, TypeOK, Holds, OpenKvFile, Running, Goto, Leave
<1>3. ASSUME NEW s \in Task PROVE Relies(s)'
  BY DEF RuntimeInv, TypeOK, Holds, Relies, OpenKvFile, Running, Goto, Leave
<1>4. ASSUME NEW e \in Db PROVE Cached(e)'
  <2>1. CASE tasks[t].db \in kv \/ e # tasks[t].db
    BY Zenon, <2>1 DEF RuntimeInv, TypeOK, Cached, OpenKvFile
  <2>2. CASE tasks[t].db \notin kv /\ e = tasks[t].db
    <3>1. opened[e].kv = 0
      BY Zenon, <2>2 DEF RuntimeInv, TypeOK, Relies, Running, OpenKvFile
    <3>2. opened'[e] = [opened[e] EXCEPT !.kv = 1] /\ e \in kv'
      BY <2>2, <3>1 DEF RuntimeInv, TypeOK, OpenKvFile
    <3> QED  BY <3>1, <3>2 DEF RuntimeInv, TypeOK, Cached, OpenKvFile
  <2> QED  BY Zenon, <2>1, <2>2
<1> QED  BY Zenon, <1>1, <1>2, <1>3, <1>4 DEF RuntimeInv

LEMMA FileFailsInv ==
  ASSUME RuntimeInv, NEW t \in Task, FileFails(t)
  PROVE  RuntimeInv'
<1>1. TypeOK'
  <2>1. /\ tasks' \in [Task -> CallType]
        /\ openLock' \in Task \cup {None} /\ kvLock' \in Task \cup {None}
    BY Zenon, GotoType, LeaveType DEF RuntimeInv, TypeOK, FileFails
  <2> QED  BY Zenon, <2>1 DEF RuntimeInv, TypeOK, CallType, Running, FileFails
<1>2. ASSUME NEW s \in Task PROVE Holds(s)'
  BY DEF RuntimeInv, TypeOK, Holds, Idle, FileFails, Running, Goto, Leave
<1>3. ASSUME NEW s \in Task PROVE Relies(s)'
  BY SMTT(30) DEF RuntimeInv, TypeOK, Relies, Idle, FileFails, Running, Goto, Leave
<1>4. ASSUME NEW e \in Db PROVE Cached(e)'
  BY Zenon DEF RuntimeInv, TypeOK, Cached, FileFails, Running
<1> QED  BY Zenon, <1>1, <1>2, <1>3, <1>4 DEF RuntimeInv

LEMMA UndoCreateInv ==
  ASSUME RuntimeInv, NEW t \in Task, UndoCreate(t)
  PROVE  RuntimeInv'
<1>1. TypeOK'
  <2>1. record' \in [Db -> Record]
    BY DEF RuntimeInv, TypeOK, Holds, Record, Running, UndoCreate, Recorded, Write,
       CatalogDelete, Keep, Replace
  <2>2. /\ tasks' \in [Task -> CallType]
        /\ openLock' \in Task \cup {None} /\ kvLock' \in Task \cup {None}
    BY Zenon, GotoType, LeaveType DEF RuntimeInv, TypeOK, UndoCreate
  <2> QED  BY Zenon, <2>1, <2>2 DEF RuntimeInv, TypeOK, CallType, UndoCreate
<1>2. ASSUME NEW s \in Task PROVE Holds(s)'
  BY DEF RuntimeInv, TypeOK, Holds, Idle, UndoCreate, Recorded, Write, CatalogDelete, Keep,
     Replace, Running, Leave
<1>3. ASSUME NEW s \in Task PROVE Relies(s)'
  BY DEF RuntimeInv, TypeOK, Holds, Relies, Locking, Idle, UndoCreate, Recorded, Write,
     CatalogDelete, Keep, Replace, Running, Leave
<1>4. ASSUME NEW e \in Db PROVE Cached(e)'
  BY DEF RuntimeInv, TypeOK, Cached, UndoCreate, Recorded, Write, CatalogDelete, Keep, Replace,
     Running
<1> QED  BY Zenon, <1>1, <1>2, <1>3, <1>4 DEF RuntimeInv

LEMMA EvictInv ==
  ASSUME RuntimeInv, NEW t \in Task, Evict(t)
  PROVE  RuntimeInv'
<1>1. TypeOK'
  <2>1. /\ tasks' \in [Task -> CallType]
        /\ openLock' \in Task \cup {None} /\ kvLock' \in Task \cup {None}
    BY Zenon, GotoType, LeaveType DEF RuntimeInv, TypeOK, Evict
  <2> QED  BY Zenon, <2>1 DEF RuntimeInv, TypeOK, CallType, Running, Evict
<1>2. ASSUME NEW s \in Task PROVE Holds(s)'
  BY DEF RuntimeInv, TypeOK, Holds, Evict, Running, Goto
<1>3. ASSUME NEW s \in Task PROVE Relies(s)'
  BY DEF RuntimeInv, TypeOK, Relies, Evict, Running, Goto
<1>4. ASSUME NEW e \in Db PROVE Cached(e)'
  BY Zenon DEF RuntimeInv, TypeOK, Relies, Cached, Evict, Running
<1> QED  BY Zenon, <1>1, <1>2, <1>3, <1>4 DEF RuntimeInv

LEMMA EvictKvInv ==
  ASSUME RuntimeInv, NEW t \in Task, EvictKv(t)
  PROVE  RuntimeInv'
<1>1. TypeOK'
  <2>1. /\ tasks' \in [Task -> CallType]
        /\ openLock' \in Task \cup {None} /\ kvLock' \in Task \cup {None}
    BY Zenon, GotoType, LeaveType DEF RuntimeInv, TypeOK, EvictKv
  <2> QED  BY Zenon, <2>1 DEF RuntimeInv, TypeOK, CallType, Running, EvictKv
<1>2. ASSUME NEW s \in Task PROVE Holds(s)'
  BY DEF RuntimeInv, TypeOK, Holds, Idle, EvictKv, Running, Leave
<1>3. ASSUME NEW s \in Task PROVE Relies(s)'
  BY NoneAssumption DEF RuntimeInv, TypeOK, Holds, Relies, Idle, EvictKv, Running, Leave
<1>4. ASSUME NEW e \in Db PROVE Cached(e)'
  BY Zenon DEF RuntimeInv, TypeOK, Relies, Cached, EvictKv, Running
<1> QED  BY Zenon, <1>1, <1>2, <1>3, <1>4 DEF RuntimeInv

LEMMA RestartInv ==
  ASSUME RuntimeInv, Restart
  PROVE  RuntimeInv'
<1>1. TypeOK'  BY Zenon DEF RuntimeInv, TypeOK, Restart, Idle
<1>2. \A t \in Task : Holds(t)' /\ Relies(t)'  BY Zenon DEF Restart, Idle, Holds, Relies
<1>3. \A d \in Db : Cached(d)'  BY DEF Restart, Cached
<1> QED  BY Zenon, <1>1, <1>2, <1>3 DEF RuntimeInv

LEMMA StutterInv ==
  ASSUME RuntimeInv, UNCHANGED vars
  PROVE  RuntimeInv'
<1>1. TypeOK'  BY Zenon DEF RuntimeInv, TypeOK, vars
<1>2. \A t \in Task : Holds(t)' /\ Relies(t)'  BY SMTT(30) DEF RuntimeInv, Holds, Relies, vars
<1>3. \A d \in Db : Cached(d)'  BY Zenon DEF RuntimeInv, Cached, vars
<1> QED  BY Zenon, <1>1, <1>2, <1>3 DEF RuntimeInv

LEMMA NextInv == RuntimeInv /\ [Next]_vars => RuntimeInv'
<1> SUFFICES ASSUME RuntimeInv, [Next]_vars PROVE RuntimeInv'
  BY Zenon
<1>1. ASSUME NEW t \in Task, NEW op \in Operation \ {"create"}, NEW d \in Db, Call(t, op, d)
      PROVE  RuntimeInv'
  BY Zenon, <1>1, CallInv
<1>2. ASSUME NEW t \in Task, CallCreate(t) \/ Lock(t) \/ EvictKv(t)
      PROVE  RuntimeInv'
  BY Zenon, <1>2, CallCreateInv, LockInv, EvictKvInv
<1>3. ASSUME NEW t \in Task, Step(t)
      PROVE  RuntimeInv'
  BY Zenon, <1>3, CreateRecordInv, CreateFailsInv, GetInv, OpenGetInv, OpenSelectedInv,
     OpenKvSelectedInv,
     DeleteInv, TombstoneInv, OpenFileInv, OpenKvFileInv, FileFailsInv, UndoCreateInv, EvictInv
     DEF Step
<1>4. CASE Restart  BY Zenon, <1>4, RestartInv
<1>5. CASE UNCHANGED vars  BY Zenon, <1>5, StutterInv
<1> QED  BY Zenon, <1>1, <1>2, <1>3, <1>4, <1>5 DEF Next

\* RuntimeInv is inductive: every step of every call, a failed open and a stop of
\* the process preserve it.
THEOREM RuntimeInvariance == Spec => []RuntimeInv
  BY InitInv, NextInv, PTL DEF Spec

\* The catalog, the caches, the mutexes and the calls of DatabaseRuntime keep their
\* types.
THEOREM RuntimeTypeCorrect == Spec => []TypeOK
<1>1. RuntimeInv => TypeOK  BY Zenon DEF RuntimeInv
<1> QED  BY <1>1, RuntimeInvariance, PTL

\* However many threads open, delete and re-register however many databases, no
\* file is opened twice in one process.
THEOREM FilesOpenedOnce == Spec => []OpenedOnce
<1>1. RuntimeInv => OpenedOnce  BY DEF RuntimeInv, Cached, OpenedOnce
<1> QED  BY <1>1, RuntimeInvariance, PTL

---------------------------------------------------------------------------
(* The mutexes.                                                            *)

\* Where the holder of a mutex stands, and in which call; only get takes none.
Holder(t) ==
  /\ tasks[t].pc = "lock" => tasks[t].op # "get"
  /\ kvLock = t => tasks[t].op = "openKv" /\ tasks[t].pc \in {"catalog", "file"}
  /\ openLock = t => /\ tasks[t].op \in Locking
                     /\ tasks[t].pc \in {"catalog", "file", "undo", "evict", "evictKv"}

MutexInv == \A t \in Task : Holder(t)

\* A step of one task neither gives a mutex to another one nor moves it.
LEMMA HeldStep ==
  ASSUME MutexInv, NEW t \in Task, Holder(t)',
         \A s \in Task \ {t} : /\ tasks'[s] = tasks[s]
                               /\ kvLock' = s => kvLock = s
                               /\ openLock' = s => openLock = s
  PROVE  MutexInv'
<1>1. ASSUME NEW s \in Task \ {t} PROVE Holder(s)'  BY Zenon, <1>1 DEF MutexInv, Holder
<1> QED  BY Zenon, <1>1 DEF MutexInv

LEMMA HeldLeave ==
  ASSUME TypeOK, MutexInv, NEW t \in Task, NEW pc \in {"idle", "granted"}, Leave(t, pc)
  PROVE  MutexInv'
<1>1. kvLock' # t /\ openLock' # t  BY Zenon, NoneAssumption DEF Leave
<1>2. \A s \in Task \ {t} : /\ tasks'[s] = tasks[s]
                            /\ kvLock' = s => kvLock = s
                            /\ openLock' = s => openLock = s
  BY Zenon, NoneAssumption DEF Leave, Goto, TypeOK
<1>3. tasks'[t].pc # "lock"  BY DEF Leave, Goto, TypeOK, Idle
<1>4. Holder(t)'  BY Zenon, <1>1, <1>3 DEF Holder
<1> QED  BY Zenon, <1>2, <1>4, HeldStep

LEMMA HeldGoto ==
  ASSUME TypeOK, MutexInv, NEW t \in Task, NEW pc, Goto(t, pc), UNCHANGED <<openLock, kvLock>>,
         pc # "lock",
         kvLock = t => pc \in {"catalog", "file"},
         openLock = t => pc \in {"catalog", "file", "undo", "evict", "evictKv"}
  PROVE  MutexInv'
<1>1. /\ tasks'[t].pc = pc /\ tasks'[t].op = tasks[t].op
      /\ \A s \in Task \ {t} : tasks'[s] = tasks[s]
  BY Zenon DEF Goto, TypeOK
<1>2. Holder(t)'  BY Zenon, <1>1 DEF MutexInv, Holder
<1> QED  BY Zenon, <1>1, <1>2, HeldStep

\* A call begins: whoever has ended holds nothing.
LEMMA HeldCall ==
  ASSUME TypeOK, MutexInv, NEW t \in Task,
         CallCreate(t) \/ \E op \in Operation, d \in Db : Call(t, op, d)
  PROVE  MutexInv'
<1>1. tasks[t].pc \in {"idle", "granted"} /\ UNCHANGED <<openLock, kvLock>>
  BY Zenon DEF CallCreate, Call
<1>2. kvLock # t /\ openLock # t  BY <1>1 DEF MutexInv, Holder
<1>3. \A s \in Task \ {t} : tasks'[s] = tasks[s]  BY Zenon DEF CallCreate, Call, TypeOK
<1>4. tasks'[t].pc = "lock" => tasks'[t].op # "get"
  <2>1. CASE CallCreate(t)
    <3>1. tasks'[t].op = "create"  BY <2>1 DEF CallCreate, Idle, TypeOK
    <3> QED  BY <3>1
  <2>2. ASSUME NEW op \in Operation, NEW d \in Db, Call(t, op, d)
        PROVE  tasks'[t].pc = "lock" => tasks'[t].op # "get"
    BY <2>2 DEF Call, TypeOK
  <2> QED  BY Zenon, <2>1, <2>2
<1>5. Holder(t)'  BY Zenon, <1>1, <1>2, <1>4 DEF Holder
<1> QED  BY Zenon, <1>1, <1>3, <1>5, HeldStep

LEMMA HeldLock ==
  ASSUME TypeOK, MutexInv, NEW t \in Task, Lock(t) PROVE MutexInv'
<1>1. /\ tasks'[t].pc = "catalog" /\ tasks'[t].op = tasks[t].op
      /\ \A s \in Task \ {t} : tasks'[s] = tasks[s]
  BY Zenon DEF Lock, Goto, TypeOK
<1>2. kvLock # t /\ openLock # t  BY DEF Lock, Running, MutexInv, Holder
<1>3. CASE tasks[t].op = "openKv"
  <2>1. Holder(t)'  BY Zenon, <1>1, <1>2, <1>3 DEF Lock, Holder
  <2> QED  BY Zenon, <1>1, <1>3, <2>1, HeldStep DEF Lock
<1>4. CASE tasks[t].op # "openKv"
  <2>1. tasks[t].op \in Operation \ {"get"}  BY Zenon DEF Lock, Running, MutexInv, Holder
  <2>2. tasks[t].op \in Locking  BY Zenon, <1>4, <2>1 DEF Operation, Locking
  <2>3. Holder(t)'  BY Zenon, <1>1, <1>2, <1>4, <2>2 DEF Lock, Holder
  <2> QED  BY Zenon, <1>1, <1>4, <2>3, HeldStep DEF Lock
<1> QED  BY Zenon, <1>3, <1>4

\* A call goes on after the catalog, or ends.
LEMMA HeldCatalog ==
  ASSUME TypeOK, MutexInv, NEW t \in Task,
         NEW op \in {"get", "open", "openSelected", "openKv", "tombstone"}, NEW results,
         NEW next, Catalog(t, op, results, next),
         next = CASE op = "get" -> "granted" [] op = "tombstone" -> "evict" [] OTHER -> "file"
  PROVE  MutexInv'
<1>1. tasks[t].op = op  BY Zenon DEF Catalog, Running
<1>2. CASE Leave(t, "idle")  BY Zenon, <1>2, HeldLeave
<1>3. CASE Goto(t, next) /\ UNCHANGED <<openLock, kvLock>>
  <2>1. op = "get" => kvLock # t /\ openLock # t  BY Zenon, <1>1 DEF MutexInv, Holder, Locking
  <2>2. op = "tombstone" => kvLock # t  BY Zenon, <1>1 DEF MutexInv, Holder
  <2>3. /\ op = "get" => next = "granted"
        /\ op = "tombstone" => next = "evict"
        /\ op \notin {"get", "tombstone"} => next = "file"
    BY DEF Catalog
  <2> QED  BY Zenon, <1>3, <2>1, <2>2, <2>3, HeldGoto
<1> QED  BY Zenon, <1>2, <1>3 DEF Catalog

LEMMA HeldStepOf ==
  ASSUME TypeOK, MutexInv, NEW t \in Task, Step(t) \/ EvictKv(t) PROVE MutexInv'
<1>1. ASSUME NEW d \in Db, CreateRecord(t, d) PROVE MutexInv'
  <2>1. CASE Leave(t, "idle")  BY Zenon, <2>1, HeldLeave
  <2>2. CASE /\ tasks' = [tasks EXCEPT ![t].pc = "file", ![t].db = d]
             /\ UNCHANGED <<openLock, kvLock>>
    <3>1. /\ tasks'[t].pc = "file" /\ tasks'[t].op = tasks[t].op
          /\ \A s \in Task \ {t} : tasks'[s] = tasks[s]
      BY Zenon, <2>2 DEF TypeOK
    <3>2. Holder(t)'  BY Zenon, <2>2, <3>1 DEF MutexInv, Holder
    <3> QED  BY Zenon, <2>2, <3>1, <3>2, HeldStep
  <2> QED  BY Zenon, <1>1, <2>1, <2>2 DEF CreateRecord
<1>2. CASE CreateFails(t) \/ UndoCreate(t) \/ OpenFile(t) \/ OpenKvFile(t) \/ EvictKv(t)
  BY Zenon, <1>2, HeldLeave DEF CreateFails, UndoCreate, OpenFile, OpenKvFile, EvictKv
<1>3. CASE Get(t)  BY Zenon, <1>3, HeldCatalog DEF Get
<1>4. CASE OpenGet(t)  BY Zenon, <1>4, HeldCatalog DEF OpenGet
<1>5. CASE OpenSelected(t)  BY Zenon, <1>5, HeldCatalog DEF OpenSelected
<1>6. CASE OpenKvSelected(t)  BY Zenon, <1>6, HeldCatalog DEF OpenKvSelected
<1>7. CASE Tombstone(t)  BY Zenon, <1>7, HeldCatalog DEF Tombstone
<1>8. CASE Delete(t)
  <2>1. kvLock # t  BY Zenon, <1>8 DEF Delete, Running, MutexInv, Holder
  <2> QED  BY Zenon, <1>8, <2>1, HeldLeave, HeldGoto DEF Delete
<1>9. CASE FileFails(t)
  <2>1. CASE Leave(t, "idle")  BY Zenon, <2>1, HeldLeave
  <2>2. CASE tasks[t].op = "create" /\ Goto(t, "undo") /\ UNCHANGED <<openLock, kvLock>>
    <3>1. kvLock # t  BY Zenon, <2>2 DEF MutexInv, Holder
    <3> QED  BY Zenon, <2>2, <3>1, HeldGoto
  <2> QED  BY Zenon, <1>9, <2>1, <2>2 DEF FileFails
<1>10. CASE Evict(t)
  <2>1. kvLock # t  BY Zenon, <1>10 DEF Evict, Running, MutexInv, Holder
  <2> QED  BY Zenon, <1>10, <2>1, HeldGoto DEF Evict
<1> QED  BY Zenon, <1>1, <1>2, <1>3, <1>4, <1>5, <1>6, <1>7, <1>8, <1>9, <1>10 DEF Step

LEMMA MutexNext == TypeOK /\ MutexInv /\ [Next]_vars => MutexInv'
<1> SUFFICES ASSUME TypeOK, MutexInv, [Next]_vars PROVE MutexInv'  BY Zenon
<1>1. CASE Restart  BY <1>1, NoneAssumption DEF Restart, MutexInv, Holder, Idle
<1>2. CASE UNCHANGED vars  BY Zenon, <1>2 DEF vars, MutexInv, Holder
<1> QED  BY Zenon, <1>1, <1>2, HeldCall, HeldLock, HeldStepOf DEF Next

\* However many threads call the runtime: whoever holds the mutex of the key-value stores
\* waits for nothing, whoever holds that of the databases waits at most for the other,
\* and no call ends with a mutex.  No circle of calls waits for ever, the safety half of
\* CallsReturn.
THEOREM LocksAlwaysOrdered == Spec => []LocksOrdered
<1>1. Init => MutexInv  BY NoneAssumption DEF Init, MutexInv, Holder, Idle
<1>2. RuntimeInv => TypeOK  BY Zenon DEF RuntimeInv
<1>3. MutexInv => LocksOrdered  BY Zenon DEF MutexInv, Holder, LocksOrdered
<1> QED  BY RuntimeInvariance, <1>1, <1>2, <1>3, MutexNext, PTL DEF Spec

---------------------------------------------------------------------------
(* The refinement.                                                         *)

\* The catalog only moves forward.
Forward(d) ==
  /\ \A e \in Db \ {d} : record'[e] = record[e]
  /\ \/ record'[d] = record[d]
     \/ record[d] = "absent" /\ record'[d] = "live"
     \/ record[d] # "deleted" /\ record'[d] = "deleted"

\* A step that leaves the abstract calls alone is a change of the catalog or nothing.
LEMMA QuietStep ==
  ASSUME TypeOK, TypeOK', NEW d \in Db, Forward(d), \A s \in Task : Seen(tasks'[s]) = Seen(tasks[s])
  PROVE  [Abstract!LifeNext]_(Abstract!lifeVars)
<1>1. UNCHANGED [t \in Task |-> Seen(tasks[t])]
  BY Zenon
<1>2. record' = [record EXCEPT ![d] = record'[d]]
  BY Zenon DEF TypeOK, Forward
<1>3. record' = record \/ Abstract!Change(d)
  BY <1>1, <1>2 DEF TypeOK, Forward, Abstract!Change
<1> QED  BY Zenon, <1>1, <1>3 DEF Abstract!LifeNext, Abstract!lifeVars

\* A step that ends an abstract call without an answer may have moved the catalog.
LEMMA EndStep ==
  ASSUME TypeOK, TypeOK', NEW t \in Task, NEW d \in Db, Forward(d),
         Seen(tasks[t]).answer = "pending" /\ Seen(tasks[t]).res = d,
         Seen(tasks'[t]) = Seen(Idle),
         \A s \in Task \ {t} : Seen(tasks'[s]) = Seen(tasks[s])
  PROVE  [Abstract!LifeNext]_(Abstract!lifeVars)
<1> DEFINE calls == [s \in Task |-> Seen(tasks[s])]
<1>1. calls' = [calls EXCEPT ![t] = Abstract!NoCall]
  BY ZenonT(60) DEF Abstract!NoCall, Seen, Idle
<1>2. record' = [record EXCEPT ![d] = record'[d]]
  BY Zenon DEF TypeOK, Forward
<1>3. CASE record' = record
  <2>1. Abstract!Drop(t)  BY Zenon, <1>1, <1>3 DEF Abstract!Drop
  <2> QED  BY Zenon, <2>1 DEF Abstract!LifeNext
<1>4. CASE record' # record
  <2>1. Abstract!Fail(t)  BY <1>1, <1>2, <1>4 DEF Abstract!Fail, TypeOK, Forward
  <2> QED  BY Zenon, <2>1 DEF Abstract!LifeNext
<1> QED  BY Zenon, <1>3, <1>4

\* A step that grants the resource of a call that was not barred.
LEMMA GrantStep ==
  ASSUME NEW t \in Task, UNCHANGED record,
         Seen(tasks[t]).answer = "pending" /\ ~Seen(tasks[t]).barred,
         Seen(tasks'[t]) = [Seen(tasks[t]) EXCEPT !.answer = "granted"],
         \A s \in Task \ {t} : Seen(tasks'[s]) = Seen(tasks[s])
  PROVE  Abstract!LifeNext
<1> DEFINE calls == [s \in Task |-> Seen(tasks[s])]
<1>1. calls' = [calls EXCEPT ![t] = [calls[t] EXCEPT !.answer = "granted"]]
  BY Zenon
<1>2. Abstract!Grant(t)  BY Zenon, <1>1 DEF Abstract!Grant
<1> QED  BY Zenon, <1>2 DEF Abstract!LifeNext

\* A new call: an access begins, any other call drops the answer of the last one.
LEMMA BeginStep ==
  ASSUME TypeOK, NEW t \in Task, NEW op \in Operation \ {"create"}, NEW d \in Db, Call(t, op, d)
  PROVE  Abstract!LifeNext
<1> DEFINE calls == [s \in Task |-> Seen(tasks[s])]
<1>1. CASE op \in Access
  <2>1. calls' = [calls EXCEPT ![t] = [res |-> d, barred |-> record[d] = "deleted",
                                       answer |-> "pending"]]
    BY ZenonT(60), <1>1 DEF TypeOK, Call, Seen
  <2>2. Abstract!Begin(t, d)  BY Zenon, <2>1 DEF Abstract!Begin, Call
  <2> QED  BY Zenon, <2>2 DEF Abstract!LifeNext
<1>2. CASE op \notin Access
  <2>1. calls' = [calls EXCEPT ![t] = Abstract!NoCall]
    BY ZenonT(60), <1>2 DEF TypeOK, Call, Seen, Abstract!NoCall
  <2>2. Abstract!Drop(t)  BY Zenon, <2>1 DEF Abstract!Drop, Call
  <2> QED  BY Zenon, <2>2 DEF Abstract!LifeNext
<1> QED  BY Zenon, <1>1, <1>2

LEMMA CallCreateStep ==
  ASSUME TypeOK, NEW t \in Task, CallCreate(t)
  PROVE  Abstract!LifeNext
<1> DEFINE calls == [s \in Task |-> Seen(tasks[s])]
<1>1. calls' = [calls EXCEPT ![t] = Abstract!NoCall]
  BY ZenonT(60) DEF TypeOK, CallCreate, Seen, Access, Idle, Abstract!NoCall
<1>2. Abstract!Drop(t)  BY Zenon, <1>1 DEF Abstract!Drop, CallCreate
<1> QED  BY Zenon, <1>2 DEF Abstract!LifeNext

LEMMA CreateRecordStep ==
  ASSUME RuntimeInv, RuntimeInv', NEW t \in Task, NEW d \in Db, CreateRecord(t, d)
  PROVE  [Abstract!LifeNext]_(Abstract!lifeVars)
<1>1. PICK e \in Db : Forward(e)
  BY DEF RuntimeInv, TypeOK, Forward, Running, CreateRecord, CatalogCreate, Replace
<1>2. ASSUME NEW s \in Task PROVE Seen(tasks'[s]) = Seen(tasks[s])
  BY DEF RuntimeInv, TypeOK, Seen, Access, Idle, Running, Leave, CreateRecord
<1> QED  BY Zenon, <1>1, <1>2, QuietStep DEF RuntimeInv

LEMMA DeleteStep ==
  ASSUME RuntimeInv, RuntimeInv', NEW t \in Task, Delete(t)
  PROVE  [Abstract!LifeNext]_(Abstract!lifeVars)
<1>1. PICK e \in Db : Forward(e)
  BY DEF RuntimeInv, TypeOK, Forward, Running, Delete, Recorded, Write, CatalogDelete, Keep,
     Replace
<1>2. ASSUME NEW s \in Task PROVE Seen(tasks'[s]) = Seen(tasks[s])
  BY DEF RuntimeInv, TypeOK, Seen, Access, Idle, Running, Goto, Leave, Delete
<1> QED  BY Zenon, <1>1, <1>2, QuietStep DEF RuntimeInv

LEMMA TombstoneStep ==
  ASSUME RuntimeInv, RuntimeInv', NEW t \in Task, Tombstone(t)
  PROVE  [Abstract!LifeNext]_(Abstract!lifeVars)
<1>1. PICK e \in Db : Forward(e)
  BY DEF RuntimeInv, TypeOK, Forward, Running, Tombstone, Catalog, Recorded, Write,
     ApplyTombstone, Keep, Replace
<1>2. ASSUME NEW s \in Task PROVE Seen(tasks'[s]) = Seen(tasks[s])
  BY DEF RuntimeInv, TypeOK, Seen, Access, Idle, Running, Goto, Leave, Tombstone, Catalog
<1> QED  BY Zenon, <1>1, <1>2, QuietStep DEF RuntimeInv

LEMMA UndoCreateStep ==
  ASSUME RuntimeInv, RuntimeInv', NEW t \in Task, UndoCreate(t)
  PROVE  [Abstract!LifeNext]_(Abstract!lifeVars)
<1>1. PICK e \in Db : Forward(e)
  BY DEF RuntimeInv, TypeOK, Forward, Running, UndoCreate, Recorded, Write, CatalogDelete, Keep,
     Replace
<1>2. ASSUME NEW s \in Task PROVE Seen(tasks'[s]) = Seen(tasks[s])
  BY DEF RuntimeInv, TypeOK, Seen, Access, Idle, Running, Goto, Leave, UndoCreate
<1> QED  BY Zenon, <1>1, <1>2, QuietStep DEF RuntimeInv

LEMMA LockStep ==
  ASSUME RuntimeInv, NEW t \in Task, Lock(t)
  PROVE  UNCHANGED Abstract!lifeVars
<1>1. ASSUME NEW s \in Task PROVE Seen(tasks'[s]) = Seen(tasks[s])
  BY DEF RuntimeInv, TypeOK, Seen, Lock, Running, Goto
<1> QED  BY Zenon, <1>1 DEF Lock, Abstract!lifeVars

LEMMA EvictStep ==
  ASSUME RuntimeInv, NEW t \in Task, Evict(t)
  PROVE  UNCHANGED Abstract!lifeVars
<1>1. ASSUME NEW s \in Task PROVE Seen(tasks'[s]) = Seen(tasks[s])
  BY Zenon DEF RuntimeInv, TypeOK, Seen, Evict, Running, Goto
<1> QED  BY Zenon, <1>1 DEF Evict, Abstract!lifeVars

LEMMA CreateFailsStep ==
  ASSUME RuntimeInv, NEW t \in Task, CreateFails(t)
  PROVE  UNCHANGED Abstract!lifeVars
<1>1. ASSUME NEW s \in Task PROVE Seen(tasks'[s]) = Seen(tasks[s])
  BY DEF RuntimeInv, TypeOK, Seen, Access, Idle, CreateFails, Running, Leave
<1> QED  BY Zenon, <1>1 DEF CreateFails, Abstract!lifeVars

LEMMA EvictKvStep ==
  ASSUME RuntimeInv, NEW t \in Task, EvictKv(t)
  PROVE  UNCHANGED Abstract!lifeVars
<1>1. ASSUME NEW s \in Task PROVE Seen(tasks'[s]) = Seen(tasks[s])
  BY DEF RuntimeInv, TypeOK, Seen, Access, Idle, EvictKv, Running, Leave
<1> QED  BY Zenon, <1>1 DEF EvictKv, Abstract!lifeVars

LEMMA OpenGetStep ==
  ASSUME RuntimeInv, RuntimeInv', NEW t \in Task, OpenGet(t)
  PROVE  [Abstract!LifeNext]_(Abstract!lifeVars)
<1> DEFINE d == tasks[t].db
<1>1. d \in Db /\ tasks[t].op = "open" /\ tasks[t].pc = "catalog"
  BY Zenon DEF RuntimeInv, Holds, OpenGet, Catalog, Running
<1>2. Forward(d)
  BY <1>1 DEF RuntimeInv, TypeOK, Forward, OpenGet, Catalog, Recorded, Write, Keep
<1>3. \A s \in Task \ {t} : tasks'[s] = tasks[s]
  BY Zenon DEF RuntimeInv, TypeOK, OpenGet, Catalog, Goto, Leave
<1>4. CASE Goto(t, "file")
  <2>1. Seen(tasks'[t]) = Seen(tasks[t])  BY <1>1, <1>4 DEF RuntimeInv, TypeOK, Goto, Seen
  <2> QED  BY Zenon, <1>1, <1>2, <1>3, <2>1, QuietStep DEF RuntimeInv
<1>5. CASE Leave(t, "idle")
  <2>1. tasks'[t] = Idle  BY Zenon, <1>5 DEF RuntimeInv, TypeOK, Leave
  <2>2. Seen(tasks[t]).answer = "pending" /\ Seen(tasks[t]).res = d
    BY Zenon, <1>1 DEF Seen, Access
  <2> QED  BY Zenon, <1>1, <1>2, <1>3, <2>1, <2>2, EndStep DEF RuntimeInv
<1> QED  BY Zenon, <1>4, <1>5 DEF OpenGet, Catalog

LEMMA OpenSelectedStep ==
  ASSUME RuntimeInv, RuntimeInv', NEW t \in Task, OpenSelected(t)
  PROVE  [Abstract!LifeNext]_(Abstract!lifeVars)
<1> DEFINE d == tasks[t].db
<1>1. d \in Db /\ tasks[t].op = "openSelected" /\ tasks[t].pc = "catalog"
  BY Zenon DEF RuntimeInv, Holds, OpenSelected, Catalog, Running
<1>2. Forward(d)
  BY <1>1 DEF RuntimeInv, TypeOK, Forward, OpenSelected, Catalog, Recorded, Write,
     RegisterSelected, Keep, Replace
<1>3. \A s \in Task \ {t} : tasks'[s] = tasks[s]
  BY Zenon DEF RuntimeInv, TypeOK, OpenSelected, Catalog, Goto, Leave
<1>4. CASE Goto(t, "file")
  <2>1. Seen(tasks'[t]) = Seen(tasks[t])  BY <1>1, <1>4 DEF RuntimeInv, TypeOK, Goto, Seen
  <2> QED  BY Zenon, <1>1, <1>2, <1>3, <2>1, QuietStep DEF RuntimeInv
<1>5. CASE Leave(t, "idle")
  <2>1. tasks'[t] = Idle  BY Zenon, <1>5 DEF RuntimeInv, TypeOK, Leave
  <2>2. Seen(tasks[t]).answer = "pending" /\ Seen(tasks[t]).res = d
    BY Zenon, <1>1 DEF Seen, Access
  <2> QED  BY Zenon, <1>1, <1>2, <1>3, <2>1, <2>2, EndStep DEF RuntimeInv
<1> QED  BY Zenon, <1>4, <1>5 DEF OpenSelected, Catalog

LEMMA OpenKvSelectedStep ==
  ASSUME RuntimeInv, RuntimeInv', NEW t \in Task, OpenKvSelected(t)
  PROVE  [Abstract!LifeNext]_(Abstract!lifeVars)
<1> DEFINE d == tasks[t].db
<1>1. d \in Db /\ tasks[t].op = "openKv" /\ tasks[t].pc = "catalog"
  BY Zenon DEF RuntimeInv, Holds, OpenKvSelected, Catalog, Running
<1>2. Forward(d)
  BY <1>1 DEF RuntimeInv, TypeOK, Forward, OpenKvSelected, Catalog, Recorded, Write,
     RegisterSelected, Keep, Replace
<1>3. \A s \in Task \ {t} : tasks'[s] = tasks[s]
  BY Zenon DEF RuntimeInv, TypeOK, OpenKvSelected, Catalog, Goto, Leave
<1>4. CASE Goto(t, "file")
  <2>1. Seen(tasks'[t]) = Seen(tasks[t])  BY <1>1, <1>4 DEF RuntimeInv, TypeOK, Goto, Seen
  <2> QED  BY Zenon, <1>1, <1>2, <1>3, <2>1, QuietStep DEF RuntimeInv
<1>5. CASE Leave(t, "idle")
  <2>1. tasks'[t] = Idle  BY Zenon, <1>5 DEF RuntimeInv, TypeOK, Leave
  <2>2. Seen(tasks[t]).answer = "pending" /\ Seen(tasks[t]).res = d
    BY Zenon, <1>1 DEF Seen, Access
  <2> QED  BY Zenon, <1>1, <1>2, <1>3, <2>1, <2>2, EndStep DEF RuntimeInv
<1> QED  BY Zenon, <1>4, <1>5 DEF OpenKvSelected, Catalog

LEMMA GetStep ==
  ASSUME RuntimeInv, RuntimeInv', NEW t \in Task, Get(t)
  PROVE  [Abstract!LifeNext]_(Abstract!lifeVars)
<1> DEFINE d == tasks[t].db
<1>1. d \in Db /\ tasks[t].op = "get" /\ tasks[t].pc = "catalog"
  BY Zenon DEF RuntimeInv, Holds, Get, Catalog, Running
<1>2. UNCHANGED record
  BY <1>1 DEF RuntimeInv, TypeOK, Get, Catalog, Recorded, Write, Keep
<1>3. \A s \in Task \ {t} : tasks'[s] = tasks[s]
  BY Zenon DEF RuntimeInv, TypeOK, Get, Catalog, Goto, Leave
<1>4. Seen(tasks[t]) = [res |-> d, barred |-> tasks[t].barred, answer |-> "pending"]
  BY Zenon, <1>1 DEF Seen, Access
<1>5. CASE record[d] = "live" /\ Goto(t, "granted")
  <2>1. ~tasks[t].barred  BY Zenon, <1>5 DEF RuntimeInv, Relies
  <2>2. Seen(tasks'[t]) = [res |-> d, barred |-> tasks[t].barred, answer |-> "granted"]
    BY <1>1, <1>5 DEF RuntimeInv, TypeOK, Goto, Seen, Access
  <2> QED  BY <1>2, <1>3, <1>4, <2>1, <2>2, GrantStep
<1>6. CASE Leave(t, "idle")
  <2>1. tasks'[t] = Idle  BY Zenon, <1>6 DEF RuntimeInv, TypeOK, Leave
  <2>2. Forward(d)  BY Zenon, <1>2 DEF Forward
  <2> QED  BY SMTT(30), <1>1, <1>3, <1>4, <2>1, <2>2, EndStep DEF RuntimeInv
<1> QED  BY <1>1, <1>5, <1>6 DEF Get, Catalog, Recorded, Keep, Allowed, Access

LEMMA OpenFileStep ==
  ASSUME RuntimeInv, NEW t \in Task, OpenFile(t)
  PROVE  [Abstract!LifeNext]_(Abstract!lifeVars)
<1> DEFINE d == tasks[t].db
<1>1. tasks[t].pc = "file" /\ tasks[t].op \in {"create", "open", "openSelected"}
  BY Zenon DEF OpenFile, Running
<1>2. UNCHANGED record /\ Goto(t, "granted")  BY Zenon DEF OpenFile, Leave
<1>3. \A s \in Task \ {t} : tasks'[s] = tasks[s]  BY Zenon, <1>2 DEF RuntimeInv, TypeOK, Goto
<1>4. CASE tasks[t].op \in Access
  <2>1. Seen(tasks[t]) = [res |-> d, barred |-> tasks[t].barred, answer |-> "pending"]
    BY Zenon, <1>1, <1>4 DEF Seen
  <2>2. ~tasks[t].barred  BY Zenon, <1>1, <1>4 DEF RuntimeInv, Relies
  <2>3. Seen(tasks'[t]) = [res |-> d, barred |-> tasks[t].barred, answer |-> "granted"]
    BY <1>2, <1>4 DEF RuntimeInv, TypeOK, Goto, Seen
  <2> QED  BY <1>2, <1>3, <2>1, <2>2, <2>3, GrantStep
<1>5. CASE tasks[t].op \notin Access
  <2>1. Seen(tasks'[t]) = Seen(tasks[t])
    BY Zenon, <1>2, <1>5 DEF RuntimeInv, TypeOK, Goto, Seen
  <2> QED  BY Zenon, <1>2, <1>3, <2>1 DEF Abstract!lifeVars
<1> QED  BY Zenon, <1>4, <1>5

LEMMA OpenKvFileStep ==
  ASSUME RuntimeInv, NEW t \in Task, OpenKvFile(t)
  PROVE  [Abstract!LifeNext]_(Abstract!lifeVars)
<1> DEFINE d == tasks[t].db
<1>1. tasks[t].pc = "file" /\ tasks[t].op \in {"openKv"}
  BY Zenon DEF OpenKvFile, Running
<1>2. UNCHANGED record /\ Goto(t, "granted")  BY Zenon DEF OpenKvFile, Leave
<1>3. \A s \in Task \ {t} : tasks'[s] = tasks[s]  BY Zenon, <1>2 DEF RuntimeInv, TypeOK, Goto
<1>4. CASE tasks[t].op \in Access
  <2>1. Seen(tasks[t]) = [res |-> d, barred |-> tasks[t].barred, answer |-> "pending"]
    BY Zenon, <1>1, <1>4 DEF Seen
  <2>2. ~tasks[t].barred  BY Zenon, <1>1, <1>4 DEF RuntimeInv, Relies
  <2>3. Seen(tasks'[t]) = [res |-> d, barred |-> tasks[t].barred, answer |-> "granted"]
    BY Zenon, <1>2, <1>4 DEF RuntimeInv, TypeOK, Goto, Seen
  <2> QED  BY <1>2, <1>3, <2>1, <2>2, <2>3, GrantStep
<1> QED  BY Zenon, <1>1, <1>4 DEF Access

LEMMA FileFailsStep ==
  ASSUME RuntimeInv, RuntimeInv', NEW t \in Task, FileFails(t)
  PROVE  [Abstract!LifeNext]_(Abstract!lifeVars)
<1> DEFINE d == tasks[t].db
<1>1. d \in Db /\ tasks[t].pc = "file"  BY Zenon DEF RuntimeInv, Holds, FileFails, Running
<1>2. Forward(d)  BY Zenon DEF Forward, FileFails
<1>3. \A s \in Task \ {t} : tasks'[s] = tasks[s]
  BY Zenon DEF RuntimeInv, TypeOK, FileFails, Goto, Leave
<1>4. CASE tasks[t].op = "create"
  <2>1. Seen(tasks'[t]) = Seen(tasks[t])
    BY <1>4 DEF RuntimeInv, TypeOK, FileFails, Goto, Seen, Access
  <2> QED  BY Zenon, <1>1, <1>2, <1>3, <2>1, QuietStep DEF RuntimeInv
<1>5. CASE tasks[t].op # "create"
  <2>1. tasks[t].op \in Access  BY Zenon, <1>1, <1>5 DEF RuntimeInv, Holds, Access
  <2>2. Seen(tasks[t]).answer = "pending" /\ Seen(tasks[t]).res = d
    BY Zenon, <1>1, <2>1 DEF Seen
  <2>3. tasks'[t] = Idle  BY Zenon, <1>5 DEF RuntimeInv, TypeOK, FileFails, Leave
  <2> QED  BY Zenon, <1>1, <1>2, <1>3, <2>2, <2>3, EndStep DEF RuntimeInv
<1> QED  BY Zenon, <1>4, <1>5

LEMMA RestartStep ==
  ASSUME Restart
  PROVE  Abstract!LifeNext
<1>1. Abstract!Restart
  BY Zenon DEF Restart, Idle, Seen, Abstract!Restart, Abstract!NoCall
<1> QED  BY Zenon, <1>1 DEF Abstract!LifeNext

\* The runtime implements ResourceLife: a step of a call begins, answers or drops
\* the abstract call, moves the catalog forward, or does neither; no get or open
\* that began after the deletion is ever answered with the database.
THEOREM RuntimeImplementsLife == Spec => DeletionBlocksOpens
<1>1. Init => Abstract!LifeInit
  BY DEF Init, Idle, Seen, Abstract!LifeInit, Abstract!NoCall
<1>2. RuntimeInv /\ RuntimeInv' /\ [Next]_vars => [Abstract!LifeNext]_(Abstract!lifeVars)
  <2> SUFFICES ASSUME RuntimeInv, RuntimeInv', [Next]_vars
               PROVE  [Abstract!LifeNext]_(Abstract!lifeVars)
    BY Zenon
  <2>1. ASSUME NEW t \in Task, NEW op \in Operation \ {"create"}, NEW d \in Db, Call(t, op, d)
        PROVE  Abstract!LifeNext
    BY Zenon, <2>1, BeginStep DEF RuntimeInv
  <2>2. ASSUME NEW t \in Task, CallCreate(t) \/ Lock(t) \/ EvictKv(t)
        PROVE  [Abstract!LifeNext]_(Abstract!lifeVars)
    BY Zenon, <2>2, CallCreateStep, LockStep, EvictKvStep DEF RuntimeInv
  <2>3. ASSUME NEW t \in Task, Step(t)
        PROVE  [Abstract!LifeNext]_(Abstract!lifeVars)
    BY Zenon, <2>3, CreateRecordStep, CreateFailsStep, GetStep, OpenGetStep, OpenSelectedStep,
       OpenKvSelectedStep, DeleteStep, TombstoneStep, OpenFileStep, OpenKvFileStep,
       FileFailsStep, UndoCreateStep, EvictStep
       DEF Step
  <2>4. CASE Restart  BY Zenon, <2>4, RestartStep
  <2>5. CASE UNCHANGED vars
    <3>1. UNCHANGED record /\ UNCHANGED tasks  BY Zenon, <2>5 DEF vars
    <3> QED  BY Zenon, <3>1 DEF Abstract!lifeVars
  <2> QED  BY Zenon, <2>1, <2>2, <2>3, <2>4, <2>5 DEF Next
<1> QED  BY <1>1, <1>2, RuntimeInvariance, PTL DEF Spec, DeletionBlocksOpens, Abstract!LifeSpec

-----------------------------------------------------------------------------
(* Roles and permissions                                                     *)

Row == RoleRow \cup PermissionRow \cup RolePermissionRow \cup UserRoleRow

\* A relation names rows that were inserted before it, of one application.
Relates(row, rs) ==
  \/ /\ row \in UserRoleRow
     /\ row.role \in 1..Len(rs) /\ rs[row.role].table = "role"
     /\ rs[row.role].application = row.application
  \/ /\ row \in RolePermissionRow
     /\ row.role \in 1..Len(rs) /\ rs[row.role].table = "role"
     /\ row.permission \in 1..Len(rs) /\ rs[row.permission].table = "permission"
     /\ rs[row.role].application = rs[row.permission].application

\* The actor held the role in its application, by a row not in gone.
Held(actor, id, gone, rs) ==
  \E i \in (1..Len(rs)) \ gone :
    /\ rs[i].table = "user_role" /\ rs[i].user = actor.user
    /\ rs[i].application = actor.application /\ rs[i].role = id

\* A role of the actor, not in gone, was granted the permission by a row not in gone.
Granted(actor, id, gone, rs) ==
  \E j \in (1..Len(rs)) \ gone :
    /\ rs[j].table = "role_permission" /\ rs[j].permission = id
    /\ rs[j].role \notin gone /\ Held(actor, rs[j].role, gone, rs)

\* What a request in flight knows stays true of the rows and of the live ones.
RequestOK(q, rs, lv) ==
  /\ q.pc \in {"idle", "user_roles", "roles", "permissions", "allowed", "delete",
              "permission", "relation", "insert"}
  /\ q.pc = "permission" => /\ q.role \in 1..Len(rs) /\ rs[q.role].table = "role"
                            /\ rs[q.role].application = q.application
                            /\ q.permission \in Nat
  /\ q.pc \in {"relation", "insert"} => Relates(q.row, rs)
  /\ q.pc = "delete" => /\ q.mark \in 0..Len(rs)
                        /\ \A row \in q.relation :
                             \A i \in lv : rs[i] = row => i = q.id \/ i > q.mark
  /\ q.pc \in {"user_roles", "roles", "permissions"} =>
       q.gone \subseteq 1..Len(rs) /\ q.gone \cap lv = {}
  /\ q.pc = "roles" => /\ \A id \in q.held \cup q.roles : Held(q.actor, id, q.gone, rs)
                       /\ q.roles \cap q.gone = {}
  /\ q.pc = "permissions" => \A id \in q.granted : Granted(q.actor, id, q.gone, rs)

RowsOK(rs, lv) ==
  /\ rs \in Seq(Row)
  /\ lv \subseteq 1..Len(rs)
  /\ \A i, j \in lv : rs[i] = rs[j] => i = j
  /\ \A i \in 1..Len(rs) :
       rs[i].table \in {"user_role", "role_permission"} => Relates(rs[i], rs)

AccessInv ==
  /\ RowsOK(rows, live)
  /\ requests = [r \in Request |-> requests[r]]
  /\ \A r \in Request : RequestOK(requests[r], rows, live)

\* Rows are appended, and become live only then.
Grows(rs, lv, rs2, lv2) ==
  /\ Len(rs) \in Nat /\ Len(rs2) \in Nat /\ Len(rs) <= Len(rs2)
  /\ \A i \in 1..Len(rs) : rs2[i] = rs[i]
  /\ lv \subseteq 1..Len(rs)
  /\ \A i \in lv2 : i \in lv \/ i \in Len(rs) + 1 .. Len(rs2)

LEMMA RelatesGrows ==
  ASSUME NEW row, NEW rs, NEW lv, NEW rs2, NEW lv2,
         Grows(rs, lv, rs2, lv2), Relates(row, rs)
  PROVE  Relates(row, rs2)
<1>1. \A i \in 1..Len(rs) : i \in 1..Len(rs2)  BY DEF Grows
<1>. QED  BY Zenon, <1>1 DEF Grows, Relates

LEMMA HeldGrows ==
  ASSUME NEW actor, NEW id, NEW gone, NEW rs, NEW lv, NEW rs2, NEW lv2,
         Grows(rs, lv, rs2, lv2), Held(actor, id, gone, rs)
  PROVE  Held(actor, id, gone, rs2)
<1>1. \A i \in 1..Len(rs) : i \in 1..Len(rs2)  BY DEF Grows
<1>. QED  BY Zenon, <1>1 DEF Grows, Held

LEMMA GrantedGrows ==
  ASSUME NEW actor, NEW id, NEW gone, NEW rs, NEW lv, NEW rs2, NEW lv2,
         Grows(rs, lv, rs2, lv2), Granted(actor, id, gone, rs)
  PROVE  Granted(actor, id, gone, rs2)
<1>1. \A i \in 1..Len(rs) : i \in 1..Len(rs2)  BY DEF Grows
<1>2. PICK j \in (1..Len(rs)) \ gone :
        /\ rs[j].table = "role_permission" /\ rs[j].permission = id
        /\ rs[j].role \notin gone /\ Held(actor, rs[j].role, gone, rs)
      BY Zenon DEF Granted
<1>3. Held(actor, rs[j].role, gone, rs2)  BY Zenon, <1>2, HeldGrows
<1>4. rs2[j] = rs[j] /\ j \in 1..Len(rs2)  BY Zenon, <1>1, <1>2 DEF Grows
<1>. QED  BY Zenon, <1>2, <1>3, <1>4 DEF Granted

LEMMA RequestGrows ==
  ASSUME NEW q, NEW rs, NEW lv, NEW rs2, NEW lv2,
         Grows(rs, lv, rs2, lv2), RequestOK(q, rs, lv)
  PROVE  RequestOK(q, rs2, lv2)
<1>1. \A i \in 1..Len(rs) : i \in 1..Len(rs2)  BY DEF Grows
<1>2. q.pc = "permission" => /\ q.role \in 1..Len(rs2) /\ rs2[q.role].table = "role"
                             /\ rs2[q.role].application = q.application
                             /\ q.permission \in Nat
      BY Zenon, <1>1 DEF Grows, RequestOK
<1>3. q.pc \in {"relation", "insert"} => Relates(q.row, rs2)
      BY Zenon, RelatesGrows DEF RequestOK
<1>4. q.pc = "delete" => /\ q.mark \in 0..Len(rs2)
                         /\ \A row \in q.relation :
                              \A i \in lv2 : rs2[i] = row => i = q.id \/ i > q.mark
  <2>. SUFFICES ASSUME q.pc = "delete"
                PROVE  /\ q.mark \in 0..Len(rs2)
                       /\ \A row \in q.relation :
                            \A i \in lv2 : rs2[i] = row => i = q.id \/ i > q.mark
       BY Zenon
  <2>1. q.mark \in 0..Len(rs)  BY Zenon DEF RequestOK
  <2>2. q.mark \in 0..Len(rs2) BY <2>1 DEF Grows
  <2>3. ASSUME NEW row \in q.relation, NEW i \in lv2, rs2[i] = row
        PROVE  i = q.id \/ i > q.mark
    <3>1. CASE i \in lv
      <4>1. rs[i] = row  BY Zenon, <2>3, <3>1 DEF Grows
      <4>. QED  BY Zenon, <3>1, <4>1 DEF RequestOK
    <3>2. CASE i \in Len(rs) + 1 .. Len(rs2)  BY <2>1, <3>2 DEF Grows
    <3>. QED  BY Zenon, <3>1, <3>2 DEF Grows
  <2>. QED  BY Zenon, <2>2, <2>3
<1>5. q.pc \in {"user_roles", "roles", "permissions"} =>
        q.gone \subseteq 1..Len(rs2) /\ q.gone \cap lv2 = {}
      BY <1>1 DEF Grows, RequestOK
<1>6. q.pc = "roles" => /\ \A id \in q.held \cup q.roles : Held(q.actor, id, q.gone, rs2)
                        /\ q.roles \cap q.gone = {}
      BY Zenon, HeldGrows DEF RequestOK
<1>7. q.pc = "permissions" => \A id \in q.granted : Granted(q.actor, id, q.gone, rs2)
      BY Zenon, GrantedGrows DEF RequestOK
<1>8. q.pc \in {"idle", "user_roles", "roles", "permissions", "allowed", "delete",
                "permission", "relation", "insert"}
      BY Zenon DEF RequestOK
<1>. QED  BY Zenon, <1>2, <1>3, <1>4, <1>5, <1>6, <1>7, <1>8 DEF RequestOK

LEMMA ShrinkGrows ==
  ASSUME NEW rs, NEW lv, NEW lv2, RowsOK(rs, lv), lv2 \subseteq lv
  PROVE  RowsOK(rs, lv2) /\ Grows(rs, lv, rs, lv2)
<1>1. Len(rs) \in Nat  BY DEF RowsOK
<1>. QED  BY <1>1 DEF RowsOK, Grows

LEMMA AppendGrows ==
  ASSUME NEW rs, NEW lv, NEW row \in Row, RowsOK(rs, lv), \A i \in lv : rs[i] # row,
         row.table \in {"user_role", "role_permission"} => Relates(row, rs)
  PROVE  /\ RowsOK(Append(rs, row), lv \cup {Len(rs) + 1})
         /\ Grows(rs, lv, Append(rs, row), lv \cup {Len(rs) + 1})
<1> DEFINE rs2 == Append(rs, row)
           lv2 == lv \cup {Len(rs) + 1}
<1>1. rs \in Seq(Row) /\ Len(rs) \in Nat  BY DEF RowsOK
<1>2. rs2 \in Seq(Row) /\ Len(rs2) = Len(rs) + 1  BY <1>1
<1>3. \A i \in 1..Len(rs) : rs2[i] = rs[i]  BY <1>1
<1>4. rs2[Len(rs) + 1] = row  BY <1>1
<1>. HIDE DEF rs2
<1>5. Grows(rs, lv, rs2, lv2)  BY <1>1, <1>2, <1>3 DEF Grows, RowsOK
<1>6. \A i, j \in lv2 : rs2[i] = rs2[j] => i = j  BY Zenon, <1>1, <1>3, <1>4 DEF RowsOK
<1>7. ASSUME NEW i \in 1..Len(rs2), rs2[i].table \in {"user_role", "role_permission"}
      PROVE  Relates(rs2[i], rs2)
  <2>1. CASE i \in 1..Len(rs)
    <3>1. Relates(rs[i], rs)  BY Zenon, <1>3, <1>7, <2>1 DEF RowsOK
    <3>. QED  BY Zenon, <1>3, <1>5, <2>1, <3>1, RelatesGrows
  <2>2. CASE i = Len(rs) + 1  BY Zenon, <1>4, <1>5, <1>7, <2>2, RelatesGrows
  <2>. QED  BY <1>1, <1>2, <2>1, <2>2
<1>8. ASSUME NEW i \in lv2  PROVE i \in 1..Len(rs2)
  <2>1. lv \subseteq 1..Len(rs)  BY Zenon DEF RowsOK
  <2>. QED  BY <1>1, <1>2, <2>1
<1>9. RowsOK(rs2, lv2)
  <2>. HIDE DEF lv2
  <2>. QED  BY Zenon, <1>2, <1>6, <1>7, <1>8 DEF RowsOK
<1>. QED  BY Zenon, <1>5, <1>9 DEF rs2

\* A step that leaves every row but changes one request.
LEMMA ContinueKeeps ==
  ASSUME AccessInv, NEW r \in Request, NEW q, Continue(r, q), UNCHANGED <<rows, live>>,
         RequestOK(q, rows, live)
  PROVE  AccessInv'
<1>1. /\ requests' = [x \in Request |-> requests'[x]] /\ requests'[r] = q
      /\ \A x \in Request : x # r => requests'[x] = requests[x]
      BY Zenon DEF AccessInv, Continue
<1>2. rows' = rows /\ live' = live  BY Zenon
<1>. QED  BY Zenon, <1>1, <1>2 DEF AccessInv

\* A step that ends a request and changes the rows.
LEMMA AnswerGrows ==
  ASSUME AccessInv, NEW r \in Request, Answer(r), RowsOK(rows', live'),
         Grows(rows, live, rows', live')
  PROVE  AccessInv'
<1>1. /\ requests' = [x \in Request |-> requests'[x]] /\ requests'[r] = NoRequest
      /\ \A x \in Request : x # r => requests'[x] = requests[x]
      BY Zenon DEF AccessInv, Continue, Answer
<1>2. RequestOK(NoRequest, rows', live')  BY Zenon DEF NoRequest, RequestOK
<1>3. \A x \in Request : RequestOK(requests[x], rows', live')
      BY Zenon, RequestGrows DEF AccessInv
<1>. QED  BY Zenon, <1>1, <1>2, <1>3 DEF AccessInv

LEMMA AnswerKeeps ==
  ASSUME AccessInv, NEW r \in Request, Answer(r), UNCHANGED <<rows, live>>
  PROVE  AccessInv'
<1>1. RequestOK(NoRequest, rows, live)  BY Zenon DEF NoRequest, RequestOK
<1>. QED  BY Zenon, <1>1, ContinueKeeps DEF Answer

LEMMA InsertKeeps ==
  ASSUME AccessInv, NEW r \in Request, NEW row \in Row, Insert(r, row),
         row.table \in {"user_role", "role_permission"} => Relates(row, rows)
  PROVE  AccessInv'
<1>1. CASE UNCHANGED <<rows, live>>  BY Zenon, <1>1, AnswerKeeps DEF Insert
<1>2. CASE /\ ~\E i \in live : rows[i] = row
           /\ rows' = Append(rows, row) /\ live' = live \cup {Len(rows) + 1}
  <2>1. RowsOK(rows, live)  BY Zenon DEF AccessInv
  <2>2. RowsOK(rows', live') /\ Grows(rows, live, rows', live')
        BY Zenon, <1>2, <2>1, AppendGrows
  <2>. QED  BY Zenon, <2>2, AnswerGrows DEF Insert
<1>. QED  BY Zenon, <1>1, <1>2 DEF Insert

LEMMA RowFields ==
  ASSUME NEW row \in Row
  PROVE  /\ row.table = "role" => row.application \in Application
         /\ row.table = "permission" => row.application \in Application
         /\ row.table = "user_role" => row \in UserRoleRow
         /\ row.table = "role_permission" => row \in RolePermissionRow
BY Zenon DEF Row, RoleRow, PermissionRow, UserRoleRow, RolePermissionRow

LEMMA FourInSeq ==
  ASSUME NEW S, NEW a \in S, NEW b \in S, NEW c \in S, NEW d \in S
  PROVE  <<a, b, c, d>> \in Seq(S)
OBVIOUS

LEMMA AccessInvInit == AccessInit => AccessInv
<1>. SUFFICES ASSUME AccessInit PROVE AccessInv  BY Zenon
<1>. USE ApplicationAssumption
<1>1. rows[1] = [table |-> "role", application |-> Management, name |-> <<"admin">>]
      BY Zenon DEF AccessInit, Baseline
<1>2. rows[2] = [table |-> "permission", application |-> Management, name |-> <<"*">>]
      BY Zenon DEF AccessInit, Baseline
<1>3. rows[3] = [table |-> "role_permission", role |-> 1, permission |-> 2]
      BY Zenon DEF AccessInit, Baseline
<1>4. rows[4] = [table |-> "user_role", user |-> Owner, application |-> Management,
                 role |-> 1]
      BY Zenon DEF AccessInit, Baseline
<1>5. rows[1] \in RoleRow  BY <1>1 DEF RoleRow
<1>6. rows[2] \in PermissionRow  BY <1>2 DEF PermissionRow
<1>7. rows[3] \in RolePermissionRow  BY <1>3 DEF RolePermissionRow
<1>8. rows[4] \in UserRoleRow  BY <1>4 DEF UserRoleRow
<1>9. rows = <<rows[1], rows[2], rows[3], rows[4]>> /\ Len(rows) = 4
      BY Zenon DEF AccessInit, Baseline
<1>10. rows \in Seq(Row)
  <2>1. rows[1] \in Row /\ rows[2] \in Row /\ rows[3] \in Row /\ rows[4] \in Row
        BY Zenon, <1>5, <1>6, <1>7, <1>8 DEF Row
  <2>2. <<rows[1], rows[2], rows[3], rows[4]>> \in Seq(Row)  BY Zenon, <2>1, FourInSeq
  <2>. QED  BY Zenon, <1>9, <2>2
<1>11. Relates(rows[3], rows)  BY <1>1, <1>2, <1>3, <1>7, <1>9 DEF Relates
<1>12. Relates(rows[4], rows)  BY <1>1, <1>4, <1>8, <1>9 DEF Relates
<1>13. RowsOK(rows, live)
  <2>1. live \subseteq 1..Len(rows)  BY Zenon, <1>9 DEF AccessInit
  <2>2. ASSUME NEW i \in 1..4, NEW j \in 1..4, rows[i] = rows[j]  PROVE i = j
    <3>1. \A k \in 1..4 : k = 1 \/ k = 2 \/ k = 3 \/ k = 4  OBVIOUS
    <3>2. /\ rows[1].table = "role" /\ rows[2].table = "permission"
          /\ rows[3].table = "role_permission" /\ rows[4].table = "user_role"
          BY <1>1, <1>2, <1>3, <1>4
    <3>. QED  BY Zenon, <2>2, <3>1, <3>2
  <2>3. ASSUME NEW i \in 1..4, rows[i].table \in {"user_role", "role_permission"}
        PROVE  Relates(rows[i], rows)
    <3>1. i = 1 \/ i = 2 \/ i = 3 \/ i = 4  OBVIOUS
    <3>. QED  BY <1>1, <1>2, <1>11, <1>12, <2>3, <3>1
  <2>. QED  BY Zenon, <1>9, <1>10, <2>1, <2>2, <2>3 DEF RowsOK, AccessInit
<1>14. requests = [r \in Request |-> NoRequest]  BY Zenon DEF AccessInit
<1>15. RequestOK(NoRequest, rows, live)  BY Zenon DEF NoRequest, RequestOK
<1>. QED  BY Zenon, <1>13, <1>14, <1>15 DEF AccessInv

LEMMA AskKeeps ==
  ASSUME AccessInv, NEW r \in Request, NEW u, NEW need, Ask(r, u, need)
  PROVE  AccessInv'
<1> DEFINE q == [pc |-> "user_roles", actor |-> u, need |-> need,
                 gone |-> (1..Len(rows)) \ live]
<1>1. RequestOK(q, rows, live)  BY Zenon DEF RequestOK
<1>. QED  BY Zenon, <1>1, ContinueKeeps DEF Ask

LEMMA ListUserRolesKeeps ==
  ASSUME AccessInv, NEW r \in Request, ListUserRoles(r)
  PROVE  AccessInv'
<1> DEFINE p == requests[r]
           held == {rows[i].role : i \in {j \in Table("user_role") :
                      /\ rows[j].user = p.actor.user /\ rows[j].application = p.actor.application}}
           q == [pc |-> "roles", need |-> p.need, actor |-> p.actor, gone |-> p.gone,
                 roles |-> {}, held |-> held]
<1>1. p.gone \subseteq 1..Len(rows) /\ p.gone \cap live = {} /\ live \subseteq 1..Len(rows)
      BY Zenon DEF AccessInv, RequestOK, RowsOK, ListUserRoles
<1>2. \A id \in held : Held(p.actor, id, p.gone, rows)  BY Zenon, <1>1 DEF Held, Table
<1>. HIDE DEF p, held
<1>3. /\ q.pc = "roles" /\ q.gone = p.gone /\ q.roles = {} /\ q.held = held
      /\ q.actor = p.actor  BY Zenon
<1>. HIDE DEF q
<1>4. RequestOK(q, rows, live)  BY Zenon, <1>1, <1>2, <1>3 DEF RequestOK
<1>5. Continue(r, q) /\ UNCHANGED <<rows, live>>  BY Zenon DEF ListUserRoles, p, held, q
<1>. QED  BY Zenon, <1>4, <1>5, ContinueKeeps

LEMMA FindHeldRoleKeeps ==
  ASSUME AccessInv, NEW r \in Request, FindHeldRole(r)
  PROVE  AccessInv'
<1>1. PICK id \in requests[r].held :
        Continue(r, [requests[r] EXCEPT !.held = @ \ {id},
                       !.roles = IF IsRole(requests[r].actor.application, id) THEN @ \cup {id} ELSE @])
      BY Zenon DEF FindHeldRole
<1> DEFINE p == requests[r]
           q == [p EXCEPT !.held = @ \ {id},
                          !.roles = IF IsRole(p.actor.application, id) THEN @ \cup {id} ELSE @]
<1>2. p.pc = "roles" /\ UNCHANGED <<rows, live>>  BY Zenon DEF FindHeldRole
<1>3. RequestOK(p, rows, live)  BY Zenon DEF AccessInv
<1>4. IsRole(p.actor.application, id) => id \in live  BY Zenon DEF IsRole, Table
<1>. HIDE DEF p
<1>5. SUFFICES RequestOK(q, rows, live)  BY Zenon, <1>1, <1>2, ContinueKeeps DEF p
<1>6. id \in p.held  BY Zenon DEF p
<1>7. /\ q.pc = "roles" /\ q.gone = p.gone /\ q.actor = p.actor
      /\ q.held \subseteq p.held
      /\ q.roles = p.roles \/ (id \in live /\ q.roles = p.roles \cup {id})
      BY <1>2, <1>3, <1>4 DEF RequestOK
<1>. HIDE DEF q
<1>8. \A x \in q.held \cup q.roles : x \in p.held \cup p.roles  BY Zenon, <1>6, <1>7
<1>9. \A x \in q.held \cup q.roles : Held(q.actor, x, q.gone, rows)
      BY Zenon, <1>2, <1>3, <1>7, <1>8 DEF RequestOK
<1>10. q.gone \subseteq 1..Len(rows) /\ q.gone \cap live = {} /\ p.roles \cap p.gone = {}
      BY Zenon, <1>2, <1>3, <1>7 DEF RequestOK
<1>11. q.roles \cap q.gone = {}  BY Zenon, <1>7, <1>10
<1>. QED  BY Zenon, <1>7, <1>9, <1>10, <1>11 DEF RequestOK

LEMMA ListRolePermissionsKeeps ==
  ASSUME AccessInv, NEW r \in Request, ListRolePermissions(r)
  PROVE  AccessInv'
<1> DEFINE p == requests[r]
           granted == {rows[i].permission : i \in
                         {j \in Table("role_permission") : rows[j].role \in p.roles}}
           q == [pc |-> "permissions", need |-> p.need, actor |-> p.actor, gone |-> p.gone,
                 granted |-> granted]
<1>1. /\ p.gone \subseteq 1..Len(rows) /\ p.gone \cap live = {}
      /\ live \subseteq 1..Len(rows) /\ p.roles \cap p.gone = {}
      /\ \A id \in p.roles : Held(p.actor, id, p.gone, rows)
      BY Zenon DEF AccessInv, RequestOK, RowsOK, ListRolePermissions
<1>2. ASSUME NEW id \in granted  PROVE Granted(p.actor, id, p.gone, rows)
  <2>1. PICK i \in live : /\ rows[i].table = "role_permission" /\ rows[i].role \in p.roles
                          /\ rows[i].permission = id
        BY Zenon DEF Table
  <2>. QED  BY Zenon, <1>1, <2>1 DEF Granted
<1>. HIDE DEF p, granted
<1>3. /\ q.pc = "permissions" /\ q.gone = p.gone /\ q.granted = granted
      /\ q.actor = p.actor  BY Zenon
<1>. HIDE DEF q
<1>4. RequestOK(q, rows, live)  BY Zenon, <1>1, <1>2, <1>3 DEF RequestOK
<1>5. Continue(r, q) /\ UNCHANGED <<rows, live>>
      BY Zenon DEF ListRolePermissions, p, granted, q
<1>. QED  BY Zenon, <1>4, <1>5, ContinueKeeps

LEMMA HasPermissionKeeps ==
  ASSUME AccessInv, NEW r \in Request, HasPermission(r)
  PROVE  AccessInv'
<1> DEFINE q == [pc |-> "allowed", need |-> requests[r].need]
<1>1. RequestOK(q, rows, live)  BY Zenon DEF RequestOK
<1>2. /\ Continue(r, q) \/ Answer(r)
      /\ UNCHANGED <<rows, live>>
      BY Zenon DEF HasPermission
<1>. QED  BY Zenon, <1>1, <1>2, ContinueKeeps, AnswerKeeps

LEMMA CreateKeeps ==
  ASSUME AccessInv, NEW r \in Request, CreateRole(r) \/ CreatePermission(r)
  PROVE  AccessInv'
<1>1. ASSUME NEW a \in Application, NEW n \in RoleName,
             Insert(r, [table |-> "role", application |-> a, name |-> n])
      PROVE  AccessInv'
  <2> DEFINE row == [table |-> "role", application |-> a, name |-> n]
  <2>1. row \in Row /\ row.table = "role"  BY Zenon DEF Row, RoleRow
  <2>. HIDE DEF row
  <2>2. Insert(r, row)  BY Zenon, <1>1 DEF row
  <2>. QED  BY Zenon, <2>1, <2>2, InsertKeeps
<1>2. ASSUME NEW a \in Application, NEW n \in PermissionName,
             Insert(r, [table |-> "permission", application |-> a, name |-> n])
      PROVE  AccessInv'
  <2> DEFINE row == [table |-> "permission", application |-> a, name |-> n]
  <2>1. row \in Row /\ row.table = "permission"  BY Zenon DEF Row, PermissionRow
  <2>. HIDE DEF row
  <2>2. Insert(r, row)  BY Zenon, <1>2 DEF row
  <2>. QED  BY Zenon, <2>1, <2>2, InsertKeeps
<1>. QED  BY Zenon, <1>1, <1>2 DEF CreateRole, CreatePermission

LEMMA DeleteFoundKeeps ==
  ASSUME AccessInv, NEW r \in Request, DeleteRole(r) \/ DeletePermission(r)
  PROVE  AccessInv'
<1>1. ASSUME NEW id  PROVE RequestOK([pc |-> "delete", id |-> id, mark |-> 0,
                                      relation |-> {}], rows, live)
  <2>1. Len(rows) \in Nat  BY DEF AccessInv, RowsOK
  <2>. QED  BY SMTT(30), <2>1 DEF RequestOK
<1>2. /\ \/ \E id : Continue(r, [pc |-> "delete", id |-> id, mark |-> 0, relation |-> {}])
         \/ Answer(r)
      /\ UNCHANGED <<rows, live>>
      BY Zenon DEF DeleteRole, DeletePermission
<1>. QED  BY Zenon, <1>1, <1>2, ContinueKeeps, AnswerKeeps

LEMMA DeleteKeeps ==
  ASSUME AccessInv, NEW r \in Request, DeleteRow(r)
  PROVE  AccessInv'
<1>1. rows' = rows /\ live' \subseteq live /\ Answer(r)  BY Zenon DEF DeleteRow
<1>2. RowsOK(rows, live') /\ Grows(rows, live, rows, live')
      BY Zenon, <1>1, ShrinkGrows DEF AccessInv
<1>. QED  BY Zenon, <1>1, <1>2, AnswerGrows

LEMMA RoleOfUserKeeps ==
  ASSUME AccessInv, NEW r \in Request, RoleOfUser(r)
  PROVE  AccessInv'
<1>1. PICK a \in Application, u \in Person, id \in 1..Len(rows), adding \in BOOLEAN :
        IF IsRole(a, id)
        THEN Continue(r, Relating([table |-> "user_role", user |-> u, application |-> a,
                                   role |-> id], adding))
        ELSE Answer(r)
      BY Zenon DEF RoleOfUser
<1>2. UNCHANGED <<rows, live>>  BY Zenon DEF RoleOfUser
<1>3. CASE ~IsRole(a, id)  BY Zenon, <1>1, <1>2, <1>3, AnswerKeeps
<1>4. CASE IsRole(a, id)
  <2> DEFINE row == [table |-> "user_role", user |-> u, application |-> a, role |-> id]
             q == Relating(row, adding)
  <2>0. Len(rows) \in Nat  BY DEF AccessInv, RowsOK
  <2>1. rows[id].table = "role" /\ rows[id].application = a
        BY Zenon, <1>4 DEF IsRole, Table
  <2>2. row \in UserRoleRow /\ row.role = id /\ row.application = a
        BY <2>0 DEF UserRoleRow
  <2>. HIDE DEF row
  <2>3. Relates(row, rows)  BY Zenon, <2>1, <2>2 DEF Relates
  <2>4. q.pc = "relation" /\ q.row = row  BY Zenon DEF Relating
  <2>. HIDE DEF q
  <2>5. RequestOK(q, rows, live)  BY Zenon, <2>3, <2>4 DEF RequestOK
  <2>6. Continue(r, q)  BY Zenon, <1>1, <1>4 DEF q, row
  <2>. QED  BY Zenon, <1>2, <2>5, <2>6, ContinueKeeps
<1>. QED  BY Zenon, <1>3, <1>4

LEMMA PermissionOfRoleKeeps ==
  ASSUME AccessInv, NEW r \in Request, PermissionOfRole(r)
  PROVE  AccessInv'
<1>1. PICK a \in Application, role \in 1..Len(rows), permission \in 1..Len(rows),
           adding \in BOOLEAN :
        IF IsRole(a, role)
        THEN Continue(r, [pc |-> "permission", application |-> a, adding |-> adding,
                          role |-> role, permission |-> permission])
        ELSE Answer(r)
      BY Zenon DEF PermissionOfRole
<1>2. UNCHANGED <<rows, live>>  BY Zenon DEF PermissionOfRole
<1>3. CASE ~IsRole(a, role)  BY Zenon, <1>1, <1>2, <1>3, AnswerKeeps
<1>4. CASE IsRole(a, role)
  <2> DEFINE q == [pc |-> "permission", application |-> a, adding |-> adding,
                   role |-> role, permission |-> permission]
  <2>0. Len(rows) \in Nat  BY DEF AccessInv, RowsOK
  <2>1. rows[role].table = "role" /\ rows[role].application = a
        BY Zenon, <1>4 DEF IsRole, Table
  <2>2. /\ q.pc = "permission" /\ q.application = a /\ q.role = role
        /\ q.permission \in Nat
        BY <2>0
  <2>3. Continue(r, q)  BY Zenon, <1>1, <1>4
  <2>. HIDE DEF q
  <2>4. RequestOK(q, rows, live)  BY Zenon, <2>1, <2>2 DEF RequestOK
  <2>. QED  BY Zenon, <1>2, <2>3, <2>4, ContinueKeeps
<1>. QED  BY Zenon, <1>3, <1>4

LEMMA FindPermissionKeeps ==
  ASSUME AccessInv, NEW r \in Request, FindPermission(r)
  PROVE  AccessInv'
<1> DEFINE p == requests[r]
<1>1. /\ p.pc = "permission" /\ UNCHANGED <<rows, live>>
      /\ IF IsPermission(p.application, p.permission)
         THEN Continue(r, RelationTo(p)) ELSE Answer(r)
      BY Zenon DEF FindPermission
<1>2. RequestOK(p, rows, live)  BY Zenon DEF AccessInv
<1>. HIDE DEF p
<1>3. CASE ~IsPermission(p.application, p.permission)  BY Zenon, <1>1, <1>3, AnswerKeeps
<1>4. CASE IsPermission(p.application, p.permission)
  <2> DEFINE row == [table |-> "role_permission", role |-> p.role,
                     permission |-> p.permission]
             q == Relating(row, p.adding)
  <2>0. Len(rows) \in Nat /\ live \subseteq 1..Len(rows)  BY DEF AccessInv, RowsOK
  <2>1. /\ p.permission \in 1..Len(rows) /\ rows[p.permission].table = "permission"
        /\ rows[p.permission].application = p.application
        BY Zenon, <1>4, <2>0 DEF IsPermission, Table
  <2>2. /\ p.role \in 1..Len(rows) /\ rows[p.role].table = "role"
        /\ rows[p.role].application = p.application
        BY Zenon, <1>1, <1>2 DEF RequestOK
  <2>3. row \in RolePermissionRow /\ row.role = p.role /\ row.permission = p.permission
        BY <2>0, <2>1, <2>2 DEF RolePermissionRow
  <2>4. q.pc = "relation" /\ q.row = row /\ q = RelationTo(p)  BY Zenon DEF Relating, RelationTo
  <2>. HIDE DEF row, q
  <2>5. Relates(row, rows)  BY Zenon, <2>1, <2>2, <2>3 DEF Relates
  <2>6. RequestOK(q, rows, live)  BY Zenon, <2>4, <2>5 DEF RequestOK
  <2>. QED  BY Zenon, <1>1, <1>4, <2>4, <2>6, ContinueKeeps
<1>. QED  BY Zenon, <1>3, <1>4

LEMMA FindRelationKeeps ==
  ASSUME AccessInv, NEW r \in Request, FindRelation(r)
  PROVE  AccessInv'
<1> DEFINE p == requests[r]
<1>1. /\ p.pc = "relation" /\ UNCHANGED <<rows, live>>
      /\ \/ Continue(r, [pc |-> "insert", row |-> p.row])
         \/ Answer(r)
         \/ \E i \in live : /\ rows[i] = p.row
                            /\ Continue(r, [pc |-> "delete", id |-> i, mark |-> Len(rows),
                                            relation |-> {p.row}])
      BY Zenon DEF FindRelation
<1>2. Relates(p.row, rows)  BY Zenon, <1>1 DEF AccessInv, RequestOK
<1>. HIDE DEF p
<1>3. RequestOK([pc |-> "insert", row |-> p.row], rows, live)  BY Zenon, <1>2 DEF RequestOK
<1>4. ASSUME NEW i \in live, rows[i] = p.row
      PROVE  RequestOK([pc |-> "delete", id |-> i, mark |-> Len(rows),
                        relation |-> {p.row}], rows, live)
  <2>1. /\ Len(rows) \in 0..Len(rows)
        /\ \A j \in live : rows[j] = p.row => j = i
        BY <1>4 DEF AccessInv, RowsOK
  <2>. QED  BY Zenon, <2>1 DEF RequestOK
<1>. QED  BY Zenon, <1>1, <1>3, <1>4, ContinueKeeps, AnswerKeeps

LEMMA InsertRelationKeeps ==
  ASSUME AccessInv, NEW r \in Request, InsertRelation(r)
  PROVE  AccessInv'
<1>1. Relates(requests[r].row, rows) /\ Insert(r, requests[r].row)
      BY Zenon DEF AccessInv, RequestOK, InsertRelation
<1>2. requests[r].row \in Row  BY Zenon, <1>1 DEF Relates, Row
<1>. QED  BY Zenon, <1>1, <1>2, InsertKeeps

\* The steps of one request.
StepOf(r) ==
  \/ \E u \in Actor, need \in {RolesWrite, PermissionsWrite} : Ask(r, u, need)
  \/ ListUserRoles(r) \/ FindHeldRole(r) \/ ListRolePermissions(r) \/ HasPermission(r)
  \/ CreateRole(r) \/ CreatePermission(r)
  \/ DeleteRole(r) \/ DeletePermission(r) \/ DeleteRow(r)
  \/ RoleOfUser(r) \/ PermissionOfRole(r) \/ FindPermission(r)
  \/ FindRelation(r) \/ InsertRelation(r)

LEMMA AccessInvNext == AccessInv /\ [AccessNext]_accessVars => AccessInv'
<1>1. ASSUME AccessInv, AccessNext  PROVE AccessInv'
  <2>1. PICK r \in Request : StepOf(r)  BY Zenon, <1>1 DEF AccessNext, StepOf
  <2>. QED  BY Zenon, <1>1, <2>1, AskKeeps, ListUserRolesKeeps, FindHeldRoleKeeps,
               ListRolePermissionsKeeps, HasPermissionKeeps, CreateKeeps, DeleteFoundKeeps,
               DeleteKeeps, RoleOfUserKeeps, PermissionOfRoleKeeps, FindPermissionKeeps,
               FindRelationKeeps, InsertRelationKeeps DEF StepOf
<1>2. ASSUME AccessInv, UNCHANGED accessVars  PROVE AccessInv'
  <2>1. rows' = rows /\ live' = live /\ requests' = requests  BY Zenon, <1>2 DEF accessVars
  <2>. QED  BY Zenon, <1>2, <2>1 DEF AccessInv
<1>. QED  BY Zenon, <1>1, <1>2

LEMMA AccessInvariant == AccessSpec => []AccessInv
BY AccessInvInit, AccessInvNext, PTL DEF AccessSpec

\* A relation never crosses applications, whatever requests interleave.
THEOREM WithinApplicationHolds == AccessSpec => []WithinApplication
<1>1. AccessInv => WithinApplication
  <2>. SUFFICES ASSUME AccessInv, NEW i \in 1..Len(rows)
                PROVE  /\ rows[i].table = "user_role" =>
                            rows[rows[i].role].application = rows[i].application
                       /\ rows[i].table = "role_permission" =>
                            rows[rows[i].role].application
                              = rows[rows[i].permission].application
       BY Zenon DEF WithinApplication
  <2>1. rows[i].table \in {"user_role", "role_permission"} => Relates(rows[i], rows)
        BY Zenon DEF AccessInv, RowsOK
  <2>. QED  BY Zenon, <2>1 DEF Relates, UserRoleRow, RolePermissionRow
<1>. QED  BY <1>1, AccessInvariant, PTL

\* Rows and requests keep their shape, and no two rows of a table are ever equal.
THEOREM AccessTypeHolds == AccessSpec => []AccessTypeOK
<1>1. AccessInv => AccessTypeOK
  <2>. SUFFICES ASSUME AccessInv PROVE AccessTypeOK  BY Zenon
  <2>1. \A i \in 1..Len(rows) : rows[i] \in Row  BY DEF AccessInv, RowsOK
  <2>2. \A r \in Request : requests[r].pc \in
          {"idle", "user_roles", "roles", "permissions", "allowed",
           "delete", "permission", "relation", "insert"}
        BY Zenon DEF AccessInv, RequestOK
  <2>3. live \subseteq 1..Len(rows) /\ \A i, j \in live : rows[i] = rows[j] => i = j
        BY Zenon DEF AccessInv, RowsOK
  <2>. QED  BY Zenon, <2>1, <2>2, <2>3 DEF AccessTypeOK, Row
<1>. QED  BY <1>1, AccessInvariant, PTL

LEMMA OneRequestMoves ==
  ASSUME AccessInv, NEW r \in Request, StepOf(r), NEW x \in Request, x # r
  PROVE  requests'[x] = requests[x]
<1>1. requests = [y \in Request |-> requests[y]]  BY Zenon DEF AccessInv
<1>2. ASSUME NEW q, Continue(r, q)  PROVE requests'[x] = requests[x]
      BY Zenon, <1>1, <1>2 DEF Continue
<1>3. Answer(r) => requests'[x] = requests[x]  BY Zenon, <1>2 DEF Answer
<1>4. ASSUME NEW row, Insert(r, row)  PROVE requests'[x] = requests[x]
      BY Zenon, <1>3, <1>4 DEF Insert
<1>. QED  BY Zenon, <1>2, <1>3, <1>4
          DEF StepOf, Ask, ListUserRoles, FindHeldRole, ListRolePermissions, HasPermission,
              CreateRole, CreatePermission, DeleteRole, DeletePermission, DeleteRow, RoleOfUser,
              PermissionOfRole, FindPermission, FindRelation, InsertRelation

LEMMA StepGuards ==
  ASSUME NEW r \in Request, StepOf(r)
  PROVE  \/ requests[r].pc \in {"idle", "user_roles", "roles", "allowed", "permission",
                                "relation", "insert"}
         \/ requests[r].pc = "delete" /\ DeleteRow(r)
         \/ requests[r].pc = "permissions" /\ HasPermission(r)
<1>1. ASSUME NEW u, NEW need, Ask(r, u, need)  PROVE requests[r].pc = "idle"
      BY <1>1 DEF Ask, NoRequest
<1>2. ListUserRoles(r) => requests[r].pc = "user_roles"  BY Zenon DEF ListUserRoles
<1>3. FindHeldRole(r) \/ ListRolePermissions(r) => requests[r].pc = "roles"
      BY Zenon DEF FindHeldRole, ListRolePermissions
<1>4. \/ CreateRole(r) \/ CreatePermission(r) \/ DeleteRole(r) \/ DeletePermission(r)
      \/ RoleOfUser(r) \/ PermissionOfRole(r)
      => requests[r].pc = "allowed"
      BY Zenon DEF CreateRole, CreatePermission, DeleteRole, DeletePermission, RoleOfUser,
             PermissionOfRole, Authorized
<1>5. FindPermission(r) => requests[r].pc = "permission"  BY Zenon DEF FindPermission
<1>6. FindRelation(r) => requests[r].pc = "relation"  BY Zenon DEF FindRelation
<1>7. InsertRelation(r) => requests[r].pc = "insert"  BY Zenon DEF InsertRelation
<1>8. DeleteRow(r) => requests[r].pc = "delete"  BY Zenon DEF DeleteRow
<1>9. HasPermission(r) => requests[r].pc = "permissions"  BY Zenon DEF HasPermission
<1>. QED  BY Zenon, <1>1, <1>2, <1>3, <1>4, <1>5, <1>6, <1>7, <1>8, <1>9 DEF StepOf

\* A removal that succeeded leaves only relations inserted after it read the row.
THEOREM RemovedIsGoneHolds == AccessSpec => RemovedIsGone
<1>1. ASSUME AccessInv, [AccessNext]_accessVars
      PROVE  [\A r \in Request :
                requests[r].pc = "delete" /\ requests'[r] = NoRequest =>
                  \A i \in live' : rows[i] \in requests[r].relation => i > requests[r].mark
             ]_accessVars
  <2>. SUFFICES ASSUME AccessNext, NEW r \in Request,
                       requests[r].pc = "delete", requests'[r] = NoRequest,
                       NEW i \in live', rows[i] \in requests[r].relation
                PROVE  i > requests[r].mark
       BY Zenon, <1>1
  <2>1. PICK x \in Request : StepOf(x)  BY Zenon DEF AccessNext, StepOf
  <2>2. x = r  BY <1>1, <2>1, OneRequestMoves DEF NoRequest
  <2>3. DeleteRow(r)  BY Zenon, <2>1, <2>2, StepGuards
  <2>4. RequestOK(requests[r], rows, live)  BY Zenon, <1>1 DEF AccessInv
  <2>5. i \in live /\ i # requests[r].id  BY Zenon, <2>3 DEF DeleteRow
  <2>. QED  BY Zenon, <2>4, <2>5 DEF RequestOK
<1>. QED  BY <1>1, AccessInvariant, PTL DEF AccessSpec, RemovedIsGone

\* A request is allowed only by rows none of which had been deleted when it began.
THEOREM GrantRestsOnRowsHolds == AccessSpec => GrantRestsOnRows
<1>1. ASSUME AccessInv, [AccessNext]_accessVars
      PROVE  [\A r \in Request :
                requests[r].pc = "permissions" /\ requests'[r].pc = "allowed" =>
                  Chain(requests[r].actor, requests[r].need, requests[r].gone)]_accessVars
  <2>. SUFFICES ASSUME AccessNext, NEW r \in Request,
                       requests[r].pc = "permissions", requests'[r].pc = "allowed"
                PROVE  Chain(requests[r].actor, requests[r].need, requests[r].gone)
       BY Zenon, <1>1
  <2> DEFINE q == requests[r]
  <2>1. PICK x \in Request : StepOf(x)  BY Zenon DEF AccessNext, StepOf
  <2>2. x = r  BY Zenon, <1>1, <2>1, OneRequestMoves
  <2>3. HasPermission(r)  BY Zenon, <2>1, <2>2, StepGuards
  <2>4. ~Answer(r)
    <3>1. Answer(r) => requests'[r] = NoRequest  BY Zenon, <1>1 DEF AccessInv, Answer, Continue
    <3>. QED  BY <3>1 DEF NoRequest
  <2>5. PICK p \in q.granted : /\ IsPermission(q.actor.application, p)
                               /\ PermissionMatches(rows[p].name, q.need)
        BY Zenon, <2>3, <2>4 DEF HasPermission
  <2>6. p \in live /\ rows[p].application = q.actor.application
        BY Zenon, <2>5 DEF IsPermission, Table
  <2>7. q.gone \cap live = {} /\ Granted(q.actor, p, q.gone, rows)
        BY Zenon, <1>1, <2>5 DEF AccessInv, RequestOK
  <2>. HIDE DEF q
  <2>8. PICK j \in (1..Len(rows)) \ q.gone :
          /\ rows[j].table = "role_permission" /\ rows[j].permission = p
          /\ rows[j].role \notin q.gone /\ Held(q.actor, rows[j].role, q.gone, rows)
        BY Zenon, <2>7 DEF Granted
  <2>9. PICK i \in (1..Len(rows)) \ q.gone :
          /\ rows[i].table = "user_role" /\ rows[i].user = q.actor.user
          /\ rows[i].application = q.actor.application /\ rows[i].role = rows[j].role
        BY Zenon, <2>8 DEF Held
  <2>10. Chain(q.actor, q.need, q.gone)
        BY Zenon, <2>5, <2>6, <2>7, <2>8, <2>9 DEF Chain
  <2>. QED  BY Zenon, <2>10 DEF q
<1>. QED  BY <1>1, AccessInvariant, PTL DEF AccessSpec, GrantRestsOnRows

-----------------------------------------------------------------------------
(* Service tokens, user tokens and approved peers                            *)

UserAsk ==
  [why : {"http", "message", "actor"}, token : UserToken, resource : SUBSET Resource,
   op : SUBSET {"read", "write"}, dead : BOOLEAN]
SocketAsk == [why : {"socket"}, token : UserToken, resource : SUBSET Resource]
RefreshAsk == [why : {"refresh"}, peers : SUBSET Peer]

\* What a slot knows at time t, when the IdP honours the tokens in hon.
SlotOK(s, t, hon) ==
  /\ s.pc \in {"idle", "token", "fetch", "sign", "signed", "call", "caller", "claims",
               "listed", "granted", "serving", "executed"}
  /\ s.bearer \in ServiceToken /\ s.sent \in 0..t
  /\ s.pc \in {"fetch", "sign", "signed", "call", "caller", "claims", "listed"} =>
       t <= s.sent + Timeout
  /\ s.pc \in {"signed", "call"} => s.bearer.key > 0
  /\ s.pc = "signed" => s.bearer.exp >= s.sent + Ttl
  /\ s.pc = "call" => s.bearer.exp > s.sent
  /\ s.pc # "idle" /\ Introspects(s.ask) =>
       /\ s.ask \in UserAsk
       /\ s.ask.dead => s.ask.token \notin hon \/ Expiry[s.ask.token] <= t
  /\ s.pc \in {"claims", "granted", "executed"} => Introspects(s.ask) /\ ~s.ask.dead
  /\ s.pc \in {"granted", "executed"} =>
       \A r \in s.ask.resource : Namespace[r] = Namespace[s.ask.token]
  /\ s.pc = "executed" => s.ask.op \subseteq Actions[s.ask.token]
  /\ s.pc = "serving" => s.ask \in SocketAsk
  /\ s.pc = "listed" => s.ask.why = "refresh"
  /\ s.pc # "idle" /\ s.ask.why = "refresh" => s.ask \in RefreshAsk

\* valid_until is at most the duration of a call too late.
CacheOK(k) ==
  /\ k \in CachedToken /\ k.validUntil <= k.token.exp + Timeout
  /\ k # NotCached => k.token.key > 0

StorageInv ==
  /\ now \in 0..MaxTime /\ clientKey \in 0..MaxKeys /\ honoured \subseteq UserToken
  /\ approved \subseteq Peer /\ allowed \subseteq Peer /\ seen \subseteq Peer
  /\ client \in Service /\ CacheOK(cache)
  /\ slots = [c \in Slot |-> slots[c]]
  /\ \A c \in Slot : SlotOK(slots[c], now, honoured)
  /\ \A c, d \in Slot : Refreshing(c) /\ Refreshing(d) => c = d
  /\ \A c \in Slot : Refreshing(c) => approved \subseteq seen
  /\ \A c \in Slot : slots[c].pc = "listed" => slots[c].ask.peers \subseteq seen

LEMMA SlotInitOK ==
  ASSUME NEW t \in Nat, NEW hon
  PROVE  SlotOK(Resting, t, hon)
<1>1. NoToken \in ServiceToken /\ 0 \in 0..t
      BY TimeAssumption DEF NoToken, ServiceToken
<1>. QED  BY Zenon, <1>1 DEF Resting, SlotOK

\* What a slot knows lasts, while time passes for the calls in flight and tokens are
\* revoked.
LEMMA SlotLasts ==
  ASSUME NEW s, NEW t \in Nat, NEW hon, SlotOK(s, t, hon), NEW t2 \in {t, t + 1},
         NEW hon2, hon2 \subseteq hon,
         s.pc \in {"fetch", "sign", "signed", "call", "caller", "claims", "listed"} =>
           t2 <= s.sent + Timeout
  PROVE  SlotOK(s, t2, hon2)
<1>1. s.sent \in 0..t2  BY SMTT(30) DEF SlotOK
<1>2. ASSUME s.pc # "idle", Introspects(s.ask)
      PROVE  /\ s.ask \in UserAsk
             /\ s.ask.dead => s.ask.token \notin hon2 \/ Expiry[s.ask.token] <= t2
  <2>1. s.ask \in UserAsk  BY Zenon, <1>2 DEF SlotOK
  <2>2. Expiry[s.ask.token] \in Nat  BY Zenon, <2>1, TokenAssumption DEF UserAsk
  <2>3. s.ask.dead => s.ask.token \notin hon \/ Expiry[s.ask.token] <= t
        BY Zenon, <1>2 DEF SlotOK
  <2>. QED  BY <2>1, <2>2, <2>3
<1>. QED  BY Zenon, <1>1, <1>2 DEF SlotOK

LEMMA StorageInvInit == StorageInit => StorageInv
<1>. SUFFICES ASSUME StorageInit PROVE StorageInv  BY Zenon
<1>1. CacheOK(NotCached)
      BY TimeAssumption DEF CacheOK, NotCached, CachedToken, NoToken, ServiceToken
<1>2. /\ now = 0 /\ \A c \in Slot : slots[c] = Resting
      /\ slots = [c \in Slot |-> slots[c]]
      BY Zenon DEF StorageInit
<1>3. \A c \in Slot : SlotOK(slots[c], now, honoured)  BY Zenon, <1>2, SlotInitOK
<1>4. \A c \in Slot : ~Refreshing(c) /\ slots[c].pc # "listed"
      BY <1>2 DEF Refreshing, Resting
<1>. QED  BY SMTT(30), <1>1, <1>2, <1>3, <1>4, TimeAssumption DEF StorageInit, StorageInv

\* A step of one slot that leaves the IdP, time and the peers alone.
LEMMA GoKeeps ==
  ASSUME StorageInv, NEW c \in Slot, NEW pc, NEW ask, NEW bearer, NEW sent,
         Go(c, pc, ask, bearer, sent), UNCHANGED <<now, idpState, peerState>>,
         CacheOK(cache'),
         SlotOK([pc |-> pc, ask |-> ask, bearer |-> bearer, sent |-> sent], now, honoured),
         ask.why = "refresh" => Refreshing(c),
         pc = "listed" => ask.peers \subseteq seen
  PROVE  StorageInv'
<1> DEFINE s == [pc |-> pc, ask |-> ask, bearer |-> bearer, sent |-> sent]
<1>1. s.pc = pc /\ s.ask = ask /\ SlotOK(s, now, honoured)  BY Zenon
<1>2. /\ slots' = [x \in Slot |-> slots'[x]] /\ slots'[c] = s
      /\ \A x \in Slot : x # c => slots'[x] = slots[x]
      BY Zenon DEF StorageInv, Go
<1>. HIDE DEF s
<1>3. /\ now' = now /\ clientKey' = clientKey /\ honoured' = honoured
      /\ approved' = approved /\ client' = client /\ allowed' = allowed /\ seen' = seen
      BY Zenon DEF idpState, peerState
<1>4. \A x \in Slot : SlotOK(slots'[x], now', honoured')
      BY Zenon, <1>1, <1>2, <1>3 DEF StorageInv
<1>5. \A x \in Slot : Refreshing(x)' => Refreshing(x)
      BY Zenon, <1>1, <1>2 DEF Refreshing
<1>6. \A x \in Slot : slots'[x].pc = "listed" => slots'[x].ask.peers \subseteq seen'
      BY Zenon, <1>1, <1>2, <1>3 DEF StorageInv
<1>. QED  BY Zenon, <1>2, <1>3, <1>4, <1>5, <1>6 DEF StorageInv

\* A slot comes to rest, and if it was refreshing the refresh is over.
LEMMA RestKeeps ==
  ASSUME StorageInv, NEW c \in Slot, Rest(c), UNCHANGED <<now, idpState, client, cache>>,
         allowed' \subseteq Peer,
         \/ UNCHANGED seen
         \/ seen' = {} /\ Refreshing(c)
  PROVE  StorageInv'
<1>1. /\ slots' = [x \in Slot |-> slots'[x]] /\ slots'[c] = Resting
      /\ \A x \in Slot : x # c => slots'[x] = slots[x]
      BY Zenon DEF StorageInv, Rest
<1>2. /\ now' = now /\ clientKey' = clientKey /\ honoured' = honoured
      /\ approved' = approved /\ client' = client /\ cache' = cache
      BY Zenon DEF idpState
<1>3. now \in Nat  BY TimeAssumption DEF StorageInv
<1>4. \A x \in Slot : SlotOK(slots'[x], now', honoured')
      BY Zenon, <1>1, <1>2, <1>3, SlotInitOK DEF StorageInv
<1>5. \A x \in Slot : Refreshing(x)' => x # c /\ Refreshing(x)
      BY <1>1 DEF Refreshing, Resting
<1>6. \A x \in Slot : slots'[x].pc = "listed" => /\ x # c /\ slots'[x] = slots[x]
                                                 /\ Refreshing(x)
      BY SMTT(30), <1>1 DEF Resting, Refreshing, StorageInv, SlotOK
<1>7. (\E x \in Slot : Refreshing(x)') => seen' = seen
      BY Zenon, <1>5 DEF StorageInv
<1>8. \A x \in Slot : slots'[x].pc = "listed" => slots'[x].ask.peers \subseteq seen'
      BY Zenon, <1>6 DEF StorageInv
<1>. QED  BY Zenon, <1>1, <1>2, <1>4, <1>5, <1>7, <1>8 DEF StorageInv

LEMMA InvTypes ==
  ASSUME StorageInv
  PROVE  /\ now \in Nat /\ clientKey \in 0..MaxKeys /\ CacheOK(cache)
         /\ NoToken \in ServiceToken
         /\ \A c \in Slot : SlotOK(slots[c], now, honoured)
<1>1. NoToken \in ServiceToken  BY TimeAssumption DEF NoToken, ServiceToken
<1>. QED  BY <1>1, TimeAssumption DEF StorageInv

\* What a request of a user is when it comes.
LEMMA AskingOK ==
  ASSUME StorageInv, NEW why \in {"http", "message", "actor"}, NEW t \in UserToken,
         NEW resource \in SUBSET Resource
  PROVE  LET ask == Asking(why, t, resource) IN
         /\ ask \in UserAsk /\ Introspects(ask) /\ ask.why # "refresh"
         /\ ask.dead => ask.token \notin honoured \/ Expiry[ask.token] <= now
<1>1. Asking(why, t, resource) \in UserAsk  BY Zenon DEF Asking, UserAsk
<1>. QED  BY Zenon, <1>1 DEF Asking, Introspects

LEMMA StartKeeps ==
  ASSUME StorageInv, NEW c \in Slot, NEW ask, Go(c, "token", ask, NoToken, 0),
         UNCHANGED <<now, idpState, cache, peerState>>,
         ask.why # "refresh",
         Introspects(ask) =>
           /\ ask \in UserAsk
           /\ ask.dead => ask.token \notin honoured \/ Expiry[ask.token] <= now
  PROVE  StorageInv'
<1> DEFINE s == [pc |-> "token", ask |-> ask, bearer |-> NoToken, sent |-> 0]
<1>1. s.pc = "token" /\ s.ask = ask /\ s.bearer = NoToken /\ s.sent = 0  BY Zenon
<1>. HIDE DEF s
<1>2. SlotOK(s, now, honoured)  BY SMTT(30), <1>1, InvTypes DEF SlotOK
<1>3. CacheOK(cache')  BY Zenon, InvTypes
<1>. QED  BY Zenon, <1>2, <1>3, GoKeeps DEF s

LEMMA RequestsKeep ==
  ASSUME StorageInv, NEW c \in Slot,
         \/ HttpRequest(c) \/ ValidateActor(c) \/ SelectedResources(c)
         \/ AdmitPeerReplication(c) \/ StorageEndpointIdentity(c)
  PROVE  StorageInv'
<1>1. ASSUME NEW why \in {"http", "actor"}, NEW by, NEW t \in UserToken,
             Start(c, by, Asking(why, t, {}))
      PROVE  StorageInv'
      BY Zenon, <1>1, AskingOK, StartKeeps DEF Start
<1>2. ASSUME NEW why \in {"selections", "admission", "identity"}, NEW by,
             Start(c, by, Plain(why))
      PROVE  StorageInv'
  <2>1. Plain(why).why # "refresh" /\ ~Introspects(Plain(why))  BY Zenon DEF Plain, Introspects
  <2>. QED  BY Zenon, <1>2, <2>1, StartKeeps DEF Start
<1>. QED  BY Zenon, <1>1, <1>2 DEF HttpRequest, ValidateActor, SelectedResources,
                            AdmitPeerReplication, StorageEndpointIdentity

LEMMA MessageKeeps ==
  ASSUME StorageInv, NEW c \in Slot, ReceiveMessage(c) \/ CloseSocket(c)
  PROVE  StorageInv'
<1>1. CASE Rest(c)
      BY Zenon, <1>1, RestKeeps DEF ReceiveMessage, CloseSocket, peerState, StorageInv
<1>2. CASE ReceiveMessage(c) /\ ~Rest(c)
  <2> DEFINE old == slots[c].ask
  <2>1. old \in SocketAsk  BY Zenon, <1>2, InvTypes DEF ReceiveMessage, SlotOK
  <2>2. old.token \in UserToken /\ old.resource \in SUBSET Resource
        BY Zenon, <2>1 DEF SocketAsk
  <2>3. Go(c, "token", Asking("message", old.token, old.resource), NoToken, 0)
        BY Zenon, <1>2 DEF ReceiveMessage
  <2>4. UNCHANGED <<now, idpState, cache, peerState>>  BY Zenon, <1>2 DEF ReceiveMessage
  <2>. HIDE DEF old
  <2>. QED  BY SMTT(30), <2>2, <2>3, <2>4, AskingOK, StartKeeps
<1>. QED  BY Zenon, <1>1, <1>2 DEF CloseSocket

LEMMA RefreshKeepsInv ==
  ASSUME StorageInv, NEW c \in Slot, RefreshApprovedPeers(c)
  PROVE  StorageInv'
<1> DEFINE ask == Plain("refresh")
           s == [pc |-> "token", ask |-> ask, bearer |-> NoToken, sent |-> 0]
<1>1. s.pc = "token" /\ s.ask = ask /\ s.bearer = NoToken /\ s.sent = 0  BY Zenon
<1>2. ask \in RefreshAsk /\ ask.why = "refresh" /\ ~Introspects(ask)
      BY Zenon DEF Plain, RefreshAsk, Introspects
<1>3. /\ slots' = [x \in Slot |-> slots'[x]] /\ slots'[c] = s
      /\ \A x \in Slot : x # c => slots'[x] = slots[x]
      BY Zenon DEF StorageInv, Go, RefreshApprovedPeers
<1>. HIDE DEF s, ask
<1>4. SlotOK(s, now, honoured)  BY SMTT(30), <1>1, <1>2, InvTypes DEF SlotOK
<1>5. /\ now' = now /\ clientKey' = clientKey /\ honoured' = honoured
      /\ approved' = approved /\ client' = client /\ allowed' = allowed
      /\ cache' = cache /\ seen' = approved
      BY Zenon DEF idpState, RefreshApprovedPeers
<1>6. \A x \in Slot : SlotOK(slots'[x], now', honoured')
      BY Zenon, <1>3, <1>4, <1>5 DEF StorageInv
<1>7. \A x \in Slot : x # c => ~Refreshing(x)'
      BY Zenon, <1>3 DEF RefreshApprovedPeers, Refreshing
<1>8. \A x \in Slot : slots'[x].pc # "listed"
      BY Zenon, <1>1, <1>3, <1>7, <1>6 DEF Refreshing, SlotOK
<1>. QED  BY Zenon, <1>3, <1>5, <1>6, <1>7, <1>8 DEF StorageInv

\* What the client_credentials grant issues is a token, and what a client remembers
\* of it a cached token.
LEMMA TokenRecord ==
  ASSUME NEW key \in 0..MaxKeys, NEW exp \in Nat
  PROVE  [key |-> key, exp |-> exp] \in ServiceToken
BY Zenon DEF ServiceToken

LEMMA CachedRecord ==
  ASSUME NEW token \in ServiceToken, NEW validUntil \in Nat
  PROVE  [token |-> token, validUntil |-> validUntil] \in CachedToken
BY Zenon DEF CachedToken

LEMMA TokenKeeps ==
  ASSUME StorageInv, NEW c \in Slot,
         \/ UseCached(c) \/ FetchToken(c) \/ AuthenticateClient(c)
         \/ IssueClientCredentials(c) \/ ReceiveToken(c) \/ AuthorizeBearer(c)
  PROVE  StorageInv'
<1> DEFINE p == slots[c]
<1>1. SlotOK(p, now, honoured)  BY Zenon, InvTypes
<1>10. now \in Nat /\ clientKey \in 0..MaxKeys /\ NoToken \in ServiceToken  BY Zenon, InvTypes
<1>11. /\ Ttl \in Nat /\ Margin \in Nat /\ Timeout \in Nat /\ MaxKeys \in Nat
       /\ Timeout <= Margin /\ Timeout < Ttl
       BY Zenon, TimeAssumption
<1>12. now \in 0..now /\ now <= now + Timeout  BY <1>10, <1>11
<1>2. p.pc # "idle" /\ UNCHANGED <<now, idpState, peerState>>
      BY Zenon DEF UseCached, FetchToken, AuthenticateClient, IssueClientCredentials,
             ReceiveToken, AuthorizeBearer
<1>3. ASSUME NEW pc \in {"fetch", "sign", "signed", "call", "caller"},
             NEW bearer \in ServiceToken, NEW sent \in 0..now,
             Go(c, pc, p.ask, bearer, sent), CacheOK(cache'), now <= sent + Timeout,
             pc \in {"signed", "call"} => bearer.key > 0,
             pc = "signed" => bearer.exp >= sent + Ttl,
             pc = "call" => bearer.exp > sent
      PROVE  StorageInv'
  <2> DEFINE s == [pc |-> pc, ask |-> p.ask, bearer |-> bearer, sent |-> sent]
  <2>1. s.pc = pc /\ s.ask = p.ask /\ s.bearer = bearer /\ s.sent = sent  BY Zenon
  <2>. HIDE DEF s
  <2>2. p.ask.why = "refresh" => Refreshing(c)  BY Zenon, <1>2 DEF Refreshing
  <2>. HIDE DEF p
  <2>3. SlotOK(s, now, honoured)  BY Zenon, <1>1, <1>2, <1>3, <2>1 DEF SlotOK
  <2>. QED  BY Zenon, <1>2, <1>3, <2>2, <2>3, GoKeeps DEF s
<1>4. CASE UseCached(c)
  <2>1. cache.token \in ServiceToken /\ cache.token.key > 0 /\ cache.token.exp > now
    <3>1. /\ cache \in CachedToken /\ cache.validUntil <= cache.token.exp + Timeout
          /\ cache.token.key > 0 /\ cache.validUntil > now + Margin
          BY Zenon, <1>4, InvTypes DEF CacheOK, UseCached
    <3>2. /\ cache.token \in ServiceToken /\ cache.token.exp \in Nat
          /\ cache.validUntil \in Nat
          BY Zenon, <3>1 DEF CachedToken, ServiceToken
    <3>. HIDE DEF p
    <3>3. cache.token.exp > now  BY <1>10, <1>11, <3>1, <3>2
    <3>. QED  BY Zenon, <3>1, <3>2, <3>3
  <2>2. Go(c, "call", p.ask, cache.token, now) /\ CacheOK(cache')
        BY Zenon, <1>4, InvTypes DEF UseCached
  <2>. QED  BY Zenon, <1>3, <1>12, <2>1, <2>2
<1>5. CASE FetchToken(c)
  <2>1. Go(c, "fetch", p.ask, NoToken, now) /\ CacheOK(cache')
        BY Zenon, <1>5, InvTypes DEF FetchToken
  <2>. QED  BY Zenon, <1>3, <1>10, <1>12, <2>1
<1>6. CASE AuthenticateClient(c)
  <2>1. /\ Go(c, "sign", p.ask, NoToken, p.sent) /\ CacheOK(cache') /\ p.pc = "fetch"
        BY Zenon, <1>6, InvTypes DEF AuthenticateClient
  <2>. QED  BY Zenon, <1>1, <1>3, <2>1, InvTypes DEF SlotOK
<1>7. CASE IssueClientCredentials(c)
  <2> DEFINE token == [key |-> clientKey, exp |-> now + Ttl]
  <2>1. /\ Go(c, "signed", p.ask, token, p.sent) /\ CacheOK(cache') /\ p.pc = "sign"
        /\ clientKey # 0
        BY Zenon, <1>7, InvTypes DEF IssueClientCredentials
  <2>2. token \in ServiceToken /\ token.key > 0 /\ token.exp = now + Ttl
    <3>1. now + Ttl \in Nat /\ clientKey > 0
      <4>. HIDE DEF p, token
      <4>1. clientKey # 0  BY Zenon, <2>1
      <4>2. now + Ttl \in Nat  BY <1>10, <1>11
      <4>3. clientKey > 0  BY <1>10, <1>11, <4>1
      <4>. QED  BY Zenon, <4>2, <4>3
    <3>2. token \in ServiceToken  BY Zenon, <1>10, <3>1, TokenRecord
    <3>. QED  BY Zenon, <3>1, <3>2
  <2>. HIDE DEF token
  <2>3. p.sent \in 0..now /\ now <= p.sent + Timeout  BY Zenon, <1>1, <2>1 DEF SlotOK
  <2>4. token.exp >= p.sent + Ttl  BY SMTT(30), <1>10, <1>11, <2>2, <2>3
  <2>. QED  BY Zenon, <1>3, <2>1, <2>2, <2>3, <2>4
<1>8. CASE ReceiveToken(c)
  <2>1. /\ Go(c, "call", p.ask, p.bearer, now) /\ p.pc = "signed"
        /\ cache' = [token |-> p.bearer, validUntil |-> now + Ttl]
        BY Zenon, <1>8 DEF ReceiveToken
  <2>2. /\ p.bearer \in ServiceToken /\ p.bearer.key > 0 /\ p.bearer.exp >= p.sent + Ttl
        /\ p.sent \in 0..now /\ now <= p.sent + Timeout
        BY Zenon, <1>1, <2>1 DEF SlotOK
  <2>3. p.bearer.exp \in Nat  BY Zenon, <2>2 DEF ServiceToken
  <2>. HIDE DEF p
  <2>4. CacheOK(cache')
    <3>1. cache' \in CachedToken /\ cache'.token = p.bearer /\ cache'.validUntil = now + Ttl
      <4>1. now + Ttl \in Nat  BY <1>10, <1>11
      <4>2. cache' \in CachedToken  BY Zenon, <2>1, <2>2, <4>1, CachedRecord
      <4>. QED  BY Zenon, <2>1, <4>2
    <3>2. now + Ttl <= p.bearer.exp + Timeout  BY SMTT(30), <1>10, <1>11, <2>2, <2>3
    <3>. QED  BY Zenon, <2>2, <3>1, <3>2 DEF CacheOK
  <2>5. p.bearer.exp > now  BY <1>10, <1>11, <2>2, <2>3
  <2>. QED  BY Zenon, <1>3, <1>12, <2>1, <2>2, <2>4, <2>5
<1>9. CASE AuthorizeBearer(c)
  <2>1. /\ Go(c, "caller", p.ask, NoToken, p.sent) /\ CacheOK(cache') /\ p.pc = "call"
        BY Zenon, <1>9, InvTypes DEF AuthorizeBearer
  <2>. QED  BY Zenon, <1>1, <1>3, <2>1, InvTypes DEF SlotOK
<1>. QED  BY Zenon, <1>4, <1>5, <1>6, <1>7, <1>8, <1>9

LEMMA IntrospectKeeps ==
  ASSUME StorageInv, NEW c \in Slot, Introspect(c)
  PROVE  StorageInv'
<1> DEFINE p == slots[c]
           s == [pc |-> "claims", ask |-> p.ask, bearer |-> NoToken, sent |-> p.sent]
<1>1. /\ p.pc = "caller" /\ Introspects(p.ask) /\ p.ask.token \in honoured
      /\ Expiry[p.ask.token] > now /\ Go(c, "claims", p.ask, NoToken, p.sent)
      /\ UNCHANGED <<now, idpState, cache, peerState>>
      BY Zenon DEF Introspect
<1>2. SlotOK(p, now, honoured) /\ CacheOK(cache')  BY Zenon, <1>1, InvTypes
<1>3. s.pc = "claims" /\ s.ask = p.ask /\ s.bearer = NoToken /\ s.sent = p.sent  BY Zenon
<1>. HIDE DEF p, s
<1>4. p.ask \in UserAsk /\ p.ask.why # "refresh"  BY Zenon, <1>1, <1>2 DEF SlotOK, Introspects
<1>5. ~p.ask.dead
  <2>1. Expiry[p.ask.token] \in Nat  BY Zenon, <1>4, TokenAssumption DEF UserAsk
  <2>2. p.ask.dead => p.ask.token \notin honoured \/ Expiry[p.ask.token] <= now
        BY Zenon, <1>1, <1>2 DEF SlotOK
  <2>. QED  BY SMTT(30), <1>1, <2>1, <2>2, InvTypes
<1>6. SlotOK(s, now, honoured)
      BY Zenon, <1>1, <1>2, <1>3, <1>4, <1>5, InvTypes DEF SlotOK
<1>. QED  BY Zenon, <1>1, <1>2, <1>4, <1>6, GoKeeps DEF s

LEMMA EndKeeps ==
  ASSUME StorageInv, NEW c \in Slot,
         \/ CallFails(c) \/ ReceiveAnswer(c) \/ RefreshFails(c) \/ ReplaceApprovedPeers(c)
  PROVE  StorageInv'
<1>1. CASE CallFails(c) \/ ReceiveAnswer(c)
      BY Zenon, <1>1, RestKeeps DEF CallFails, ReceiveAnswer, peerState, StorageInv
<1>2. CASE RefreshFails(c)  BY Zenon, <1>2, RestKeeps DEF RefreshFails
<1>3. CASE ReplaceApprovedPeers(c)
  <2>1. slots[c].pc = "listed"  BY Zenon, <1>3 DEF ReplaceApprovedPeers
  <2>2. Refreshing(c)  BY Zenon, <2>1, InvTypes DEF SlotOK, Refreshing
  <2>3. allowed' \subseteq Peer  BY Zenon, <1>3, <2>1 DEF ReplaceApprovedPeers, StorageInv
  <2>. QED  BY Zenon, <1>3, <2>2, <2>3, RestKeeps DEF ReplaceApprovedPeers
<1>. QED  BY Zenon, <1>1, <1>2, <1>3

LEMMA ListApprovedKeeps ==
  ASSUME StorageInv, NEW c \in Slot, ListApproved(c)
  PROVE  StorageInv'
<1> DEFINE p == slots[c]
           ask == [p.ask EXCEPT !.peers = approved]
           s == [pc |-> "listed", ask |-> ask, bearer |-> NoToken, sent |-> p.sent]
<1>1. /\ p.pc = "caller" /\ Refreshing(c) /\ Go(c, "listed", ask, NoToken, p.sent)
      /\ UNCHANGED <<now, idpState, cache, peerState>>
      BY Zenon DEF ListApproved
<1>2. SlotOK(p, now, honoured) /\ CacheOK(cache')  BY Zenon, <1>1, InvTypes
<1>3. p.ask.why = "refresh" /\ approved \subseteq seen /\ approved \subseteq Peer
      BY Zenon, <1>1 DEF Refreshing, StorageInv
<1>. HIDE DEF p
<1>4. p.ask \in RefreshAsk  BY Zenon, <1>1, <1>2, <1>3 DEF SlotOK
<1>5. ask \in RefreshAsk /\ ask.why = "refresh" /\ ask.peers = approved
      BY Zenon, <1>3, <1>4 DEF RefreshAsk
<1>. HIDE DEF ask
<1>6. s.pc = "listed" /\ s.ask = ask /\ s.bearer = NoToken /\ s.sent = p.sent  BY Zenon
<1>. HIDE DEF s
<1>7. SlotOK(s, now, honoured)
      BY Zenon, <1>1, <1>2, <1>5, <1>6, InvTypes DEF SlotOK, Introspects
<1>. QED  BY Zenon, <1>1, <1>2, <1>3, <1>5, <1>7, GoKeeps DEF s

LEMMA AuthorizeStorageKeeps ==
  ASSUME StorageInv, NEW c \in Slot, AuthorizeStorage(c)
  PROVE  StorageInv'
<1> DEFINE p == slots[c]
<1>1. PICK r \in Resource :
        /\ Namespace[r] = Namespace[p.ask.token]
        /\ Go(c, "granted", [p.ask EXCEPT !.resource = {r}], NoToken, 0)
      BY Zenon DEF AuthorizeStorage
<1> DEFINE ask == [p.ask EXCEPT !.resource = {r}]
           s == [pc |-> "granted", ask |-> ask, bearer |-> NoToken, sent |-> 0]
<1>2. /\ p.pc = "claims" /\ UNCHANGED <<now, idpState, cache, peerState>>
      BY Zenon DEF AuthorizeStorage
<1>3. SlotOK(p, now, honoured) /\ CacheOK(cache')  BY Zenon, <1>2, InvTypes
<1>. HIDE DEF p
<1>4. p.ask \in UserAsk /\ ~p.ask.dead  BY Zenon, <1>2, <1>3 DEF SlotOK
<1>5. /\ ask \in UserAsk /\ ask.resource = {r} /\ ask.token = p.ask.token
      /\ ask.dead = p.ask.dead /\ ask.why = p.ask.why
      BY Zenon, <1>4 DEF UserAsk
<1>. HIDE DEF ask
<1>6. Introspects(ask) /\ ~ask.dead /\ ask.why # "refresh"
      BY Zenon, <1>4, <1>5 DEF Introspects, UserAsk
<1>7. s.pc = "granted" /\ s.ask = ask /\ s.bearer = NoToken /\ s.sent = 0  BY Zenon
<1>. HIDE DEF s
<1>8. SlotOK(s, now, honoured)
      BY <1>1, <1>5, <1>6, <1>7, InvTypes DEF SlotOK
<1>. QED  BY Zenon, <1>1, <1>2, <1>3, <1>6, <1>8, GoKeeps DEF s, ask

LEMMA ExecuteKeeps ==
  ASSUME StorageInv, NEW c \in Slot, Execute(c)
  PROVE  StorageInv'
<1> DEFINE p == slots[c]
<1>1. PICK op \in Actions[p.ask.token] :
        Go(c, "executed", [p.ask EXCEPT !.op = {op}], NoToken, 0)
      BY Zenon DEF Execute
<1> DEFINE ask == [p.ask EXCEPT !.op = {op}]
           s == [pc |-> "executed", ask |-> ask, bearer |-> NoToken, sent |-> 0]
<1>2. /\ p.pc = "granted" /\ UNCHANGED <<now, idpState, cache, peerState>>
      BY Zenon DEF Execute
<1>3. SlotOK(p, now, honoured) /\ CacheOK(cache')  BY Zenon, <1>2, InvTypes
<1>. HIDE DEF p
<1>4. /\ p.ask \in UserAsk /\ ~p.ask.dead
      /\ \A r \in p.ask.resource : Namespace[r] = Namespace[p.ask.token]
      BY Zenon, <1>2, <1>3 DEF SlotOK
<1>5. op \in {"read", "write"}  BY Zenon, <1>4, TokenAssumption DEF UserAsk
<1>6. /\ ask \in UserAsk /\ ask.resource = p.ask.resource /\ ask.token = p.ask.token
      /\ ask.dead = p.ask.dead /\ ask.why = p.ask.why /\ ask.op = {op}
      BY Zenon, <1>4, <1>5 DEF UserAsk
<1>. HIDE DEF ask
<1>7. Introspects(ask) /\ ~ask.dead /\ ask.why # "refresh"
      BY Zenon, <1>4, <1>6 DEF Introspects, UserAsk
<1>8. s.pc = "executed" /\ s.ask = ask /\ s.bearer = NoToken /\ s.sent = 0  BY Zenon
<1>. HIDE DEF s
<1>9. SlotOK(s, now, honoured)
      BY <1>1, <1>4, <1>6, <1>7, <1>8, InvTypes DEF SlotOK
<1>. QED  BY Zenon, <1>1, <1>2, <1>3, <1>7, <1>9, GoKeeps DEF s, ask

LEMMA SocketKeeps ==
  ASSUME StorageInv, NEW c \in Slot, UpgradeSocket(c) \/ Refuse(c) \/ SendResponse(c)
  PROVE  StorageInv'
<1> DEFINE p == slots[c]
           ask == Serving(p.ask)
           s == [pc |-> "serving", ask |-> ask, bearer |-> NoToken, sent |-> 0]
<1>1. /\ p.pc \in {"granted", "executed"} /\ UNCHANGED <<now, idpState, cache, peerState>>
      /\ Rest(c) \/ Go(c, "serving", ask, NoToken, 0)
      BY Zenon DEF UpgradeSocket, Refuse, SendResponse
<1>2. CASE Rest(c)  BY Zenon, <1>1, <1>2, RestKeeps DEF peerState, StorageInv
<1>3. CASE Go(c, "serving", ask, NoToken, 0)
  <2>1. SlotOK(p, now, honoured) /\ CacheOK(cache')  BY Zenon, <1>1, InvTypes
  <2>. HIDE DEF p
  <2>2. p.ask \in UserAsk  BY Zenon, <1>1, <2>1 DEF SlotOK
  <2>3. ask \in SocketAsk /\ ask.why = "socket"
        BY Zenon, <2>2 DEF Serving, UserAsk, SocketAsk
  <2>. HIDE DEF ask
  <2>4. s.pc = "serving" /\ s.ask = ask /\ s.bearer = NoToken /\ s.sent = 0  BY Zenon
  <2>. HIDE DEF s
  <2>5. SlotOK(s, now, honoured)  BY SMTT(30), <2>3, <2>4, InvTypes DEF SlotOK, Introspects
  <2>. QED  BY Zenon, <1>1, <1>3, <2>1, <2>3, <2>5, GoKeeps DEF s
<1>. QED  BY Zenon, <1>1, <1>2, <1>3

LEMMA SurroundingsKeep ==
  ASSUME StorageInv,
         \/ Tick \/ RotateClientKey \/ RemoveClient \/ RestartStorage
         \/ \E t \in UserToken : RevokeUserToken(t)
         \/ \E q \in Peer : ApprovePeer(q) \/ RevokePeer(q)
  PROVE  StorageInv'
<1>1. CASE Tick
  <2>1. /\ now < MaxTime /\ now' = now + 1 /\ slots' = slots /\ honoured' = honoured
        /\ clientKey' = clientKey /\ approved' = approved /\ cache' = cache
        /\ client' = client /\ allowed' = allowed /\ seen' = seen
        BY Zenon, <1>1 DEF Tick, idpState, peerState
  <2>2. ASSUME NEW c \in Slot  PROVE SlotOK(slots[c], now + 1, honoured)
    <3>1. /\ SlotOK(slots[c], now, honoured) /\ now \in Nat  BY Zenon, InvTypes
    <3>2. slots[c].pc \in {"fetch", "sign", "signed", "call", "caller", "claims", "listed"}
            => now + 1 <= slots[c].sent + Timeout
      <4>1. slots[c].sent \in Nat  BY SMTT(30), <3>1 DEF SlotOK
      <4>. QED  BY SMTT(30), <1>1, <3>1, <4>1, TimeAssumption DEF Tick, InFlight
    <3>. QED  BY Zenon, <3>1, <3>2, SlotLasts
  <2>3. now + 1 \in 0..MaxTime  BY <2>1, InvTypes, TimeAssumption
  <2>. QED  BY Zenon, <2>1, <2>2, <2>3 DEF StorageInv, Refreshing
<1>2. CASE RotateClientKey \/ RemoveClient
  <2>1. /\ now' = now /\ slots' = slots /\ honoured' = honoured
        /\ clientKey' \in 0..MaxKeys /\ approved' = approved /\ cache' = cache
        /\ client' = client /\ allowed' = allowed /\ seen' = seen
        BY <1>2, InvTypes, TimeAssumption DEF RotateClientKey, RemoveClient, peerState
  <2>. QED  BY Zenon, <2>1 DEF StorageInv, Refreshing
<1>3. CASE RestartStorage
  <2>1. /\ now' = now /\ honoured' = honoured /\ clientKey' = clientKey
        /\ approved' = approved /\ client' = client /\ cache' = NotCached
        /\ allowed' = {} /\ seen' = {} /\ slots' = [c \in Slot |-> Resting]
        BY Zenon, <1>3 DEF RestartStorage, idpState
  <2>2. CacheOK(NotCached)
        BY TimeAssumption DEF CacheOK, NotCached, CachedToken, NoToken, ServiceToken
  <2>3. \A c \in Slot : slots'[c] = Resting /\ SlotOK(Resting, now, honoured)
        BY Zenon, <2>1, InvTypes, SlotInitOK
  <2>6. Resting.pc = "idle"  BY DEF Resting
  <2>4. \A c \in Slot : ~Refreshing(c)' /\ slots'[c].pc # "listed"
        BY Zenon, <2>3, <2>6 DEF Refreshing
  <2>5. slots' = [c \in Slot |-> slots'[c]]  BY Zenon, <2>1
  <2>. QED  BY Zenon, <2>1, <2>2, <2>3, <2>4, <2>5 DEF StorageInv
<1>4. ASSUME NEW t \in UserToken, RevokeUserToken(t)  PROVE StorageInv'
  <2>1. /\ now' = now /\ honoured' = honoured \ {t} /\ clientKey' = clientKey
        /\ approved' = approved /\ client' = client /\ cache' = cache
        /\ allowed' = allowed /\ seen' = seen /\ slots' = slots
        BY Zenon, <1>4 DEF RevokeUserToken, peerState
  <2>2. ASSUME NEW c \in Slot  PROVE SlotOK(slots[c], now, honoured')
    <3>1. SlotOK(slots[c], now, honoured) /\ now \in Nat  BY Zenon, InvTypes
    <3>2. slots[c].pc \in {"fetch", "sign", "signed", "call", "caller", "claims", "listed"}
            => now <= slots[c].sent + Timeout
          BY Zenon, <3>1 DEF SlotOK
    <3>3. honoured' \subseteq honoured  BY Zenon, <2>1
    <3>. QED  BY Zenon, <3>1, <3>2, <3>3, SlotLasts
  <2>. QED  BY Zenon, <2>1, <2>2 DEF StorageInv, Refreshing
<1>5. ASSUME NEW q \in Peer, ApprovePeer(q) \/ RevokePeer(q)  PROVE StorageInv'
  <2>1. /\ now' = now /\ honoured' = honoured /\ clientKey' = clientKey
        /\ client' = client /\ cache' = cache /\ allowed' = allowed /\ slots' = slots
        BY Zenon, <1>5 DEF ApprovePeer, RevokePeer, peerState
  <2>2. approved' \subseteq Peer /\ seen' \subseteq Peer /\ seen \subseteq seen'
        BY Zenon, <1>5 DEF ApprovePeer, RevokePeer, peerState, StorageInv
  <2>3. ASSUME NEW c \in Slot, Refreshing(c)  PROVE approved' \subseteq seen'
        BY Zenon, <1>5, <2>3 DEF ApprovePeer, RevokePeer, peerState, StorageInv
  <2>4. \A c \in Slot : slots[c].pc = "listed" => slots[c].ask.peers \subseteq seen'
        BY Zenon, <2>2 DEF StorageInv
  <2>. QED  BY Zenon, <2>1, <2>2, <2>3, <2>4 DEF StorageInv, Refreshing
<1>. QED  BY Zenon, <1>1, <1>2, <1>3, <1>4, <1>5

\* The steps of one slot.
SlotStep(c) ==
  \/ HttpRequest(c) \/ ValidateActor(c) \/ SelectedResources(c)
  \/ AdmitPeerReplication(c) \/ StorageEndpointIdentity(c) \/ RefreshApprovedPeers(c)
  \/ ReceiveMessage(c) \/ CloseSocket(c)
  \/ UseCached(c) \/ FetchToken(c) \/ AuthenticateClient(c)
  \/ IssueClientCredentials(c) \/ ReceiveToken(c)
  \/ AuthorizeBearer(c) \/ Introspect(c) \/ CallFails(c) \/ ReceiveAnswer(c)
  \/ RefreshFails(c) \/ ListApproved(c) \/ ReplaceApprovedPeers(c)
  \/ AuthorizeStorage(c) \/ UpgradeSocket(c) \/ Execute(c) \/ Refuse(c) \/ SendResponse(c)

LEMMA StorageInvNext == StorageInv /\ [StorageNext]_storageVars => StorageInv'
<1>1. ASSUME StorageInv, NEW c \in Slot, SlotStep(c)  PROVE StorageInv'
      BY Zenon, <1>1, RequestsKeep, MessageKeeps, RefreshKeepsInv, TokenKeeps,
         IntrospectKeeps,
         EndKeeps, ListApprovedKeeps, AuthorizeStorageKeeps, ExecuteKeeps, SocketKeeps
         DEF SlotStep
<1>2. ASSUME StorageInv, StorageNext  PROVE StorageInv'
      BY Zenon, <1>1, <1>2, SurroundingsKeep DEF StorageNext, SlotStep
<1>3. ASSUME StorageInv, UNCHANGED storageVars  PROVE StorageInv'
  <2>1. /\ now' = now /\ clientKey' = clientKey /\ honoured' = honoured
        /\ approved' = approved /\ client' = client /\ cache' = cache
        /\ allowed' = allowed /\ slots' = slots /\ seen' = seen
        BY Zenon, <1>3 DEF storageVars
  <2>. QED  BY Zenon, <1>3, <2>1 DEF StorageInv, Refreshing
<1>. QED  BY Zenon, <1>2, <1>3

LEMMA StorageInvariant == StorageSpec => []StorageInv
BY StorageInvInit, StorageInvNext, PTL DEF StorageSpec

\* Tokens and slots keep their shape, and every bearer was signed by a key.
THEOREM StorageTypeHolds == StorageSpec => []StorageTypeOK
<1>1. StorageInv => StorageTypeOK
  <2>. SUFFICES ASSUME StorageInv PROVE StorageTypeOK  BY Zenon
  <2>1. cache \in CachedToken  BY Zenon DEF StorageInv, CacheOK
  <2>2. \A c \in Slot :
          /\ slots[c].pc \in {"idle", "token", "fetch", "sign", "signed", "call", "caller",
                              "claims", "listed", "granted", "serving", "executed"}
          /\ slots[c].bearer \in ServiceToken /\ slots[c].sent \in 0..now
          /\ slots[c].pc \in {"signed", "call"} => slots[c].bearer.key > 0
        BY Zenon DEF StorageInv, SlotOK
  <2>. QED  BY Zenon, <2>1, <2>2 DEF StorageTypeOK, StorageInv
<1>. QED  BY <1>1, StorageInvariant, PTL

\* No call leaves with an expired service token, for every lifetime, margin and timeout
\* with Timeout <= Margin and Timeout < Ttl.
THEOREM SentUnexpiredHolds == StorageSpec => []SentUnexpired
<1>1. StorageInv => SentUnexpired  BY Zenon DEF StorageInv, SlotOK, SentUnexpired
<1>. QED  BY <1>1, StorageInvariant, PTL

\* What runs was authorised when its request or message came.
THEOREM ExecutedWasAuthorizedHolds == StorageSpec => []ExecutedWasAuthorized
<1>1. StorageInv => ExecutedWasAuthorized
      BY Zenon DEF StorageInv, SlotOK, ExecutedWasAuthorized
<1>. QED  BY <1>1, StorageInvariant, PTL

\* Only these steps bring a slot to rest.
LEMMA RestingStep ==
  ASSUME StorageInv, NEW c \in Slot, SlotStep(c), Refreshing(c), slots'[c] = Resting
  PROVE  RefreshFails(c) \/ ReplaceApprovedPeers(c)
<1>1. ASSUME NEW pc, NEW ask, NEW bearer, NEW sent, Go(c, pc, ask, bearer, sent)
      PROVE  pc = "idle"
  <2>1. slots'[c] = [pc |-> pc, ask |-> ask, bearer |-> bearer, sent |-> sent]
        BY Zenon, <1>1 DEF Go, StorageInv
  <2>. QED  BY SMTT(30), <2>1 DEF Resting
<1>2. slots[c].pc # "idle" /\ slots[c].ask.why = "refresh"  BY Zenon DEF Refreshing
<1>3. slots[c].pc \notin {"serving", "granted", "executed", "claims"}
      BY Zenon, <1>2 DEF StorageInv, SlotOK, SocketAsk, Introspects
<1>4. ~(\/ HttpRequest(c) \/ ValidateActor(c) \/ SelectedResources(c)
        \/ AdmitPeerReplication(c) \/ StorageEndpointIdentity(c) \/ RefreshApprovedPeers(c))
      BY Zenon, <1>2 DEF HttpRequest, ValidateActor, SelectedResources, AdmitPeerReplication,
                  StorageEndpointIdentity, RefreshApprovedPeers, Start
<1>5. ~(\/ ReceiveMessage(c) \/ CloseSocket(c) \/ AuthorizeStorage(c) \/ UpgradeSocket(c)
        \/ Execute(c) \/ Refuse(c) \/ SendResponse(c))
      BY Zenon, <1>3 DEF ReceiveMessage, CloseSocket, AuthorizeStorage, UpgradeSocket, Execute,
                  Refuse, SendResponse
<1>6. ~(\/ UseCached(c) \/ FetchToken(c) \/ AuthenticateClient(c)
        \/ IssueClientCredentials(c) \/ ReceiveToken(c) \/ AuthorizeBearer(c)
        \/ Introspect(c) \/ ListApproved(c))
      BY Zenon, <1>1 DEF UseCached, FetchToken, AuthenticateClient, IssueClientCredentials,
                  ReceiveToken, AuthorizeBearer, Introspect, ListApproved
<1>7. ~CallFails(c) /\ ~ReceiveAnswer(c)
      BY Zenon, <1>2 DEF CallFails, ReceiveAnswer, Refreshing
<1>. QED  BY Zenon, <1>4, <1>5, <1>6, <1>7 DEF SlotStep

LEMMA OneSlotMoves ==
  ASSUME StorageInv, NEW c \in Slot, SlotStep(c), NEW d \in Slot, d # c
  PROVE  slots'[d] = slots[d]
<1>1. ASSUME NEW pc, NEW ask, NEW bearer, NEW sent, Go(c, pc, ask, bearer, sent)
      PROVE  slots'[d] = slots[d]
      BY Zenon, <1>1 DEF Go, StorageInv
<1>2. Rest(c) => slots'[d] = slots[d]  BY Zenon DEF Rest, StorageInv
<1>3. \/ HttpRequest(c) \/ ValidateActor(c) \/ SelectedResources(c)
      \/ AdmitPeerReplication(c) \/ StorageEndpointIdentity(c) \/ RefreshApprovedPeers(c)
      => slots'[d] = slots[d]
      BY Zenon, <1>1 DEF HttpRequest, ValidateActor, SelectedResources, AdmitPeerReplication,
                  StorageEndpointIdentity, RefreshApprovedPeers, Start
<1>4. \/ ReceiveMessage(c) \/ CloseSocket(c) \/ AuthorizeStorage(c) \/ UpgradeSocket(c)
      \/ Execute(c) \/ Refuse(c) \/ SendResponse(c)
      => slots'[d] = slots[d]
      BY Zenon, <1>1, <1>2 DEF ReceiveMessage, CloseSocket, AuthorizeStorage, UpgradeSocket,
                        Execute, Refuse, SendResponse
<1>5. \/ UseCached(c) \/ FetchToken(c) \/ AuthenticateClient(c)
      \/ IssueClientCredentials(c) \/ ReceiveToken(c) \/ AuthorizeBearer(c)
      \/ Introspect(c) \/ ListApproved(c)
      => slots'[d] = slots[d]
      BY Zenon, <1>1 DEF UseCached, FetchToken, AuthenticateClient, IssueClientCredentials,
                  ReceiveToken, AuthorizeBearer, Introspect, ListApproved
<1>6. CallFails(c) \/ ReceiveAnswer(c) \/ RefreshFails(c) \/ ReplaceApprovedPeers(c)
      => slots'[d] = slots[d]
      BY Zenon, <1>2 DEF CallFails, ReceiveAnswer, RefreshFails, ReplaceApprovedPeers
<1>. QED  BY Zenon, <1>3, <1>4, <1>5, <1>6 DEF SlotStep

\* A refresh ends with no peer allowed that was not approved since it began.
THEOREM RefreshForgetsHolds == StorageSpec => RefreshForgets
<1>1. ASSUME StorageInv, [StorageNext]_storageVars
      PROVE  [\A c \in Slot :
                Refreshing(c) /\ slots'[c] = Resting => allowed' \subseteq seen]_storageVars
  <2>. SUFFICES ASSUME StorageNext, NEW c \in Slot, Refreshing(c), slots'[c] = Resting
                PROVE  allowed' \subseteq seen
       BY Zenon, <1>1
  <2>0. slots[c] # Resting  BY SMTT(30) DEF Refreshing, Resting
  <2>1. CASE \E d \in Slot : SlotStep(d)
    <3>1. PICK d \in Slot : SlotStep(d)  BY Zenon, <2>1
    <3>2. d = c  BY Zenon, <1>1, <2>0, <3>1, OneSlotMoves
    <3>3. RefreshFails(c) \/ ReplaceApprovedPeers(c)  BY Zenon, <1>1, <3>1, <3>2, RestingStep
    <3>. QED  BY Zenon, <1>1, <3>3 DEF RefreshFails, ReplaceApprovedPeers, StorageInv
  <2>2. CASE RestartStorage  BY Zenon, <2>2 DEF RestartStorage
  <2>3. CASE ~(\E d \in Slot : SlotStep(d)) /\ ~RestartStorage
    <3>1. slots' = slots
          BY Zenon, <2>3 DEF StorageNext, SlotStep, Tick, RotateClientKey, RemoveClient,
                      RevokeUserToken, ApprovePeer, RevokePeer
    <3>. QED  BY Zenon, <2>0, <3>1
  <2>. QED  BY Zenon, <2>1, <2>2, <2>3
<1>. QED  BY <1>1, StorageInvariant, PTL DEF StorageSpec, RefreshForgets
===============================================================================
