--------------------------- MODULE DatabaseRuntime ---------------------------
(***************************************************************************)
(* The databases of one device: DatabaseRuntime of storage-service.        *)
(*                                                                         *)
(* Calls run on several threads.  Two mutexes guard the caches of opened   *)
(* SQL databases and of opened key-value stores; the catalog has a lock of *)
(* its own that no method holds while it waits, so a catalog method is one *)
(* step.  Opening a file may fail, so may writing the catalog, and the     *)
(* process may stop between any two steps.                                 *)
(***************************************************************************)
EXTENDS DatabaseCatalog, Naturals

CONSTANTS Db, Task, None

ASSUME NoneAssumption == None \notin Db \cup Task

VARIABLES
  record,     \* the catalog file: what it says of each database
  open, kv,   \* the databases and key-value stores in the caches
  openLock,   \* the task holding the mutex of open, or None
  kvLock,     \* the task holding the mutex of kv, or None
  opened,     \* history: how often each file was opened since the process started
  tasks       \* the calls in progress

vars == <<record, open, kv, openLock, kvLock, opened, tasks>>

Operation == {"create", "get", "open", "openSelected", "openKv", "delete", "tombstone"}
\* The calls about a given database that hand it out.
Access == {"get", "open", "openSelected", "openKv"}

Idle == [op |-> "none", db |-> None, pc |-> "idle", barred |-> FALSE]

Goto(t, pc) == tasks' = [tasks EXCEPT ![t].pc = pc]
Running(t, pc, ops) == tasks[t].pc = pc /\ tasks[t].op \in ops

\* A thread leaves its method, with the resource or without, and gives back the
\* mutexes it holds.
Leave(t, pc) ==
  /\ IF pc = "idle" THEN tasks' = [tasks EXCEPT ![t] = Idle] ELSE Goto(t, pc)
  /\ openLock' = IF openLock = t THEN None ELSE openLock
  /\ kvLock' = IF kvLock = t THEN None ELSE kvLock

---------------------------------------------------------------------------
\* history: barred marks a call that begins after the deletion took effect.
Call(t, op, d) ==
  /\ tasks[t].pc \in {"idle", "granted"}
  /\ tasks' = [tasks EXCEPT ![t] = [op |-> op, db |-> d, barred |-> record[d] = "deleted",
                                    pc |-> IF op = "get" THEN "catalog" ELSE "lock"]]
  /\ UNCHANGED <<record, open, kv, openLock, kvLock, opened>>

CallCreate(t) ==
  /\ tasks[t].pc \in {"idle", "granted"}
  /\ tasks' = [tasks EXCEPT ![t] = [Idle EXCEPT !.op = "create", !.pc = "lock"]]
  /\ UNCHANGED <<record, open, kv, openLock, kvLock, opened>>

Lock(t) ==
  /\ Running(t, "lock", Operation) /\ Goto(t, "catalog")
  /\ IF tasks[t].op = "openKv"
       THEN kvLock = None /\ kvLock' = t /\ UNCHANGED openLock
       ELSE openLock = None /\ openLock' = t /\ UNCHANGED kvLock
  /\ UNCHANGED <<record, open, kv, opened>>

\* The catalog is read and replaced.
Write(t, result) == record' = [record EXCEPT ![tasks[t].db] = result.record]

\* catalog.get decides get and open, catalog.register_selected the others; the
\* error of a read or a write ends the call.
Allowed(op, result) == result.ok /\ (op \in Access => result.record = "live")

Catalog(t, op, results, next) ==
  /\ Running(t, "catalog", {op})
  /\ \E result \in results :
       /\ Write(t, result)
       /\ IF Allowed(op, result)
            THEN Goto(t, next) /\ UNCHANGED <<openLock, kvLock>>
            ELSE Leave(t, "idle")
  /\ UNCHANGED <<open, kv, opened>>

Recorded(t) == record[tasks[t].db]

\* create: an identifier nobody has used.
CreateRecord(t, d) ==
  /\ Running(t, "catalog", {"create"})
  /\ record[d] = "absent" /\ \A s \in Task : tasks[s].db # d
  /\ \E result \in CatalogCreate(record[d]) :
       /\ record' = [record EXCEPT ![d] = result.record]
       /\ IF result.ok
            THEN /\ tasks' = [tasks EXCEPT ![t].pc = "file", ![t].db = d]
                 /\ UNCHANGED <<openLock, kvLock>>
            ELSE Leave(t, "idle")
  /\ UNCHANGED <<open, kv, opened>>

\* The catalog cannot be read: create fails before it draws an identifier.
CreateFails(t) ==
  /\ Running(t, "catalog", {"create"})
  /\ Leave(t, "idle")
  /\ UNCHANGED <<record, open, kv, opened>>

Get(t) == Catalog(t, "get", Keep(Recorded(t)), "granted")

\* Mutant: a cached database is handed out without asking the catalog.
OpenCached(t) ==
  \/ Catalog(t, "open", Keep(Recorded(t)), "file")
  \/ /\ Running(t, "catalog", {"open"}) /\ tasks[t].db \in open
     /\ Goto(t, "file")
     /\ UNCHANGED <<record, open, kv, openLock, kvLock, opened>>

OpenGet(t) == Catalog(t, "open", Keep(Recorded(t)), "file")

OpenSelected(t) == Catalog(t, "openSelected", RegisterSelected(Recorded(t)), "file")

OpenKvSelected(t) == Catalog(t, "openKv", RegisterSelected(Recorded(t)), "file")

\* delete: only a catalog entry that was live leads to an eviction.
Delete(t) ==
  /\ Running(t, "catalog", {"delete"})
  /\ \E result \in CatalogDelete(Recorded(t)) :
       /\ Write(t, result)
       /\ IF result.ok /\ Recorded(t) = "live"
            THEN Goto(t, "evict") /\ UNCHANGED <<openLock, kvLock>>
            ELSE Leave(t, "idle")
  /\ UNCHANGED <<open, kv, opened>>

Tombstone(t) == Catalog(t, "tombstone", ApplyTombstone(Recorded(t)), "evict")

\* Mutant: the cache is not consulted.
OpenFileAgain(t) ==
  LET d == tasks[t].db IN
  /\ Running(t, "file", {"create", "open", "openSelected"})
  /\ open' = open \cup {d} /\ opened' = [opened EXCEPT ![d].open = @ + 1]
  /\ Leave(t, "granted") /\ UNCHANGED <<record, kv>>

\* The cached database, or a newly opened one that is cached.
OpenFile(t) ==
  LET d == tasks[t].db IN
  /\ Running(t, "file", {"create", "open", "openSelected"})
  /\ IF d \in open THEN UNCHANGED <<open, opened>>
                   ELSE open' = open \cup {d} /\ opened' = [opened EXCEPT ![d].open = @ + 1]
  /\ Leave(t, "granted")
  /\ UNCHANGED <<record, kv>>

\* Mutant: the mutex of the databases is taken while holding that of the stores.
OpenKvFileLocking(t) ==
  LET d == tasks[t].db IN
  /\ Running(t, "file", {"openKv"})
  /\ openLock = None
  /\ kv' = kv \cup {d} /\ opened' = [opened EXCEPT ![d].kv = 1]
  /\ Leave(t, "granted")
  /\ UNCHANGED <<record, open>>

OpenKvFile(t) ==
  LET d == tasks[t].db IN
  /\ Running(t, "file", {"openKv"})
  /\ IF d \in kv THEN UNCHANGED <<kv, opened>>
                 ELSE kv' = kv \cup {d} /\ opened' = [opened EXCEPT ![d].kv = @ + 1]
  /\ Leave(t, "granted")
  /\ UNCHANGED <<record, open>>

\* A file that cannot be opened: create takes its record back, the others fail.
FileFails(t) ==
  /\ Running(t, "file", Operation)
  /\ tasks[t].db \notin IF tasks[t].op = "openKv" THEN kv ELSE open
  /\ IF tasks[t].op = "create" THEN Goto(t, "undo") /\ UNCHANGED <<openLock, kvLock>>
                               ELSE Leave(t, "idle")
  /\ UNCHANGED <<record, open, kv, opened>>

UndoCreate(t) ==
  /\ Running(t, "undo", {"create"})
  /\ \E result \in CatalogDelete(Recorded(t)) : Write(t, result)
  /\ Leave(t, "idle")
  /\ UNCHANGED <<open, kv, opened>>

\* evict: the caches are cleared one after the other.
Evict(t) ==
  /\ Running(t, "evict", {"delete", "tombstone"})
  /\ open' = open \ {tasks[t].db}
  /\ Goto(t, "evictKv")
  /\ UNCHANGED <<record, kv, openLock, kvLock, opened>>

EvictKv(t) ==
  /\ Running(t, "evictKv", {"delete", "tombstone"})
  /\ kvLock = None
  /\ kv' = kv \ {tasks[t].db}
  /\ Leave(t, "idle")
  /\ UNCHANGED <<record, open, opened>>

Restart ==
  /\ open' = {} /\ kv' = {}
  /\ openLock' = None /\ kvLock' = None
  /\ opened' = [d \in Db |-> [open |-> 0, kv |-> 0]]
  /\ tasks' = [t \in Task |-> Idle]
  /\ UNCHANGED record

---------------------------------------------------------------------------
Init ==
  /\ record = [d \in Db |-> "absent"]
  /\ open = {} /\ kv = {}
  /\ openLock = None /\ kvLock = None
  /\ opened = [d \in Db |-> [open |-> 0, kv |-> 0]]
  /\ tasks = [t \in Task |-> Idle]

Step(t) ==
  \/ \E d \in Db : CreateRecord(t, d)
  \/ CreateFails(t)
  \/ Get(t) \/ OpenGet(t) \/ OpenSelected(t) \/ OpenKvSelected(t)
  \/ Delete(t) \/ Tombstone(t)
  \/ OpenFile(t) \/ OpenKvFile(t) \/ FileFails(t) \/ UndoCreate(t)
  \/ Evict(t)

Next ==
  \/ \E t \in Task, op \in Operation \ {"create"}, d \in Db : Call(t, op, d)
  \/ \E t \in Task : CallCreate(t) \/ Lock(t) \/ EvictKv(t) \/ Step(t)
  \/ Restart

Spec == Init /\ [][Next]_vars

\* A thread that can run does, and a mutex does not pass over a waiting thread
\* for ever.
FairSpec ==
  Spec /\ \A t \in Task : WF_vars(Step(t)) /\ SF_vars(Lock(t)) /\ SF_vars(EvictKv(t))

---------------------------------------------------------------------------
(* Properties                                                              *)

\* Type invariant: the catalog, the caches, the mutexes and the calls.
TypeOK ==
  /\ record \in [Db -> Record]
  /\ open \subseteq Db /\ kv \subseteq Db
  /\ openLock \in Task \cup {None} /\ kvLock \in Task \cup {None}
  /\ opened \in [Db -> [open : Nat, kv : Nat]]
  /\ tasks \in [Task -> [op : Operation \cup {"none"}, db : Db \cup {None}, barred : BOOLEAN,
                         pc : {"idle", "granted", "lock", "catalog", "file", "undo",
                               "evict", "evictKv"}]]

\* No file is opened a second time in one process, although calls on several
\* threads open, delete and re-register the same database: the store would refuse
\* or two instances would write to one file (DatabaseRuntime::open and the others
\* check their cache under the mutex they insert under).
OpenedOnce ==
  \A d \in Db : opened[d].open <= 1 /\ opened[d].kv <= 1

\* No circle of waiting calls, however many threads there are: whoever holds the mutex
\* of the key-value stores waits for nothing, and whoever holds that of the databases
\* waits at most for the other one, in evict.  No call that has ended holds a mutex.
LocksOrdered ==
  \A t \in Task :
    /\ kvLock = t => tasks[t].pc \in {"catalog", "file"}
    /\ openLock = t => tasks[t].pc \in {"catalog", "file", "undo", "evict", "evictKv"}

\* The abstract call a task is making, or the answer it got.
Seen(c) ==
  IF c.op \in Access /\ c.pc # "idle"
  THEN [res |-> c.db, barred |-> c.barred,
        answer |-> IF c.pc = "granted" THEN "granted" ELSE "pending"]
  ELSE [res |-> None, barred |-> FALSE, answer |-> "none"]

Abstract ==
  INSTANCE ResourceLife WITH
    Resource <- Db, life <- record, calls <- [t \in Task |-> Seen(tasks[t])]

\* "Delete ... tombstones the catalog entry, blocking subsequent gets and opens"
\* (docs/storage/RESOURCE-API.md): the runtime implements ResourceLife.
DeletionBlocksOpens == Abstract!LifeSpec

\* Every call ends: no two calls wait for each other's mutex.
CallsReturn ==
  \A t \in Task : tasks[t].pc \notin {"idle", "granted"} ~> tasks[t].pc \in {"idle", "granted"}

=============================================================================
