-------------------------- MODULE FileSystemRuntime --------------------------
(***************************************************************************)
(* The filesystems of one device: ScopedFileSystemRuntime of               *)
(* storage-service, the websocket sessions that use it and the tick that   *)
(* removes the copies of deselected filesystems.                           *)
(*                                                                         *)
(* One asynchronous mutex guards the opened filesystems.  The catalog is a *)
(* transactional file of the file-system crate: each of its methods is one *)
(* step, most of them taken without the mutex.                             *)
(***************************************************************************)
EXTENDS FiniteSets

CONSTANTS Fs, Task, None

ASSUME FsNoneAssumption == None \notin Fs \cup Task

VARIABLES
  entry,       \* the catalog: what it says of each filesystem
  projection,  \* "local", or a peer's copy: "selected" or "evicted"
  data,        \* the filesystems with content on this device
  cached,      \* the opened filesystems the runtime remembers
  lock,        \* the task holding the mutex of cached, or None
  selected,    \* what Management says this device selects
  tasks,       \* the calls and sessions in progress
  owed         \* history: content written while selected, and selected ever since

vars == <<entry, projection, data, cached, lock, selected, tasks, owed>>

Operation == {"create", "delete", "tombstone", "register", "open", "evict"}

\* handle: none, the remembered instance, or one the runtime no longer remembers.
\* barred is history: the call began when the filesystem was already deleted.
Idle == [op |-> "none", fs |-> None, pc |-> "idle", list |-> {}, handle |-> "none",
         barred |-> FALSE]

At(t, pc, ops) == tasks[t].pc = pc /\ tasks[t].op \in ops
Goto(t, pc) == tasks' = [tasks EXCEPT ![t].pc = pc]
End(t) == tasks' = [tasks EXCEPT ![t] = Idle]
Entry(t) == entry[tasks[t].fs]

\* A method that takes the mutex waits for it first.
Start(op) == CASE op = "delete" -> "lock" [] op = "open" -> "lock" [] OTHER -> "catalog"

\* A peer's session is admitted while the filesystem is selected.
Call(t, op, f) ==
  /\ tasks[t].pc = "idle"
  /\ op = "register" => f \in selected
  /\ tasks' = [tasks EXCEPT ![t] = [Idle EXCEPT !.op = op, !.fs = f, !.pc = Start(op),
                                                !.barred = entry[f] = "deleted"]]
  /\ UNCHANGED <<entry, projection, data, cached, lock, selected, owed>>

Lock(t) ==
  /\ At(t, "lock", Operation) /\ lock = None /\ lock' = t
  /\ Goto(t, "locked")
  /\ UNCHANGED <<entry, projection, data, cached, selected, owed>>

\* The task is cancelled, or its method fails, before it holds the mutex.
Cancel(t) ==
  /\ tasks[t].pc \in {"catalog", "mark", "import", "project", "lock"}
  /\ End(t)
  /\ UNCHANGED <<entry, projection, data, cached, lock, selected, owed>>

\* create_resource: an identifier nobody has used.
Create(t) ==
  /\ At(t, "catalog", {"create"}) /\ Entry(t) = "absent"
  /\ \A s \in Task \ {t} : tasks[s].fs # tasks[t].fs
  /\ entry' = [entry EXCEPT ![tasks[t].fs] = "live"]
  /\ End(t)
  /\ UNCHANGED <<projection, data, cached, lock, selected, owed>>

\* The handles outlive the remembered instances of some filesystems.
Orphaned(forgotten) ==
  [s \in Task |-> IF tasks[s].handle = "cached" /\ tasks[s].fs \in forgotten
                  THEN [tasks[s] EXCEPT !.handle = "orphan"] ELSE tasks[s]]

Forget(t, forgotten) ==
  /\ cached' = cached \ forgotten
  /\ tasks' = [Orphaned(forgotten) EXCEPT ![t] = Idle]

\* delete_resource, under the mutex.
Delete(t) ==
  /\ At(t, "locked", {"delete"})
  /\ \/ /\ Entry(t) = "live"
        /\ entry' = [entry EXCEPT ![tasks[t].fs] = "deleted"]
        /\ Goto(t, "remove") /\ UNCHANGED lock
     \/ UNCHANGED entry /\ End(t) /\ lock' = None
  /\ owed' = owed \ {tasks[t].fs}
  /\ UNCHANGED <<projection, data, cached, selected>>

\* apply_deletion_tombstone: the catalog first, the mutex afterwards.
Tombstone(t) ==
  /\ At(t, "catalog", {"tombstone"})
  /\ entry' = [entry EXCEPT ![tasks[t].fs] = "deleted"]
  /\ owed' = owed \ {tasks[t].fs}
  /\ Goto(t, "lock")
  /\ UNCHANGED <<projection, data, cached, lock, selected>>

Remove(t) ==
  /\ At(t, "remove", {"delete"}) \/ At(t, "locked", {"tombstone"})
  /\ Forget(t, {tasks[t].fs}) /\ lock' = None
  /\ UNCHANGED <<entry, projection, data, selected, owed>>

\* register_selected_resource: a snapshot decides, and the write comes later.
Snapshot(t) ==
  /\ At(t, "catalog", {"register"})
  /\ CASE Entry(t) = "deleted" -> End(t)
       [] Entry(t) = "live"    -> Goto(t, "mark")
       [] OTHER                -> Goto(t, "import")
  /\ UNCHANGED <<entry, projection, data, cached, lock, selected, owed>>

\* mark_projected_selected
Mark(t) ==
  /\ At(t, "mark", {"register"}) /\ Goto(t, "lock")
  /\ projection' = [projection EXCEPT ![tasks[t].fs] = IF @ = "local" THEN @ ELSE "selected"]
  /\ UNCHANGED <<entry, data, cached, lock, selected, owed>>

\* import_snapshot: a tombstone stands.
Import(t) ==
  /\ At(t, "import", {"register"}) /\ Goto(t, "project")
  /\ entry' = [entry EXCEPT ![tasks[t].fs] = IF @ = "deleted" THEN @ ELSE "live"]
  /\ UNCHANGED <<projection, data, cached, lock, selected, owed>>

\* mark_projected
Project(t) ==
  /\ At(t, "project", {"register"}) /\ Goto(t, "lock")
  /\ projection' = [projection EXCEPT ![tasks[t].fs] = "selected"]
  /\ UNCHANGED <<entry, data, cached, lock, selected, owed>>

---------------------------------------------------------------------------
\* open_resource, under the mutex: the remembered instance, or a new one.
OpenCached(t) ==
  /\ At(t, "locked", {"open", "register"}) /\ tasks[t].fs \in cached
  /\ tasks' = [tasks EXCEPT ![t].pc = "open", ![t].handle = "cached"]
  /\ lock' = None
  /\ UNCHANGED <<entry, projection, data, cached, selected, owed>>

OpenFresh(t) ==
  /\ At(t, "locked", {"open", "register"}) /\ tasks[t].fs \notin cached
  /\ Entry(t) = "live" /\ Goto(t, "residency")
  /\ UNCHANGED <<entry, projection, data, cached, lock, selected, owed>>

\* set_residency is awaited with the mutex held; the new instance takes the place
\* of a remembered one.
Opened(t) ==
  /\ At(t, "residency", {"open", "register"})
  /\ cached' = cached \cup {tasks[t].fs}
  /\ tasks' = [Orphaned({tasks[t].fs}) EXCEPT ![t].pc = "open", ![t].handle = "cached"]
  /\ lock' = None
  /\ UNCHANGED <<entry, projection, data, selected, owed>>

OpenFails(t) ==
  /\ \/ At(t, "residency", {"open", "register"})
     \/ At(t, "locked", {"open", "register"}) /\ tasks[t].fs \notin cached
  /\ End(t) /\ lock' = None
  /\ UNCHANGED <<entry, projection, data, cached, selected, owed>>

\* A session writes through its handle, or a peer's frames do.
Write(t) ==
  LET f == tasks[t].fs IN
  /\ tasks[t].pc = "open" /\ tasks[t].handle = "cached"
  /\ data' = data \cup {f}
  /\ owed' = IF f \in selected /\ entry[f] = "live" THEN owed \cup {f} ELSE owed
  /\ UNCHANGED <<entry, projection, cached, lock, selected, tasks>>

\* serve_socket opens the filesystem again for every message and keeps the last
\* handle until then.
Message(t) ==
  /\ At(t, "open", {"open"})
  /\ tasks' = [tasks EXCEPT ![t].pc = "lock", ![t].barred = Entry(t) = "deleted"]
  /\ UNCHANGED <<entry, projection, data, cached, lock, selected, owed>>

Close(t) ==
  /\ tasks[t].pc = "open" /\ End(t)
  /\ UNCHANGED <<entry, projection, data, cached, lock, selected, owed>>

---------------------------------------------------------------------------

\* synchronize_selected_peers asks Management, then removes what is not listed.
ReadSelected(t) ==
  /\ At(t, "catalog", {"evict"})
  /\ tasks' = [tasks EXCEPT ![t].list = selected, ![t].pc = "lock"]
  /\ UNCHANGED <<entry, projection, data, cached, lock, selected, owed>>

\* Arc::strong_count of a remembered instance is above one.
InUse(f) == f \in cached /\ \E s \in Task : tasks[s].fs = f /\ tasks[s].handle = "cached"

\* Mutant: a copy in use is removed too.
EvictableAll(list) == {f \in Fs : projection[f] = "selected" /\ f \notin list}

Evictable(list) == {f \in Fs : projection[f] = "selected" /\ f \notin list /\ ~InUse(f)}

\* remove_unselected_projected_resources, under the mutex.  An error ends the loop
\* after the instance of one more filesystem was dropped.  Whether the catalog still
\* lists the projection of a deleted filesystem is left open.
Evict(t) ==
  /\ At(t, "locked", {"evict"})
  /\ \E gone \in SUBSET Evictable(tasks[t].list),
        dropped \in {{}} \cup {{f} : f \in Evictable(tasks[t].list)} :
       /\ data' = data \ gone
       /\ projection' = [f \in Fs |-> IF f \in gone THEN "evicted" ELSE projection[f]]
       /\ Forget(t, gone \cup dropped)
  /\ lock' = None
  /\ UNCHANGED <<entry, selected, owed>>

\* The owner selects or deselects, and the policy reaches this device.
Select(f) ==
  /\ selected' = IF f \in selected THEN selected \ {f} ELSE selected \cup {f}
  /\ owed' = owed \ {f}
  /\ UNCHANGED <<entry, projection, data, cached, lock, tasks>>

Restart ==
  /\ cached' = {} /\ lock' = None
  /\ tasks' = [t \in Task |-> Idle]
  /\ UNCHANGED <<entry, projection, data, selected, owed>>

---------------------------------------------------------------------------
Init ==
  /\ entry = [f \in Fs |-> "absent"] /\ projection = [f \in Fs |-> "local"]
  /\ data = {} /\ cached = {} /\ lock = None /\ selected = {} /\ owed = {}
  /\ tasks = [t \in Task |-> Idle]

Step(t) ==
  \/ Create(t) \/ Delete(t) \/ Tombstone(t) \/ Remove(t)
  \/ Snapshot(t) \/ Mark(t) \/ Import(t) \/ Project(t)
  \/ OpenCached(t) \/ OpenFresh(t) \/ Opened(t) \/ OpenFails(t)
  \/ ReadSelected(t) \/ Evict(t)

Next ==
  \/ \E t \in Task, op \in Operation, f \in Fs : Call(t, op, f)
  \/ \E t \in Task : Lock(t) \/ Cancel(t) \/ Step(t) \/ Write(t) \/ Message(t) \/ Close(t)
  \/ \E f \in Fs : Select(f)
  \/ Restart

Spec == Init /\ [][Next]_vars

---------------------------------------------------------------------------
(* Properties                                                              *)

\* Type invariant: the catalog, the opened filesystems and the calls.
TypeOK ==
  /\ entry \in [Fs -> {"absent", "live", "deleted"}]
  /\ projection \in [Fs -> {"local", "selected", "evicted"}]
  /\ data \subseteq Fs /\ cached \subseteq Fs /\ selected \subseteq Fs /\ owed \subseteq Fs
  /\ lock \in Task \cup {None}
  /\ tasks \in [Task -> [op : Operation \cup {"none"}, fs : Fs \cup {None}, list : SUBSET Fs,
                         handle : {"none", "cached", "orphan"}, barred : BOOLEAN,
                         pc : {"idle", "catalog", "lock", "locked", "remove", "mark", "import",
                               "project", "residency", "open"}]]

\* A filesystem has one instance in the process until it is deleted: the runtime
\* never forgets an instance that a session still writes through, so that no second
\* one is opened on its files and no copy is removed under a session
\* (Arc::strong_count in remove_unselected_projected_resources).
OneInstance ==
  \A t \in Task : tasks[t].handle = "orphan" => entry[tasks[t].fs] = "deleted"

\* A deletion is final, and an open that begins after it is answered at most with the
\* instance the runtime still remembers, never by opening the files again
\* (open_resource asks the catalog, import_snapshot keeps a tombstone).
LateOpensFromMemory ==
  [][/\ \A f \in Fs : entry[f] = "deleted" => entry'[f] = "deleted"
     /\ \A t \in Task :
          tasks[t].barred /\ tasks[t].pc # "open" /\ tasks'[t].pc = "open" =>
            tasks[t].fs \in cached]_vars

\* What a device selects it retains: content written while the filesystem is
\* selected is there for as long as it stays selected and is not deleted.
\* The code does not do this: TLC refutes the statement, which is kept as the
\* exact form of a divergence the README describes.
SelectedRetained == owed \subseteq data

\* The abstract call a session is making, or the answer it got.
Seen(c) ==
  IF c.op = "open" /\ c.pc # "idle"
  THEN [res |-> c.fs, barred |-> c.barred,
        answer |-> IF c.pc = "open" THEN "granted" ELSE "pending"]
  ELSE [res |-> None, barred |-> FALSE, answer |-> "none"]

Abstract ==
  INSTANCE ResourceLife WITH
    Resource <- Fs, life <- entry, calls <- [t \in Task |-> Seen(tasks[t])]

\* "Unknown, deleted, or wrong-namespace IDs fail closed" (docs/storage/
\* RESOURCE-API.md): an open that begins after the deletion took effect is refused,
\* that is, the runtime implements ResourceLife.
\* The code does not do this: TLC refutes the statement, which is kept as the
\* exact form of a divergence the README describes.
DeletionBlocksOpens == Abstract!LifeSpec

=============================================================================
