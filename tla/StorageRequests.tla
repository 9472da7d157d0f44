-------------------------- MODULE StorageRequests --------------------------
(* The requests StorageService and ScopedStorageService answer over one     *)
(* filesystem (src/crates/storage-service/src/service.rs).                  *)
(*                                                                          *)
(* Requests of several connections overlap.  Each call of the filesystem is *)
(* atomic, but a request makes several: what it answers about an entry is   *)
(* put together from a revision and from a later read of the content.       *)
(* The filesystem itself is external; it is modelled by the changes made to *)
(* it, the position of a change being the revision it creates.              *)
EXTENDS Integers, Sequences, FiniteSets

CONSTANTS
    Connection,     \* connections, one request at a time each
    FilePath,       \* paths of the filesystem, all in one directory
    MaxChanges      \* bound on the changes made to the filesystem

ASSUME ChangesAssumption == MaxChanges \in Nat

VARIABLES
    changes,        \* every change so far
    calls           \* the request of each connection

requestVars == <<changes, calls>>

-----------------------------------------------------------------------------

Kinds == {"file", "dir", "gone"}
StorageChange == [path : FilePath, kind : Kinds, size : 0 .. 2 * MaxChanges]

\* A request over path p: where it stands, the revision it made itself (0: none), the
\* changes there were when it came in and the revisions it has yet to describe.
RequestAt(pc, p, own, since, todo) ==
    [pc |-> pc, path |-> p, own |-> own, since |-> since, todo |-> todo,
     entries |-> {}, failed |-> FALSE]

\* Nothing happens between the arrival of a request and its first call of the
\* filesystem, so a connection is at rest until that call, and again when the
\* answer needs no further one.
AtRest == RequestAt("rest", "none", 0, 0, <<>>)

Revisions(p) == {i \in DOMAIN changes : changes[i].path = p}
Latest(p) == IF Revisions(p) = {} THEN 0
             ELSE CHOOSE i \in Revisions(p) : \A j \in Revisions(p) : j =< i
KindOf(p) == IF Latest(p) = 0 THEN "gone" ELSE changes[Latest(p)].kind
SizeOf(p) == IF Latest(p) = 0 THEN 0 ELSE changes[Latest(p)].size
Present(p) == KindOf(p) # "gone"

RequestsInit ==
    /\ changes = <<>>
    /\ calls = [c \in Connection |-> AtRest]

Made(p, kind, size) == [path |-> p, kind |-> kind, size |-> size]

\* The filesystem is changed, within the bound of the model.
Change(made) ==
    /\ Len(changes) + Len(made) =< MaxChanges
    /\ changes' = changes \o made

\* The request of c starts over path p and goes on at pc.
Goes(c, p, own, pc, todo) ==
    /\ calls[c] = AtRest
    /\ calls' = [calls EXCEPT ![c] = RequestAt(pc, p, own, Len(changes), todo)]

Becomes(c, call) == calls' = [calls EXCEPT ![c] = call] /\ UNCHANGED changes

\* StorageServiceError::response: every error is answered the same way.
AnswerError(c) == Becomes(c, [calls[c] EXCEPT !.pc = "refused", !.todo = <<>>])

-----------------------------------------------------------------------------

\* write returns the entry of the revision it made.
ExecuteWrite(c, p) ==
    /\ KindOf(p) # "dir"
    /\ \E n \in 1 .. 2 : Change(<<Made(p, "file", n)>>)
    /\ Goes(c, p, Len(changes) + 1, "describe", <<Len(changes) + 1>>)

\* Mutant: the entry answered is looked up before the bytes are appended.
AppendAfterEntry(c, p) ==
    /\ Present(p)
    /\ Change(<<Made(p, "file", SizeOf(p) + 1)>>)
    /\ Goes(c, p, Len(changes) + 1, "describe", <<Latest(p)>>)

\* append returns nothing: the entry is looked up by a second call.  (Whether
\* append creates a missing file is for the filesystem to say.)
ExecuteAppend(c, p) ==
    /\ KindOf(p) # "dir"
    /\ Change(<<Made(p, "file", SizeOf(p) + 1)>>)
    /\ Goes(c, p, Len(changes) + 1, "lookup", <<>>)

ExecuteDelete(c, p) ==
    /\ calls[c] = AtRest
    /\ Present(p)
    /\ Change(<<Made(p, "gone", 0)>>)
    /\ UNCHANGED calls

ExecuteCreateDir(c, p) ==
    /\ ~Present(p)
    /\ Change(<<Made(p, "dir", 0)>>)
    /\ Goes(c, p, Len(changes) + 1, "describe", <<Len(changes) + 1>>)

ExecuteRename(c, p, q) ==
    /\ calls[c] = AtRest
    /\ Present(p) /\ ~Present(q)
    /\ Change(<<Made(q, KindOf(p), SizeOf(p)), Made(p, "gone", 0)>>)
    /\ UNCHANGED calls

ExecuteEntry(c, p) ==
    /\ Present(p)
    /\ Goes(c, p, 0, "describe", <<Latest(p)>>)
    /\ UNCHANGED changes

\* list returns the entries of one moment, to be described one by one.
ExecuteList(c) ==
    LET listed == {Latest(p) : p \in {q \in FilePath : Present(q)}} IN
    /\ \E order \in [1 .. Cardinality(listed) -> listed] :
          /\ \A i, j \in DOMAIN order : order[i] = order[j] => i = j
          /\ Goes(c, "none", 0, "describe", order)
    /\ UNCHANGED changes

\* The second call of an append.
LookupAppended(c) ==
    /\ calls[c].pc = "lookup"
    /\ IF Present(calls[c].path)
       THEN Becomes(c, [calls[c] EXCEPT !.pc = "describe", !.todo = <<Latest(calls[c].path)>>])
       ELSE AnswerError(c)

Described(c, size) ==
    Becomes(c, [calls[c] EXCEPT
                  !.todo = Tail(@),
                  !.entries = @ \cup {[revision |-> Head(calls[c].todo), size |-> size]}])

\* storage_entry: the size of a file is the length of its content as it is now.
DescribeEntry(c) ==
    LET entry == changes[Head(calls[c].todo)] IN
    /\ calls[c].pc = "describe" /\ calls[c].todo # <<>>
    /\ \/ entry.kind # "file" /\ Described(c, 0)
       \/ entry.kind = "file" /\ KindOf(entry.path) = "file" /\ Described(c, SizeOf(entry.path))
       \/ entry.kind = "file" /\ KindOf(entry.path) # "file" /\ AnswerError(c)

\* A later call of the filesystem fails.  (A first call that fails changes nothing.)
FileSystemFails(c) ==
    /\ calls[c].pc \in {"lookup", "describe"}
    /\ Becomes(c, [calls[c] EXCEPT !.pc = "refused", !.todo = <<>>, !.failed = TRUE])

\* Every entry is described, or the request was refused: it is answered.
SendAnswer(c) ==
    /\ calls[c].pc \in {"describe", "refused"} /\ calls[c].todo = <<>>
    /\ Becomes(c, AtRest)

RequestsNext ==
    \E c \in Connection :
        \/ \E p \in FilePath :
            \/ ExecuteWrite(c, p) \/ ExecuteAppend(c, p) \/ ExecuteDelete(c, p)
            \/ ExecuteCreateDir(c, p) \/ ExecuteEntry(c, p)
            \/ \E q \in FilePath : ExecuteRename(c, p, q)
        \/ ExecuteList(c) \/ LookupAppended(c) \/ DescribeEntry(c)
        \/ FileSystemFails(c) \/ SendAnswer(c)

RequestsSpec == RequestsInit /\ [][RequestsNext]_requestVars

-----------------------------------------------------------------------------

\* Type invariant: the changes made, and where each request stands.
RequestsTypeOK ==
    /\ changes \in Seq(StorageChange) /\ Len(changes) =< MaxChanges
    /\ \A c \in Connection :
        /\ calls[c].pc \in {"rest", "lookup", "describe", "refused"}
        /\ {calls[c].own, calls[c].since} \subseteq 0 .. Len(changes)
        /\ \A i \in DOMAIN calls[c].todo : calls[c].todo[i] \in DOMAIN changes
        /\ \A e \in calls[c].entries : e.revision \in DOMAIN changes

\* Whatever overlaps with a request, its answer tells the truth (execute and
\* storage_entry, which describe an entry after the change, in two reads):
\*  - an entry has a revision its path had since the request came in, no older than
\*    the request's own change, with the size of that revision or of a later one;
\*  - an error although the change was made has a cause: the filesystem failed, or
\*    another request changed the path after it.
AnswersAreTrue ==
    \A c \in Connection :
        /\ \A e \in calls[c].entries :
            LET p == changes[e.revision].path IN
            /\ e.revision >= calls[c].own
            /\ \A i \in Revisions(p) : i > e.revision => i > calls[c].since
            /\ \E i \in Revisions(p) : i >= e.revision /\ changes[i].size = e.size
        /\ calls[c].pc = "refused" /\ calls[c].own # 0 =>
            calls[c].failed \/ Latest(calls[c].path) > calls[c].own
=============================================================================
