---------------------------- MODULE ResourceSync ----------------------------
(***************************************************************************)
(* One storage resource on the devices of its owner: the tick that opens   *)
(* a stream to every peer with a larger key, the two ends of a stream      *)
(* (DatabaseProtocolHandler and StorageProtocolHandler of storage-server), *)
(* and the authority both ask before every frame.                          *)
(*                                                                         *)
(* Streams of different resources share nothing but the policy, so one     *)
(* resource stands for all.  FileSystem says which kind it is.             *)
(***************************************************************************)
EXTENDS DatabaseCatalog, Naturals

CONSTANTS
  Device,      \* devices, numbered in the order of their public keys
  Link,        \* the pairs <<i, j>> that are in each other's allowlist
  Edit,        \* changes of the resource's content
  FileSystem   \* the resource is a filesystem

ASSUME SyncAssumption ==
  Device \subseteq Nat /\ Link \subseteq Device \X Device /\ FileSystem \in BOOLEAN

VARIABLES
  record,      \* each device's catalog record of the resource
  projection,  \* "local", or a peer's copy: "selected" or "evicted"
  data,        \* the changes each device has
  policy,      \* the devices that select the resource, as last decided
  view,        \* what each device's Management knows of policy
  end,         \* the two ends of each stream
  inbox,       \* the frame on its way to an end
  calm,        \* no failures happen any more
  untaken,     \* history: <<d, x>>, x written while d knew it does not select
  ungiven,     \* history: <<d, x>>, x written while the others knew it of d
  written      \* history: the changes made so far

history == <<untaken, ungiven, written>>
vars == <<record, projection, data, policy, view, end, inbox, calm, history>>

---------------------------------------------------------------------------
\* The endpoint with the smaller key initiates.
End == {l \in Link : l[1] < l[2]} \X {"ini", "res"}

Self(e) == IF e[2] = "ini" THEN e[1][1] ELSE e[1][2]
Peer(e) == IF e[2] = "ini" THEN e[1][2] ELSE e[1][1]
Mate(e) == <<e[1], IF e[2] = "ini" THEN "res" ELSE "ini">>

\* What a stream carries: the handshake, its acknowledgement, and content.
NoFrame == [kind |-> "none", deleted |-> FALSE, edits |-> {}]
Handshake(deleted) == [NoFrame EXCEPT !.kind = "hello", !.deleted = deleted]
OkFrame == [NoFrame EXCEPT !.kind = "ok"]
Content(edits) == [NoFrame EXCEPT !.kind = "content", !.edits = edits]

\* local: the current authorization has seen this device's own selection.
\* late is history: the resource was deleted here before the stream began.
Idle == [pc |-> "idle", deleted |-> FALSE, local |-> FALSE, frame |-> {}, late |-> FALSE]

Pc(e, pc) == end[e].pc = pc
Goto(e, pc) == end' = [end EXCEPT ![e].pc = pc, ![e].local = FALSE]
Quit(e) == end' = [end EXCEPT ![e] = Idle]
Deliver(e, msg) == inbox' = [inbox EXCEPT ![Mate(e)] = msg]

\* authorize asks twice: for this device's selections, then for the admission of
\* the two devices.  The second answer comes with the step that needed it.
CheckLocal(e) ==
  /\ end[e].pc \in {"auth", "send", "ready", "check"} /\ ~end[e].local
  /\ Self(e) \in view[Self(e)]
  /\ end' = [end EXCEPT ![e].local = TRUE,
                        ![e].frame = IF Pc(e, "send") THEN data[Self(e)] ELSE @]
  /\ UNCHANGED <<record, projection, data, policy, view, inbox, calm, history>>

Admitted(e) == end[e].local /\ Peer(e) \in view[Self(e)]

---------------------------------------------------------------------------
\* synchronize_selected_peers and synchronize_peer on the initiating device.  A
\* filesystem's tombstone is looked up before the connection, a database's after.
Begin(e) ==
  /\ e[2] = "ini" /\ Pc(e, "idle") /\ Pc(Mate(e), "idle")
  /\ Self(e) \in view[Self(e)]
  /\ end' = [end EXCEPT ![e] = [Idle EXCEPT !.pc = "auth",
                                            !.deleted = record[Self(e)] = "deleted",
                                            !.late = record[Self(e)] = "deleted"]]
  /\ inbox' = [inbox EXCEPT ![e] = NoFrame, ![Mate(e)] = NoFrame]
  /\ UNCHANGED <<record, projection, data, policy, view, calm, history>>

Hello(e) ==
  LET deleted == IF FileSystem THEN end[e].deleted ELSE record[Self(e)] = "deleted" IN
  /\ e[2] = "ini" /\ Pc(e, "auth") /\ Admitted(e)
  /\ end' = [end EXCEPT ![e].pc = "wait", ![e].local = FALSE, ![e].deleted = deleted]
  /\ Deliver(e, Handshake(deleted))
  /\ UNCHANGED <<record, projection, data, policy, view, calm, history>>

\* The acknowledgement ends a tombstone's stream and opens the resource otherwise.
Acknowledged(e) ==
  /\ Pc(e, "wait") /\ inbox[e] = OkFrame
  /\ inbox' = [inbox EXCEPT ![e] = NoFrame]
  /\ IF ~end[e].deleted /\ record[Self(e)] = "live" THEN Goto(e, "send") ELSE Quit(e)
  /\ UNCHANGED <<record, projection, data, policy, view, calm, history>>

\* accept_stream on the other device.
Accept(e) ==
  /\ e[2] = "res" /\ Pc(e, "idle") /\ inbox[e].kind = "hello"
  /\ end' = [end EXCEPT ![e] = [Idle EXCEPT !.pc = "auth", !.deleted = inbox[e].deleted,
                                            !.late = record[Self(e)] = "deleted"]]
  /\ inbox' = [inbox EXCEPT ![e] = NoFrame]
  /\ UNCHANGED <<record, projection, data, policy, view, calm, history>>

\* apply_tombstone; without an acknowledgement if it failed.
Tombstoned(e) ==
  /\ e[2] = "res" /\ Pc(e, "auth") /\ Admitted(e) /\ end[e].deleted
  /\ \E result \in ApplyTombstone(record[Self(e)]) :
       /\ calm => result.ok
       /\ record' = [record EXCEPT ![Self(e)] = result.record]
       /\ IF result.ok THEN Deliver(e, OkFrame) ELSE UNCHANGED inbox
  /\ Quit(e)
  /\ UNCHANGED <<projection, data, policy, view, calm, history>>

\* Mutant: a resource that is registered already is refused.
RegisteredOnce(e) ==
  /\ e[2] = "res" /\ Pc(e, "auth") /\ Admitted(e) /\ ~end[e].deleted
  /\ IF record[Self(e)] = "absent"
     THEN /\ record' = [record EXCEPT ![Self(e)] = "live"]
          /\ projection' = [projection EXCEPT ![Self(e)] = "selected"]
          /\ Deliver(e, OkFrame) /\ Goto(e, "ready")
     ELSE Quit(e) /\ UNCHANGED <<record, projection, inbox>>
  /\ UNCHANGED <<data, policy, view, calm, history>>

\* open_selected: the stream is dropped unless the resource is live here now.
Registered(e) ==
  /\ e[2] = "res" /\ Pc(e, "auth") /\ Admitted(e) /\ ~end[e].deleted
  /\ \E result \in RegisterSelected(record[Self(e)]) :
       /\ calm => result.ok
       /\ record' = [record EXCEPT ![Self(e)] = result.record]
       /\ projection' = [projection EXCEPT ![Self(e)] =
            IF result.ok /\ result.record = "live" /\ (record[Self(e)] = "absent" \/ @ # "local")
            THEN "selected" ELSE @]
       /\ IF result.ok /\ result.record = "live"
          THEN Deliver(e, OkFrame) /\ Goto(e, "ready")
          ELSE Quit(e) /\ UNCHANGED inbox
  /\ UNCHANGED <<data, policy, view, calm, history>>

---------------------------------------------------------------------------

\* Mutant: frames are sent to a peer whatever it selects.
SendAnyway(e) ==
  /\ Pc(e, "send") /\ end[e].local /\ inbox[Mate(e)] = NoFrame
  /\ Deliver(e, Content(end[e].frame))
  /\ IF e[2] = "ini" THEN Goto(e, "ready") ELSE Quit(e)
  /\ UNCHANGED <<record, projection, data, policy, view, calm, history>>

\* One round of synchronization, over a transport that authorizes a frame before it
\* is sent, before it is waited for and after it came.
Send(e) ==
  /\ Pc(e, "send") /\ Admitted(e) /\ inbox[Mate(e)] = NoFrame
  /\ Deliver(e, Content(end[e].frame))
  /\ IF e[2] = "ini" THEN Goto(e, "ready") ELSE Quit(e)
  /\ UNCHANGED <<record, projection, data, policy, view, calm, history>>

Await(e) ==
  /\ Pc(e, "ready") /\ Admitted(e) /\ Goto(e, "recv")
  /\ UNCHANGED <<record, projection, data, policy, view, inbox, calm, history>>

Receive(e) ==
  /\ Pc(e, "recv") /\ inbox[e].kind = "content"
  /\ end' = [end EXCEPT ![e].pc = "check", ![e].frame = inbox[e].edits]
  /\ inbox' = [inbox EXCEPT ![e] = NoFrame]
  /\ UNCHANGED <<record, projection, data, policy, view, calm, history>>

\* Mutant: a frame that came is applied without asking again.
ApplyAnyway(e) ==
  /\ Pc(e, "check")
  /\ data' = [data EXCEPT ![Self(e)] = @ \cup end[e].frame]
  /\ IF e[2] = "res" THEN Goto(e, "send") ELSE Quit(e)
  /\ UNCHANGED <<record, projection, policy, view, inbox, calm, history>>

Apply(e) ==
  /\ Pc(e, "check") /\ Admitted(e)
  /\ data' = [data EXCEPT ![Self(e)] = @ \cup end[e].frame]
  /\ IF e[2] = "res" THEN Goto(e, "send") ELSE Quit(e)
  /\ UNCHANGED <<record, projection, policy, view, inbox, calm, history>>

\* An authorization is refused.
Refused(e) ==
  /\ end[e].pc \in {"auth", "send", "ready", "check"}
  /\ ~({Self(e), Peer(e)} \subseteq view[Self(e)])
  /\ Quit(e)
  /\ UNCHANGED <<record, projection, data, policy, view, inbox, calm, history>>

\* The other end of the stream is gone.
Broken(e) ==
  /\ end[e].pc \in {"wait", "recv"} /\ inbox[e] = NoFrame
  /\ Pc(Mate(e), "idle") /\ inbox[Mate(e)].kind # "hello"
  /\ Quit(e)
  /\ UNCHANGED <<record, projection, data, policy, view, inbox, calm, history>>

\* An outage of the authority, a lost stream, a restart.
Fail(e) ==
  /\ ~calm /\ ~Pc(e, "idle") /\ Quit(e)
  /\ UNCHANGED <<record, projection, data, policy, view, inbox, calm, history>>

Calm ==
  /\ ~calm /\ calm' = TRUE
  /\ UNCHANGED <<record, projection, data, policy, view, end, inbox, history>>

---------------------------------------------------------------------------
\* The owner creates the resource, changes it and deletes it on a device.
Create(d) ==
  /\ \A f \in Device : record[f] = "absent"
  /\ record' = [record EXCEPT ![d] = "live"]
  /\ UNCHANGED <<projection, data, policy, view, end, inbox, calm, history>>

Write(d, x) ==
  /\ record[d] = "live" /\ x \notin written /\ written' = written \cup {x}
  /\ data' = [data EXCEPT ![d] = @ \cup {x}]
  /\ untaken' = untaken \cup ({f \in Device \ {d} : f \notin view[f]} \X {x})
  /\ ungiven' = ungiven \cup ({f \in Device \ {d} : \A g \in Device \ {f} : f \notin view[g]} \X {x})
  /\ UNCHANGED <<record, projection, policy, view, end, inbox, calm>>

Delete(d) ==
  /\ record[d] = "live"
  /\ record' = [record EXCEPT ![d] = "deleted"]
  /\ UNCHANGED <<projection, data, policy, view, end, inbox, calm, history>>

\* The policy changes somewhere, and a device's Management learns it.  What is selected
\* was found in a device's storage.
Decide(d) ==
  /\ d \in policy \/ \E f \in Device : record[f] = "live"
  /\ policy' = IF d \in policy THEN policy \ {d} ELSE policy \cup {d}
  /\ UNCHANGED <<record, projection, data, view, end, inbox, calm, history>>

Learn(d) ==
  /\ view[d] # policy
  /\ view' = [view EXCEPT ![d] = policy]
  /\ untaken' = {p \in untaken : ~(p[1] = d /\ d \in policy)}
  /\ ungiven' = {p \in ungiven : p[1] = d \/ p[1] \notin policy}
  /\ UNCHANGED <<record, projection, data, policy, end, inbox, calm, written>>

\* Mutant: a copy goes when no device selects it.
EvictLast(d) ==
  /\ FileSystem /\ projection[d] = "selected" /\ view[d] = {}
  /\ \A e \in End : Self(e) = d => end[e].pc \notin {"send", "ready", "recv", "check"}
  /\ projection' = [projection EXCEPT ![d] = "evicted"]
  /\ data' = [data EXCEPT ![d] = {}]
  /\ UNCHANGED <<record, policy, view, end, inbox, calm, history>>

\* remove_unselected_projected_resources, on a filesystem's tick.
Evict(d) ==
  /\ FileSystem /\ projection[d] = "selected" /\ d \notin view[d]
  /\ \A e \in End : Self(e) = d => end[e].pc \notin {"send", "ready", "recv", "check"}
  /\ projection' = [projection EXCEPT ![d] = "evicted"]
  /\ data' = [data EXCEPT ![d] = {}]
  /\ UNCHANGED <<record, policy, view, end, inbox, calm, history>>

---------------------------------------------------------------------------
Init ==
  /\ record = [d \in Device |-> "absent"] /\ projection = [d \in Device |-> "local"]
  /\ data = [d \in Device |-> {}]
  /\ policy = {} /\ view = [d \in Device |-> {}]
  /\ end = [e \in End |-> Idle] /\ inbox = [e \in End |-> NoFrame]
  /\ untaken = {} /\ ungiven = {} /\ written = {} /\ calm = FALSE

Progress(e) ==
  \/ CheckLocal(e) \/ Begin(e) \/ Hello(e) \/ Acknowledged(e)
  \/ Accept(e) \/ Tombstoned(e) \/ Registered(e)
  \/ Send(e) \/ Await(e) \/ Receive(e) \/ Apply(e)
  \/ Refused(e) \/ Broken(e)

Owner ==
  \/ \E d \in Device : Create(d) \/ Delete(d) \/ Decide(d) \/ Learn(d) \/ Evict(d)
  \/ \E d \in Device, x \in Edit : Write(d, x)

Next == (\E e \in End : Progress(e) \/ Fail(e)) \/ Calm \/ Owner

Spec == Init /\ [][Next]_vars

\* A stream that fails is tried again at the next tick, ten seconds later; the network
\* and the authority stop failing, and Management catches up.
Fairness ==
  /\ \A e \in End : WF_vars(Progress(e))
  /\ \A d \in Device : WF_vars(Learn(d)) /\ WF_vars(Evict(d))
  /\ WF_vars(Calm)

FairSpec == Spec /\ Fairness

---------------------------------------------------------------------------
(* Properties                                                              *)

\* Type invariant: the catalogs, the policy and the two ends of every stream.
TypeOK ==
  /\ record \in [Device -> Record]
  /\ projection \in [Device -> {"local", "selected", "evicted"}]
  /\ data \in [Device -> SUBSET Edit] /\ written \subseteq Edit
  /\ policy \subseteq Device /\ view \in [Device -> SUBSET Device]
  /\ end \in [End -> [pc : {"idle", "auth", "wait", "send", "ready", "recv", "check"},
                      deleted : BOOLEAN, local : BOOLEAN, late : BOOLEAN, frame : SUBSET Edit]]
  /\ inbox \in [End -> [kind : {"none", "hello", "ok", "content"}, deleted : BOOLEAN,
                        edits : SUBSET Edit]]
  /\ calm \in BOOLEAN /\ untaken \subseteq Device \X Edit /\ ungiven \subseteq Device \X Edit

\* A device that knows it does not select the resource takes nothing of what is
\* written from then on, whatever its peers still believe (AuthorizedTransport::
\* receive asks again after the frame came).
NothingTaken == \A p \in untaken : p[2] \notin data[p[1]]

\* What is written once every other device knows that a device does not select the
\* resource is not given to it, whatever that device believes (AuthorizedTransport::
\* send asks before every frame).
NothingGiven == \A p \in ungiven : p[2] \notin data[p[1]]

\* No stream that begins on a device after the resource was deleted there opens its
\* content again (is_tombstoned, register_selected).
DeletedStaysClosed ==
  \A e \in End : end[e].late => end[e].pc \notin {"send", "ready", "recv", "check"}

\* A deletion is final and has a source: a device comes to record it when its owner
\* deletes the resource there, or from a stream with a device that has recorded it,
\* however late the handshake that carries the tombstone arrives.
DeletionsHaveSource ==
  [][\A d \in Device :
       /\ record[d] = "deleted" => record'[d] = "deleted"
       /\ record[d] # "deleted" /\ record'[d] = "deleted" =>
            \/ record[d] = "live" /\ UNCHANGED <<end, inbox>>
            \/ \E e \in End : Self(e) = d /\ record[Peer(e)] = "deleted"]_vars

\* Both devices of a link select the resource, know it, and the one that initiates
\* has it.
Settled(l) ==
  /\ \A d, f \in {l[1], l[2]} : d \in view[f]
  /\ record[l[1]] = "live" /\ record[l[2]] # "deleted"

\* Two devices that select the resource come to have each other's changes, through
\* failing streams and restarts, if the one with the smaller key holds it.
SelectedConverges ==
  \A l \in Link, x \in Edit : l[1] < l[2] =>
    (<>[]Settled(l) => []<>(x \in data[l[1]] <=> x \in data[l[2]]))

\* "deselection removes only that device's local copy" (docs/storage/RESOURCE-API.md):
\* a device that stays deselected gets rid of the copy it had from a peer.
DeselectedCopyRemoved ==
  \A d \in Device :
    <>[](d \notin view[d]) =>
      []<>(projection[d] = "selected" /\ record[d] = "live" => data[d] = {})

\* "Resource deletion replicates a tombstone" (docs/adr/0001): once every device
\* selects the resource, a deletion on one reaches the others.
\* The code does not do this: TLC refutes the statement, which is kept as the
\* exact form of a divergence the README describes.
TombstoneReaches ==
  <>[](\A d, f \in Device : d \in view[f]) =>
    \A d, f \in Device : <>(record[d] = "deleted") => <>(record[f] = "deleted")

\* A resource "synchronizes between approved devices when each peer's Management
\* policy authorizes the selected resource" (README.md): a device that selects a
\* resource another one has obtains it.
\* The code does not do this: TLC refutes the statement, which is kept as the
\* exact form of a divergence the README describes.
SelectedObtains ==
  \A d, f \in Device :
    <>[](d \in view[d] /\ f \in view[f] /\ d \in view[f] /\ f \in view[d]
         /\ record[f] = "live" /\ record[d] # "deleted") => <>(record[d] = "live")

=============================================================================
