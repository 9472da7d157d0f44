----------------------------- MODULE FetchBridge -----------------------------
(***************************************************************************)
(* The fetch plugin (crates/tauri-plugin-fetch-api): `fetch` of a page     *)
(* carried to a handler in the native process, the request body as         *)
(* commands, the response as frames of a channel.  The page and the native *)
(* commands run concurrently: a command the page waits for, frames on      *)
(* their way, the task that drives the handler, and an abort at any time.  *)
(*                                                                         *)
(* A body is the number of its chunks.  The two registries are behind      *)
(* locks of their own, which init_plugin_stream and cancel_plugin_stream   *)
(* take in opposite order, each holding the first while it waits for the   *)
(* second; every other holder keeps a lock for one step.                   *)
(***************************************************************************)
EXTENDS Naturals, Sequences

CONSTANTS Stream,
          MaxChunks,  \* bound on the chunks of a body
          Capacity    \* of the channel that holds the request body (32 in the code)

ASSUME FetchAssumption == MaxChunks \in Nat /\ Capacity \in Nat

VARIABLES page,      \* what `fetch` knows of a stream, in the page
          commands,  \* the commands of a stream in the native process
          task,      \* the task init_plugin_stream spawns
          frames,    \* sent to the page and not yet received
          activeStreams, uploadSenders,  \* PluginStreamState
          activeLock, sendersLock

fetchVars == <<page, commands, task, frames, activeStreams, uploadSenders,
               activeLock, sendersLock>>
locks == <<activeLock, sendersLock>>
registries == <<activeStreams, uploadSenders>>

Free == [by |-> "nobody"]
InitOf(s) == [by |-> "init", of |-> s]
CancelOf(s) == [by |-> "cancel", of |-> s]

NoPage == [at |-> "idle", left |-> 0, body |-> 0, promise |-> "pending", head |-> FALSE,
           reader |-> "open", got |-> 0, aborted |-> FALSE, broken |-> FALSE]
NoCommands == [init |-> "none", upload |-> "none", eof |-> FALSE, cancel |-> "none"]
NoTask == [at |-> "none", queue |-> 0, taken |-> 0, receiver |-> TRUE, ended |-> FALSE,
           length |-> 0, sent |-> 0]

FetchInit ==
  /\ page = [s \in Stream |-> NoPage]
  /\ commands = [s \in Stream |-> NoCommands]
  /\ task = [s \in Stream |-> NoTask]
  /\ frames = [s \in Stream |-> <<>>]
  /\ activeStreams = {} /\ uploadSenders = {}
  /\ activeLock = Free /\ sendersLock = Free

----------------------------------------------------------------------------
(* The page.                                                               *)

\* The promise is rejected if no head has arrived, the reader is told otherwise.
Refused(p) ==
  IF p.head
  THEN [p EXCEPT !.reader = IF @ = "open" THEN "errored" ELSE @]
  ELSE [p EXCEPT !.promise = IF @ = "pending" THEN "rejected" ELSE @]

Rejected(p) == IF p.head THEN p ELSE Refused(p)

Fetch(s) ==
  /\ page[s].at = "idle"
  /\ \E n \in 0..MaxChunks :
       page' = [page EXCEPT ![s].at = "init", ![s].body = n, ![s].left = n]
  /\ commands' = [commands EXCEPT ![s].init = "senders"]
  /\ UNCHANGED <<task, frames, registries, locks>>

Registered(s) == page[s].at \in {"cancelling", "upload", "closing", "ended"}
                 /\ commands[s].init = "replied"

Abort(s) ==
  /\ page[s].at \notin {"idle", "gone"}
  /\ ~page[s].aborted
  /\ IF Registered(s)
     THEN /\ commands' = [commands EXCEPT ![s].cancel = "active"]
          /\ page' = [page EXCEPT ![s].aborted = TRUE]
     ELSE /\ page' = [page EXCEPT ![s] = [Refused(@) EXCEPT !.aborted = TRUE]]
          /\ UNCHANGED commands
  /\ UNCHANGED <<task, frames, registries, locks>>

\* init_plugin_stream answers; a signal aborted meanwhile is noticed here.
InitAnswered(s) ==
  /\ page[s].at = "init"
  /\ \/ /\ commands[s].init = "failed"
        /\ page' = [page EXCEPT ![s] = [Rejected(@) EXCEPT !.at = "ended"]]
        /\ UNCHANGED commands
     \/ /\ commands[s].init = "replied"
        /\ page[s].aborted
        /\ page' = [page EXCEPT ![s].at = "cancelling"]
        /\ commands' = [commands EXCEPT ![s].cancel = "active"]
     \/ /\ commands[s].init = "replied"
        /\ ~page[s].aborted
        /\ page' = [page EXCEPT ![s].at = "upload"]
        /\ UNCHANGED commands
  /\ UNCHANGED <<task, frames, registries, locks>>

\* The upload loop reads a chunk, the end, or fails; the end is a command too.
UploadNext(s) ==
  /\ page[s].at = "upload" /\ commands[s].upload = "none"
  /\ \/ /\ page[s].left > 0
        /\ page' = [page EXCEPT ![s].left = @ - 1]
        /\ commands' = [commands EXCEPT ![s].upload = "look", ![s].eof = FALSE]
     \/ /\ page[s].left = 0
        /\ commands' = [commands EXCEPT ![s].upload = "look", ![s].eof = TRUE]
        /\ UNCHANGED page
     \/ /\ page[s].left > 0
        /\ page' = [page EXCEPT ![s].at = "closing", ![s].broken = TRUE]
        /\ commands' = [commands EXCEPT ![s].upload = "look", ![s].eof = TRUE]
  /\ UNCHANGED <<task, frames, registries, locks>>

UploadAnswered(s) ==
  /\ commands[s].upload \in {"ok", "error"}
  /\ page[s].at \in {"upload", "closing"}
  /\ IF page[s].at = "upload" /\ commands[s].upload = "error"
     THEN /\ page' = [page EXCEPT ![s].at = "closing"]
          /\ commands' = [commands EXCEPT ![s].upload = "look", ![s].eof = TRUE]
     ELSE /\ page' = [page EXCEPT ![s].at =
                        IF commands[s].eof \/ page[s].aborted THEN "ended" ELSE "upload"]
          /\ commands' = [commands EXCEPT ![s].upload = "none"]
  /\ UNCHANGED <<task, frames, registries, locks>>

CancelAnswered(s) ==
  /\ commands[s].cancel = "replied"
  /\ page[s].at # "gone"
  /\ commands' = [commands EXCEPT ![s].cancel = "done"]
  /\ page' = [page EXCEPT ![s] =
       IF @.at = "cancelling" THEN [Rejected(@) EXCEPT !.at = "ended"] ELSE Refused(@)]
  /\ UNCHANGED <<task, frames, registries, locks>>

\* responseChannel.onmessage.  A head is noted even when the promise was rejected
\* before it.
Received(p, frame) ==
  CASE frame = "head"  -> [p EXCEPT !.head = TRUE,
                                    !.promise = IF @ = "pending" THEN "resolved" ELSE @]
    [] frame = "data"  -> [p EXCEPT !.got = IF p.reader = "open" THEN @ + 1 ELSE @]
    [] frame = "error" -> Refused(p)
    [] frame = "complete" -> [p EXCEPT !.reader = IF @ = "open" THEN "closed" ELSE @]

\* Frames arrive in the order they were sent.
Receive(s) ==
  /\ frames[s] # <<>> /\ page[s].at # "gone"
  /\ frames' = [frames EXCEPT ![s] = Tail(@)]
  /\ page' = [page EXCEPT ![s] = Received(@, Head(frames[s]))]
  /\ UNCHANGED <<commands, task, registries, locks>>

\* The page is reloaded or closed.
Unload(s) ==
  /\ page[s].at \notin {"idle", "gone"}
  /\ page' = [page EXCEPT ![s].at = "gone"]
  /\ frames' = [frames EXCEPT ![s] = <<>>]
  /\ UNCHANGED <<commands, task, registries, locks>>

----------------------------------------------------------------------------
(* The commands.                                                           *)

\* init_plugin_stream registers the sender and, keeping that lock, the stream.
RegisterSender(s) ==
  /\ commands[s].init = "senders" /\ sendersLock = Free
  /\ sendersLock' = InitOf(s)
  /\ uploadSenders' = uploadSenders \cup {s}
  /\ commands' = [commands EXCEPT ![s].init = "active"]
  /\ UNCHANGED <<page, task, frames, activeStreams, activeLock>>

RegisterActive(s) ==
  /\ commands[s].init = "active" /\ activeLock = Free
  /\ activeStreams' = activeStreams \cup {s}
  /\ sendersLock' = Free
  /\ commands' = [commands EXCEPT ![s].init = "build"]
  /\ UNCHANGED <<page, task, frames, uploadSenders, activeLock>>

\* The request is built and the task spawned; a request that cannot be built
\* is answered with an error and stays registered.
Build(s) ==
  /\ commands[s].init = "build"
  /\ \/ /\ commands' = [commands EXCEPT ![s].init = "failed"]
        /\ UNCHANGED task
     \/ /\ commands' = [commands EXCEPT ![s].init = "replied"]
        /\ task' = [task EXCEPT ![s].at = "handling"]
  /\ UNCHANGED <<page, frames, registries, locks>>

\* The sender is left in nobody's registry while its chunk is sent.
UploadTakes(s) ==
  /\ commands[s].upload = "look" /\ sendersLock = Free
  /\ commands' = [commands EXCEPT ![s].upload =
       IF s \notin uploadSenders THEN "ok" ELSE IF commands[s].eof THEN "remove" ELSE "send"]
  /\ uploadSenders' = uploadSenders \ {s}
  /\ UNCHANGED <<page, task, frames, activeStreams, locks>>

\* upload_plugin_chunk clones the sender under the lock.
UploadLooks(s) ==
  /\ commands[s].upload = "look" /\ sendersLock = Free
  /\ commands' = [commands EXCEPT ![s].upload =
       IF s \notin uploadSenders THEN "ok" ELSE IF commands[s].eof THEN "remove" ELSE "send"]
  /\ UNCHANGED <<page, task, frames, registries, locks>>

\* It sends without the lock, waits while the channel is full, and fails when
\* the handler has dropped the body.
UploadSends(s) ==
  /\ commands[s].upload = "send"
  /\ \/ /\ task[s].receiver /\ task[s].queue < Capacity
        /\ task' = [task EXCEPT ![s].queue = @ + 1]
        /\ commands' = [commands EXCEPT ![s].upload = "ok"]
     \/ /\ ~task[s].receiver
        /\ commands' = [commands EXCEPT ![s].upload = "error"]
        /\ UNCHANGED task
  /\ UNCHANGED <<page, frames, registries, locks>>

UploadRemoves(s) ==
  /\ commands[s].upload = "remove" /\ sendersLock = Free
  /\ uploadSenders' = uploadSenders \ {s}
  /\ commands' = [commands EXCEPT ![s].upload = "ok"]
  /\ UNCHANGED <<page, task, frames, activeStreams, locks>>

\* cancel_plugin_stream.
CancelActive(s) ==
  /\ commands[s].cancel = "active" /\ activeLock = Free
  /\ activeLock' = CancelOf(s)
  /\ activeStreams' = activeStreams \ {s}
  /\ commands' = [commands EXCEPT ![s].cancel = "senders"]
  /\ UNCHANGED <<page, task, frames, uploadSenders, sendersLock>>

\* The sender is left where it is.
CancelActiveOnly(s) ==
  /\ commands[s].cancel = "senders" /\ sendersLock = Free
  /\ activeLock' = Free
  /\ commands' = [commands EXCEPT ![s].cancel = "replied"]
  /\ UNCHANGED <<page, task, frames, registries, sendersLock>>

CancelSender(s) ==
  /\ commands[s].cancel = "senders" /\ sendersLock = Free
  /\ uploadSenders' = uploadSenders \ {s}
  /\ activeLock' = Free
  /\ commands' = [commands EXCEPT ![s].cancel = "replied"]
  /\ UNCHANGED <<page, task, frames, activeStreams, sendersLock>>

----------------------------------------------------------------------------
(* The task and the handler it drives.                                     *)

\* A frame reaches the page's queue unless the page is gone: nothing else makes a
\* send over the Tauri channel fail.
Emit(s, frame) ==
  frames' = IF page[s].at = "gone" THEN frames ELSE [frames EXCEPT ![s] = Append(@, frame)]

\* The handler takes a chunk, sees the end of the body, or drops it.
TakeBody(s) ==
  /\ task[s].at \in {"handling", "streaming"} /\ task[s].receiver
  /\ \/ /\ task[s].queue > 0
        /\ task' = [task EXCEPT ![s].queue = @ - 1, ![s].taken = @ + 1]
     \/ /\ task[s].queue = 0 /\ s \notin uploadSenders
        /\ commands[s].upload \notin {"send", "remove"}
        /\ task' = [task EXCEPT ![s].ended = TRUE, ![s].receiver = FALSE]
     \/ task' = [task EXCEPT ![s].receiver = FALSE]
  /\ UNCHANGED <<page, commands, frames, registries, locks>>

Respond(s) ==
  /\ task[s].at = "handling"
  /\ \E n \in 0..MaxChunks :
       task' = [task EXCEPT ![s].at = IF page[s].at = "gone" THEN "leaving" ELSE "streaming",
                            ![s].length = n]
  /\ Emit(s, "head")
  /\ UNCHANGED <<page, commands, registries, locks>>

\* The response body yields a chunk or an error: it is passed on only while the
\* stream is active.  The check and the frame are two steps.
CheckActive(s) ==
  /\ task[s].at = "streaming" /\ task[s].sent < task[s].length
  /\ activeLock = Free
  /\ task' = [task EXCEPT ![s].at = IF s \in activeStreams THEN "sending" ELSE "finishing"]
  /\ UNCHANGED <<page, commands, frames, registries, locks>>

EmitChunk(s) ==
  /\ task[s].at = "sending"
  /\ \/ /\ Emit(s, "data")
        /\ task' = [task EXCEPT ![s].sent = @ + 1, ![s].at =
                      IF page[s].at = "gone" THEN "finishing" ELSE "streaming"]
     \/ /\ Emit(s, "error")
        /\ task' = [task EXCEPT ![s].at = "finishing"]
  /\ UNCHANGED <<page, commands, registries, locks>>

Complete(s) ==
  /\ task[s].at = "finishing" \/ (task[s].at = "streaming" /\ task[s].sent = task[s].length)
  /\ Emit(s, "complete")
  /\ task' = [task EXCEPT ![s].at = "leaving"]
  /\ UNCHANGED <<page, commands, registries, locks>>

LeaveActive(s) ==
  /\ task[s].at = "leaving" /\ activeLock = Free
  /\ activeStreams' = activeStreams \ {s}
  /\ task' = [task EXCEPT ![s].at = "done", ![s].receiver = FALSE]
  /\ UNCHANGED <<page, commands, frames, uploadSenders, locks>>

FetchNext ==
  \E s \in Stream :
    \/ Fetch(s) \/ Abort(s) \/ InitAnswered(s) \/ UploadNext(s) \/ UploadAnswered(s)
    \/ CancelAnswered(s) \/ Receive(s) \/ Unload(s)
    \/ RegisterSender(s) \/ RegisterActive(s) \/ Build(s)
    \/ UploadLooks(s) \/ UploadSends(s) \/ UploadRemoves(s)
    \/ CancelActive(s) \/ CancelSender(s)
    \/ TakeBody(s) \/ Respond(s) \/ CheckActive(s) \/ EmitChunk(s) \/ Complete(s) \/ LeaveActive(s)

FetchSpec == FetchInit /\ [][FetchNext]_fetchVars

----------------------------------------------------------------------------
\* Type invariant: a lock is held by a command that is between its two locks.
FetchTypeOK ==
  /\ \A s \in Stream :
       /\ page[s].promise \in {"pending", "resolved", "rejected"}
       /\ page[s].reader \in {"open", "closed", "errored"}
       /\ page[s].left \in 0..MaxChunks /\ page[s].got \in 0..MaxChunks
       /\ task[s].queue \in 0..Capacity
       /\ task[s].sent \in 0..MaxChunks
       /\ frames[s] \in Seq({"head", "data", "error", "complete"})
       /\ (sendersLock = InitOf(s)) = (commands[s].init = "active")
       /\ (activeLock = CancelOf(s)) = (commands[s].cancel = "senders")
  /\ activeStreams \subseteq Stream /\ uploadSenders \subseteq Stream

\* A body whose end is seen has been delivered whole, in both directions:
\*  - a response whose reader reaches a normal end, with no abort, has delivered every
\*    chunk of the handler's body: a body that fails half way is followed by the same
\*    Complete frame, but after the Error frame that ends the reader
\*    (init_plugin_stream's loop, onmessage);
\*  - a handler that sees the end of the request body has been given every chunk of
\*    it, unless the page aborted or could not read its own body: the sender leaves
\*    the registry only after the last chunk has entered the channel
\*    (upload_plugin_chunk and the upload loop).
BodiesAreWhole ==
  \A s \in Stream :
    /\ page[s].reader = "closed" /\ ~page[s].aborted => page[s].got = task[s].length
    /\ task[s].ended /\ ~page[s].aborted /\ ~page[s].broken => task[s].taken = page[s].body

\* Nothing of a finished stream stays registered, however its end, its upload
\* and its cancellation overlapped (upload_plugin_chunk, cancel_plugin_stream).
RegistryDrained ==
  \A s \in Stream :
    /\ page[s].at = "ended" /\ task[s].at = "done"
    /\ commands[s].cancel \in {"none", "done"}
    => s \notin activeStreams \cup uploadSenders
=============================================================================
