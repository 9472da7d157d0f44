------------------------ MODULE FetchFileSystemProofs ------------------------
(*****************************************************************************)
(* FetchBridge for any number of streams and chunks: bodies arrive whole in  *)
(* both directions and every stream leaves the registries; every stream has  *)
(* its own part of the inductive invariant.  FileSystemRuntime for any       *)
(* number of filesystems and tasks: one instance of each until it is         *)
(* deleted, and none opened after that.  They share no variable.             *)
(*****************************************************************************)
EXTENDS FetchBridge, FileSystemRuntime, TLAPS

-----------------------------------------------------------------------------
(* Streams of the fetch plugin                                             *)

PageRecord ==
  [at : {"idle", "init", "cancelling", "upload", "closing", "ended", "gone"},
   left : 0 .. MaxChunks, body : 0 .. MaxChunks, promise : {"pending", "resolved", "rejected"},
   head : BOOLEAN, reader : {"open", "closed", "errored"}, got : 0 .. MaxChunks,
   aborted : BOOLEAN, broken : BOOLEAN]
CommandRecord ==
  [init : {"none", "senders", "active", "build", "failed", "replied"},
   upload : {"none", "look", "send", "remove", "ok", "error"}, eof : BOOLEAN,
   cancel : {"none", "active", "senders", "replied", "done"}]
TaskRecord ==
  [at : {"none", "handling", "streaming", "sending", "finishing", "leaving", "done"},
   queue : 0 .. Capacity, taken : Nat, receiver : BOOLEAN, ended : BOOLEAN,
   length : 0 .. MaxChunks, sent : 0 .. MaxChunks]
Frame == {"head", "data", "error", "complete"}

\* The order of a stream's life: nothing runs before init_plugin_stream has registered it.
ControlOK(p, c, k) ==
  /\ (k.at # "none") = (c.init = "replied")
  /\ k.at = "none" => k.queue = 0 /\ k.taken = 0 /\ ~k.ended
  /\ k.at \in {"none", "handling"} => k.sent = 0 /\ k.length = 0
  /\ k.at \in {"streaming", "sending", "finishing"} => k.sent <= k.length
  /\ k.at = "sending" => k.sent < k.length
  /\ p.at = "idle" => c.init = "none" /\ ~p.aborted
  /\ p.at = "init" => c.init # "none" /\ c.cancel = "none"
  /\ p.at \in {"cancelling", "upload", "closing"} => c.init = "replied"
  /\ p.at = "ended" => c.init \in {"replied", "failed"}
  /\ c.upload # "none" => c.init = "replied"
  /\ c.cancel # "none" => c.init = "replied" /\ p.aborted

\* The chunk that an upload command carries.
Carried(c) == IF c.upload \in {"look", "send"} /\ ~c.eof THEN 1 ELSE 0

\* The request body: while nothing has stopped it, every chunk is in the page, in a
\* command, in the channel or with the handler, and the sender stays until the end
\* has been sent.
UploadOK(p, c, k, registered) ==
  /\ k.ended => ~k.receiver
  /\ c.upload \in {"send", "error"} => ~c.eof
  /\ c.upload = "remove" => c.eof
  /\ c.upload = "error" => ~k.receiver
  /\ p.at = "closing" => c.eof /\ (p.broken \/ ~k.receiver)
  /\ p.at = "upload" /\ c.upload = "none" => ~c.eof
  /\ p.at \in {"idle", "init"} => c.upload = "none" /\ ~c.eof
  /\ ~p.aborted /\ ~p.broken /\ k.receiver =>
       /\ p.left + Carried(c) + k.queue + k.taken = p.body
       /\ c.eof => p.left = 0
       /\ ~registered /\ c.init \notin {"none", "senders"} => c.eof /\ c.upload # "send"
  /\ k.ended /\ ~p.aborted /\ ~p.broken => k.taken = p.body

\* The registries: a stream leaves them with its task, and with its upload or its
\* cancellation.
RegistryOK(p, c, k, active, registered) ==
  /\ k.at = "done" => ~active
  /\ c.init = "build" => active
  /\ c.upload = "ok" /\ c.eof => ~registered
  /\ c.cancel \in {"replied", "done"} => ~registered
  /\ p.at \in {"upload", "closing", "ended"} /\ p.aborted /\ c.init = "replied" => c.cancel # "none"
  /\ p.at = "cancelling" => p.aborted /\ c.cancel # "none"
  /\ p.at = "ended" /\ c.init = "replied" /\ c.cancel = "none" => ~registered
  /\ ~active /\ k.at \in {"handling", "streaming", "sending"} => p.aborted

HeadsDue(p) == IF p.head THEN 0 ELSE 1

\* The response: what a page with an open reader has not received yet.
FramesOK(p, k, f) ==
  LET due == HeadsDue(p) + (k.sent - p.got) IN
  /\ p.got <= k.sent /\ due <= Len(f)
  /\ \A i \in DOMAIN f : /\ i <= HeadsDue(p) => f[i] = "head"
                         /\ HeadsDue(p) < i /\ i <= due => f[i] = "data"
                         /\ due < i => f[i] \in {"error", "complete"}
  /\ k.at \in {"streaming", "sending"} => Len(f) = due
  /\ k.at = "finishing" /\ ~p.aborted => Len(f) = due + 1 /\ f[due + 1] = "error"
  /\ k.at \in {"leaving", "done"} /\ ~p.aborted =>
       \/ k.sent = k.length
       \/ due < Len(f) /\ f[due + 1] = "error"

ResponseOK(p, k, f) ==
  /\ k.at \in {"none", "handling"} =>
       f = <<>> /\ ~p.head /\ p.got = 0 /\ p.reader = "open"
  /\ k.at \notin {"none", "handling"} /\ p.at # "gone" /\ p.reader = "open" => FramesOK(p, k, f)
  /\ p.reader = "closed" /\ ~p.aborted => p.got = k.length

StreamOK(p, c, k, f, active, registered) ==
  /\ p \in PageRecord /\ c \in CommandRecord /\ k \in TaskRecord /\ f \in Seq(Frame)
  /\ ControlOK(p, c, k)
  /\ UploadOK(p, c, k, registered)
  /\ RegistryOK(p, c, k, active, registered)
  /\ ResponseOK(p, k, f)

LocksOK ==
  /\ \A s \in Stream : /\ (sendersLock = InitOf(s)) = (commands[s].init = "active")
                       /\ (activeLock = CancelOf(s)) = (commands[s].cancel = "senders")
  /\ sendersLock = Free \/ \E s \in Stream : sendersLock = InitOf(s)
  /\ activeLock = Free \/ \E s \in Stream : activeLock = CancelOf(s)

FetchInv ==
  /\ DOMAIN page = Stream /\ DOMAIN commands = Stream
  /\ DOMAIN task = Stream /\ DOMAIN frames = Stream
  /\ activeStreams \subseteq Stream /\ uploadSenders \subseteq Stream
  /\ \A s \in Stream : StreamOK(page[s], commands[s], task[s], frames[s],
                                s \in activeStreams, s \in uploadSenders)
  /\ LocksOK


LEMMA FetchInitInv == FetchInit => FetchInv
<1>. SUFFICES ASSUME FetchInit PROVE FetchInv BY Zenon
<1>1. ASSUME NEW s \in Stream
      PROVE StreamOK(NoPage, NoCommands, NoTask, <<>>, s \in {}, s \in {})
  <2>1. NoPage \in PageRecord BY FetchAssumption DEF NoPage, PageRecord
  <2>2. NoCommands \in CommandRecord BY Zenon DEF NoCommands, CommandRecord
  <2>3. NoTask \in TaskRecord BY FetchAssumption DEF NoTask, TaskRecord
  <2>4. ControlOK(NoPage, NoCommands, NoTask)
    BY Zenon DEF ControlOK, NoPage, NoCommands, NoTask
  <2>5. UploadOK(NoPage, NoCommands, NoTask, s \in {})
    BY SMTT(30) DEF UploadOK, Carried, NoPage, NoCommands, NoTask
  <2>6. RegistryOK(NoPage, NoCommands, NoTask, s \in {}, s \in {})
    BY Zenon DEF RegistryOK, NoPage, NoCommands, NoTask
  <2>7. ResponseOK(NoPage, NoTask, <<>>) BY Zenon DEF ResponseOK, NoPage, NoTask
  <2>8. <<>> \in Seq(Frame) OBVIOUS
  <2>. QED BY Zenon, <2>1, <2>2, <2>3, <2>4, <2>5, <2>6, <2>7, <2>8 DEF StreamOK
<1>2. LocksOK
  <2>1. Free.by = "nobody" BY Zenon DEF Free
  <2>2. ASSUME NEW s \in Stream
        PROVE (sendersLock = InitOf(s)) = (commands[s].init = "active")
              /\ (activeLock = CancelOf(s)) = (commands[s].cancel = "senders")
    <3>1. InitOf(s).by = "init" /\ CancelOf(s).by = "cancel" BY Zenon DEF InitOf, CancelOf
    <3>2. commands[s].init = "none" /\ commands[s].cancel = "none"
      BY Zenon DEF FetchInit, NoCommands
    <3>. QED BY Zenon, <2>1, <3>1, <3>2 DEF FetchInit
  <2>. QED BY Zenon, <2>2 DEF LocksOK, FetchInit
<1>3. \A s \in Stream : /\ page[s] = NoPage /\ commands[s] = NoCommands /\ task[s] = NoTask
                        /\ frames[s] = <<>>
  BY Zenon DEF FetchInit
<1>4. /\ DOMAIN page = Stream /\ DOMAIN commands = Stream
      /\ DOMAIN task = Stream /\ DOMAIN frames = Stream
      /\ activeStreams \subseteq Stream /\ uploadSenders \subseteq Stream
  BY Zenon DEF FetchInit
<1>5. activeStreams = {} /\ uploadSenders = {} BY Zenon DEF FetchInit
<1>. QED BY Zenon, <1>1, <1>2, <1>3, <1>4, <1>5 DEF FetchInv

\* A step of the stream s leaves the others alone.
Alone(s) ==
  /\ DOMAIN page' = Stream /\ DOMAIN commands' = Stream
  /\ DOMAIN task' = Stream /\ DOMAIN frames' = Stream
  /\ activeStreams' \subseteq Stream /\ uploadSenders' \subseteq Stream
  /\ \A t \in Stream : t # s =>
       /\ page'[t] = page[t] /\ commands'[t] = commands[t]
       /\ task'[t] = task[t] /\ frames'[t] = frames[t]
       /\ t \in activeStreams' <=> t \in activeStreams
       /\ t \in uploadSenders' <=> t \in uploadSenders

LEMMA StreamStep ==
  ASSUME FetchInv, NEW s \in Stream, Alone(s), LocksOK',
         StreamOK(page'[s], commands'[s], task'[s], frames'[s],
                  s \in activeStreams', s \in uploadSenders')
  PROVE FetchInv'
<1>1. ASSUME NEW t \in Stream
      PROVE StreamOK(page'[t], commands'[t], task'[t], frames'[t],
                     t \in activeStreams', t \in uploadSenders')
  <2>1. CASE t = s BY Zenon, <2>1
  <2>2. CASE t # s
    <3>1. StreamOK(page[t], commands[t], task[t], frames[t],
                   t \in activeStreams, t \in uploadSenders)
      BY Zenon DEF FetchInv
    <3>2. /\ page'[t] = page[t] /\ commands'[t] = commands[t]
          /\ task'[t] = task[t] /\ frames'[t] = frames[t]
          /\ (t \in activeStreams') = (t \in activeStreams)
          /\ (t \in uploadSenders') = (t \in uploadSenders)
      BY SMTT(30), <2>2 DEF Alone
    <3>. QED BY Zenon, <3>1, <3>2
  <2>. QED BY Zenon, <2>1, <2>2
<1>2. /\ DOMAIN page' = Stream /\ DOMAIN commands' = Stream
      /\ DOMAIN task' = Stream /\ DOMAIN frames' = Stream
      /\ activeStreams' \subseteq Stream /\ uploadSenders' \subseteq Stream
  BY Zenon DEF Alone
<1>. QED BY Zenon, <1>1, <1>2 DEF FetchInv

LEMMA LocksKept ==
  ASSUME FetchInv, NEW s \in Stream, Alone(s), UNCHANGED locks,
         (commands'[s].init = "active") = (commands[s].init = "active"),
         (commands'[s].cancel = "senders") = (commands[s].cancel = "senders")
  PROVE LocksOK'
<1>1. sendersLock' = sendersLock /\ activeLock' = activeLock BY Zenon DEF locks
<1>2. LocksOK BY Zenon DEF FetchInv
<1>3. ASSUME NEW t \in Stream
      PROVE /\ (sendersLock' = InitOf(t)) = (commands'[t].init = "active")
            /\ (activeLock' = CancelOf(t)) = (commands'[t].cancel = "senders")
  <2>1. /\ (sendersLock = InitOf(t)) = (commands[t].init = "active")
        /\ (activeLock = CancelOf(t)) = (commands[t].cancel = "senders")
    BY Zenon, <1>2 DEF LocksOK
  <2>2. CASE t = s BY Zenon, <1>1, <2>1, <2>2
  <2>3. CASE t # s
    <3>1. commands'[t] = commands[t] BY Zenon, <2>3 DEF Alone
    <3>. QED BY Zenon, <1>1, <2>1, <3>1
  <2>. QED BY Zenon, <2>2, <2>3
<1>4. /\ sendersLock' = Free \/ \E t \in Stream : sendersLock' = InitOf(t)
      /\ activeLock' = Free \/ \E t \in Stream : activeLock' = CancelOf(t)
  BY Zenon, <1>1, <1>2 DEF LocksOK
<1>. QED BY Zenon, <1>3, <1>4 DEF LocksOK, InitOf, CancelOf, Free

LEMMA StreamOf ==
  ASSUME FetchInv, NEW s \in Stream
  PROVE StreamOK(page[s], commands[s], task[s], frames[s], s \in activeStreams, s \in uploadSenders)
BY Zenon DEF FetchInv

\* h is g with the value v for s.
Put(g, h, s, v) == DOMAIN h = Stream /\ h[s] = v /\ \A t \in Stream : t # s => h[t] = g[t]

\* A step of the page, possibly with a command.
LEMMA PageStep ==
  ASSUME FetchInv, NEW s \in Stream, NEW q, NEW d,
         Put(page, page', s, q), Put(commands, commands', s, d),
         UNCHANGED <<task, frames, registries, locks>>,
         (d.init = "active") = (commands[s].init = "active"),
         (d.cancel = "senders") = (commands[s].cancel = "senders"),
         StreamOK(q, d, task[s], frames[s], s \in activeStreams, s \in uploadSenders)
  PROVE FetchInv'
<1>1. /\ task' = task /\ frames' = frames /\ activeStreams' = activeStreams
      /\ uploadSenders' = uploadSenders /\ UNCHANGED locks
  BY Zenon DEF registries, locks
<1>2. Alone(s) BY Zenon, <1>1 DEF Alone, FetchInv, Put
<1>3. page'[s] = q /\ commands'[s] = d BY Zenon DEF Put
<1>4. LocksOK' BY Zenon, <1>1, <1>2, <1>3, LocksKept
<1>. QED BY Zenon, <1>1, <1>2, <1>3, <1>4, StreamStep

\* A step of the task, possibly with a frame.
LEMMA TaskStep ==
  ASSUME FetchInv, NEW s \in Stream, NEW k, NEW f,
         Put(task, task', s, k), Put(frames, frames', s, f),
         UNCHANGED <<page, commands, registries, locks>>,
         StreamOK(page[s], commands[s], k, f, s \in activeStreams, s \in uploadSenders)
  PROVE FetchInv'
<1>1. /\ page' = page /\ commands' = commands /\ activeStreams' = activeStreams
      /\ uploadSenders' = uploadSenders /\ UNCHANGED locks
  BY Zenon DEF registries, locks
<1>2. Alone(s) BY Zenon, <1>1 DEF Alone, FetchInv, Put
<1>3. task'[s] = k /\ frames'[s] = f BY Zenon DEF Put
<1>4. LocksOK' BY Zenon, <1>1, <1>2, LocksKept
<1>. QED BY Zenon, <1>1, <1>2, <1>3, <1>4, StreamStep

LEMMA Unput ==
  ASSUME FetchInv, NEW s \in Stream
  PROVE /\ page' = page => Put(page, page', s, page[s])
        /\ commands' = commands => Put(commands, commands', s, commands[s])
        /\ task' = task => Put(task, task', s, task[s])
        /\ frames' = frames => Put(frames, frames', s, frames[s])
BY Zenon DEF Put, FetchInv


LEMMA FetchBeginStep ==
  ASSUME FetchInv, NEW s \in Stream, Fetch(s)
  PROVE FetchInv'
<1>1. PICK p : p = page[s] BY Zenon
<1>2. PICK c : c = commands[s] BY Zenon
<1>3. PICK k : k = task[s] BY Zenon
<1>4. PICK f : f = frames[s] BY Zenon
<1>5. StreamOK(p, c, k, f, s \in activeStreams, s \in uploadSenders)
  BY Zenon, <1>1, <1>2, <1>3, <1>4, StreamOf
<1>6. p \in PageRecord /\ c \in CommandRecord /\ k \in TaskRecord /\ f \in Seq(Frame)
  BY Zenon, <1>5 DEF StreamOK
<1>7. /\ ControlOK(p, c, k) /\ UploadOK(p, c, k, s \in uploadSenders) /\ ResponseOK(p, k, f)
      /\ RegistryOK(p, c, k, s \in activeStreams, s \in uploadSenders)
  BY Zenon, <1>5 DEF StreamOK
<1>8. PICK n \in 0 .. MaxChunks :
        page' = [page EXCEPT ![s].at = "init", ![s].body = n, ![s].left = n]
  BY Zenon DEF Fetch
<1>9. PICK q : q = [p EXCEPT !.at = "init", !.body = n, !.left = n] BY Zenon
<1>10. PICK d : d = [c EXCEPT !.init = "senders"] BY Zenon
<1>11. Put(page, page', s, q) BY Zenon, <1>1, <1>8, <1>9 DEF FetchInv, Put
<1>12. Put(commands, commands', s, d) BY Zenon, <1>2, <1>10 DEF Fetch, FetchInv, Put
<1>13. /\ q \in PageRecord /\ q.at = "init" /\ q.left = n /\ q.body = n
       /\ q.head = p.head /\ q.reader = p.reader /\ q.got = p.got
       /\ q.aborted = p.aborted /\ q.broken = p.broken
  BY Zenon, <1>6, <1>9 DEF PageRecord
<1>14. /\ d \in CommandRecord /\ d.init = "senders" /\ d.upload = c.upload /\ d.eof = c.eof
       /\ d.cancel = c.cancel
  BY Zenon, <1>6, <1>10 DEF CommandRecord
<1>15. p.at = "idle" BY Zenon, <1>1 DEF Fetch
<1>16. /\ c.init = "none" /\ c.upload = "none" /\ c.cancel = "none" /\ ~c.eof /\ k.at = "none"
       /\ k.queue = 0 /\ k.taken = 0 /\ ~k.ended
  BY Zenon, <1>7, <1>15 DEF ControlOK, UploadOK
<1>17. ControlOK(q, d, k) BY Zenon, <1>7, <1>13, <1>14, <1>16 DEF ControlOK
<1>18. UploadOK(q, d, k, s \in uploadSenders)
  BY SMTT(30), <1>7, <1>13, <1>14, <1>16 DEF UploadOK, Carried
<1>19. RegistryOK(q, d, k, s \in activeStreams, s \in uploadSenders)
  BY Zenon, <1>7, <1>13, <1>14, <1>16 DEF RegistryOK
<1>20. ResponseOK(q, k, f) BY Zenon, <1>7, <1>13, <1>16 DEF ResponseOK
<1>21. StreamOK(q, d, k, f, s \in activeStreams, s \in uploadSenders)
  BY Zenon, <1>6, <1>13, <1>14, <1>17, <1>18, <1>19, <1>20 DEF StreamOK
<1>22. UNCHANGED <<task, frames, registries, locks>> BY Zenon DEF Fetch
<1>. QED BY Zenon, <1>2, <1>3, <1>4, <1>11, <1>12, <1>14, <1>16, <1>21, <1>22, PageStep

\* What the page knows of the response stays true while it receives nothing.
LEMMA ResponseKept ==
  ASSUME NEW p \in PageRecord, NEW q \in PageRecord, NEW k \in TaskRecord, NEW f \in Seq(Frame),
         ResponseOK(p, k, f), q.head = p.head, q.got = p.got, p.aborted => q.aborted,
         q.reader = p.reader \/ (p.head /\ q.reader = "errored"), q.at # "gone" => p.at # "gone"
  PROVE ResponseOK(q, k, f)
<1>1. HeadsDue(q) = HeadsDue(p) BY Zenon DEF HeadsDue
<1>2. FramesOK(p, k, f) => FramesOK(q, k, f) BY Zenon, <1>1 DEF FramesOK
<1>3. /\ k.at \in {"none", "handling"} =>
           f = <<>> /\ ~q.head /\ q.got = 0 /\ q.reader = "open"
      /\ q.reader = "closed" /\ ~q.aborted => q.got = k.length
  BY Zenon DEF ResponseOK
<1>4. k.at \notin {"none", "handling"} /\ q.at # "gone" /\ q.reader = "open" => FramesOK(q, k, f)
  BY Zenon, <1>2 DEF ResponseOK
<1>. QED BY Zenon, <1>3, <1>4 DEF ResponseOK

LEMMA RefusedIs ==
  ASSUME NEW p \in PageRecord, NEW q, q = Refused(p) \/ q = Rejected(p)
  PROVE /\ q \in PageRecord /\ q.at = p.at /\ q.left = p.left /\ q.body = p.body
        /\ q.head = p.head /\ q.got = p.got /\ q.aborted = p.aborted /\ q.broken = p.broken
        /\ q.reader = p.reader \/ (p.head /\ q.reader = "errored")
<1>1. CASE q = p BY Zenon, <1>1
<1>2. CASE p.head /\ q = [p EXCEPT !.reader = IF p.reader = "open" THEN "errored" ELSE p.reader]
  <2>1. PICK r \in {"open", "closed", "errored"} :
          r = IF p.reader = "open" THEN "errored" ELSE p.reader
    BY Zenon DEF PageRecord
  <2>2. r = p.reader \/ r = "errored" BY Zenon, <2>1
  <2>3. q = [p EXCEPT !.reader = r] BY Zenon, <1>2, <2>1
  <2>4. q \in PageRecord /\ q.reader = r BY Zenon, <2>3 DEF PageRecord
  <2>5. /\ q.at = p.at /\ q.left = p.left /\ q.body = p.body
        /\ q.head = p.head /\ q.got = p.got /\ q.aborted = p.aborted /\ q.broken = p.broken
    BY Zenon, <2>3 DEF PageRecord
  <2>. QED BY Zenon, <1>2, <2>2, <2>4, <2>5
<1>3. CASE ~p.head /\ q = [p EXCEPT !.promise = IF p.promise = "pending" THEN "rejected"
                                                                          ELSE p.promise]
  <2>1. PICK r \in {"pending", "resolved", "rejected"} :
          r = IF p.promise = "pending" THEN "rejected" ELSE p.promise
    BY Zenon DEF PageRecord
  <2>2. q = [p EXCEPT !.promise = r] BY Zenon, <1>3, <2>1
  <2>3. q \in PageRecord BY Zenon, <2>2 DEF PageRecord
  <2>4. /\ q.at = p.at /\ q.left = p.left /\ q.body = p.body /\ q.reader = p.reader
        /\ q.head = p.head /\ q.got = p.got /\ q.aborted = p.aborted /\ q.broken = p.broken
    BY Zenon, <2>2 DEF PageRecord
  <2>. QED BY Zenon, <2>3, <2>4
<1>. QED BY Zenon, <1>1, <1>2, <1>3 DEF Refused, Rejected

LEMMA AbortStep ==
  ASSUME FetchInv, NEW s \in Stream, Abort(s)
  PROVE FetchInv'
<1>1. PICK p : p = page[s] BY Zenon
<1>2. PICK c : c = commands[s] BY Zenon
<1>3. PICK k : k = task[s] BY Zenon
<1>4. PICK f : f = frames[s] BY Zenon
<1>5. StreamOK(p, c, k, f, s \in activeStreams, s \in uploadSenders)
  BY Zenon, <1>1, <1>2, <1>3, <1>4, StreamOf
<1>6. p \in PageRecord /\ c \in CommandRecord /\ k \in TaskRecord /\ f \in Seq(Frame)
  BY Zenon, <1>5 DEF StreamOK
<1>7. /\ ControlOK(p, c, k) /\ UploadOK(p, c, k, s \in uploadSenders) /\ ResponseOK(p, k, f)
      /\ RegistryOK(p, c, k, s \in activeStreams, s \in uploadSenders)
  BY Zenon, <1>5 DEF StreamOK
<1>8. /\ p.at \notin {"idle", "gone"} /\ ~p.aborted
      /\ UNCHANGED <<task, frames, registries, locks>>
  BY Zenon, <1>1 DEF Abort
<1>9. c.cancel = "none" BY Zenon, <1>7, <1>8 DEF ControlOK
<1>10. CASE Registered(s)
  <2>1. PICK q : q = [p EXCEPT !.aborted = TRUE] BY Zenon
  <2>2. PICK d : d = [c EXCEPT !.cancel = "active"] BY Zenon
  <2>3. Put(page, page', s, q) BY Zenon, <1>1, <1>10, <2>1 DEF Abort, FetchInv, Put
  <2>4. Put(commands, commands', s, d) BY Zenon, <1>2, <1>10, <2>2 DEF Abort, FetchInv, Put
  <2>5. /\ q \in PageRecord /\ q.at = p.at /\ q.left = p.left /\ q.body = p.body
        /\ q.head = p.head /\ q.reader = p.reader /\ q.got = p.got /\ q.broken = p.broken
        /\ q.aborted
    BY Zenon, <1>6, <2>1 DEF PageRecord
  <2>6. /\ d \in CommandRecord /\ d.init = c.init /\ d.upload = c.upload /\ d.eof = c.eof
        /\ d.cancel = "active"
    BY Zenon, <1>6, <2>2 DEF CommandRecord
  <2>7. c.init = "replied" /\ p.at # "init" BY Zenon, <1>1, <1>2, <1>10 DEF Registered
  <2>8. ControlOK(q, d, k) BY Zenon, <1>7, <1>8, <2>5, <2>6, <2>7 DEF ControlOK
  <2>9. UploadOK(q, d, k, s \in uploadSenders) BY Zenon, <1>7, <2>5, <2>6 DEF UploadOK
  <2>10. RegistryOK(q, d, k, s \in activeStreams, s \in uploadSenders)
    BY Zenon, <1>7, <1>9, <2>5, <2>6 DEF RegistryOK
  <2>11. ResponseOK(q, k, f) BY Zenon, <1>6, <1>7, <2>5, ResponseKept
  <2>12. StreamOK(q, d, k, f, s \in activeStreams, s \in uploadSenders)
    BY Zenon, <1>6, <2>5, <2>6, <2>8, <2>9, <2>10, <2>11 DEF StreamOK
  <2>. QED BY Zenon, <1>2, <1>3, <1>4, <1>8, <1>9, <2>3, <2>4, <2>6, <2>12, PageStep
<1>11. CASE ~Registered(s)
  <2>1. PICK r : r = Refused(p) BY Zenon
  <2>2. PICK q : q = [r EXCEPT !.aborted = TRUE] BY Zenon
  <2>3. Put(page, page', s, q) BY Zenon, <1>1, <1>11, <2>1, <2>2 DEF Abort, FetchInv, Put
  <2>4. Put(commands, commands', s, c) BY Zenon, <1>2, <1>11, Unput DEF Abort
  <2>5. /\ r \in PageRecord /\ r.at = p.at /\ r.left = p.left /\ r.body = p.body
        /\ r.head = p.head /\ r.got = p.got /\ r.broken = p.broken
        /\ r.reader = p.reader \/ (p.head /\ r.reader = "errored")
    BY Zenon, <1>6, <2>1, RefusedIs
  <2>6. /\ q \in PageRecord /\ q.at = r.at /\ q.left = r.left /\ q.body = r.body
        /\ q.head = r.head /\ q.reader = r.reader /\ q.got = r.got /\ q.broken = r.broken
        /\ q.aborted
    BY Zenon, <2>2, <2>5 DEF PageRecord
  <2>7. ~(p.at \in {"cancelling", "upload", "closing", "ended"} /\ c.init = "replied")
    BY Zenon, <1>1, <1>2, <1>11 DEF Registered
  <2>8. ControlOK(q, c, k) BY Zenon, <1>7, <1>8, <2>5, <2>6 DEF ControlOK
  <2>9. UploadOK(q, c, k, s \in uploadSenders) BY Zenon, <1>7, <2>5, <2>6 DEF UploadOK
  <2>10. RegistryOK(q, c, k, s \in activeStreams, s \in uploadSenders)
    BY Zenon, <1>7, <1>9, <2>5, <2>6, <2>7 DEF RegistryOK, ControlOK
  <2>11. ResponseOK(q, k, f) BY Zenon, <1>6, <1>7, <2>5, <2>6, ResponseKept
  <2>12. StreamOK(q, c, k, f, s \in activeStreams, s \in uploadSenders)
    BY Zenon, <1>6, <2>6, <2>8, <2>9, <2>10, <2>11 DEF StreamOK
  <2>. QED BY Zenon, <1>2, <1>3, <1>4, <1>8, <2>3, <2>4, <2>12, PageStep
<1>. QED BY Zenon, <1>10, <1>11

LEMMA InitAnsweredStep ==
  ASSUME FetchInv, NEW s \in Stream, InitAnswered(s)
  PROVE FetchInv'
<1>1. PICK p : p = page[s] BY Zenon
<1>2. PICK c : c = commands[s] BY Zenon
<1>3. PICK k : k = task[s] BY Zenon
<1>4. PICK f : f = frames[s] BY Zenon
<1>5. StreamOK(p, c, k, f, s \in activeStreams, s \in uploadSenders)
  BY Zenon, <1>1, <1>2, <1>3, <1>4, StreamOf
<1>6. p \in PageRecord /\ c \in CommandRecord /\ k \in TaskRecord /\ f \in Seq(Frame)
  BY Zenon, <1>5 DEF StreamOK
<1>7. /\ ControlOK(p, c, k) /\ UploadOK(p, c, k, s \in uploadSenders) /\ ResponseOK(p, k, f)
      /\ RegistryOK(p, c, k, s \in activeStreams, s \in uploadSenders)
  BY Zenon, <1>5 DEF StreamOK
<1>8. p.at = "init" /\ UNCHANGED <<task, frames, registries, locks>>
  BY Zenon, <1>1 DEF InitAnswered
<1>9. c.upload = "none" /\ ~c.eof BY Zenon, <1>7, <1>8 DEF UploadOK
<1>10. CASE /\ c.init = "failed"
            /\ page' = [page EXCEPT ![s] = [Rejected(@) EXCEPT !.at = "ended"]]
            /\ commands' = commands
  <2>1. PICK r : r = Rejected(p) BY Zenon
  <2>2. PICK q : q = [r EXCEPT !.at = "ended"] BY Zenon
  <2>3. Put(page, page', s, q) BY Zenon, <1>1, <1>10, <2>1, <2>2 DEF FetchInv, Put
  <2>4. Put(commands, commands', s, c) BY Zenon, <1>2, <1>10, Unput
  <2>5. /\ r \in PageRecord /\ r.left = p.left /\ r.body = p.body
        /\ r.head = p.head /\ r.got = p.got /\ r.aborted = p.aborted /\ r.broken = p.broken
        /\ r.reader = p.reader \/ (p.head /\ r.reader = "errored")
    BY Zenon, <1>6, <2>1, RefusedIs
  <2>6. /\ q \in PageRecord /\ q.at = "ended" /\ q.left = r.left /\ q.body = r.body
        /\ q.head = r.head /\ q.reader = r.reader /\ q.got = r.got /\ q.broken = r.broken
        /\ q.aborted = r.aborted
    BY Zenon, <2>2, <2>5 DEF PageRecord
  <2>7. ControlOK(q, c, k) BY Zenon, <1>7, <1>10, <2>5, <2>6 DEF ControlOK
  <2>8. UploadOK(q, c, k, s \in uploadSenders) BY Zenon, <1>7, <1>9, <2>5, <2>6 DEF UploadOK
  <2>9. RegistryOK(q, c, k, s \in activeStreams, s \in uploadSenders)
    BY Zenon, <1>7, <1>10, <2>5, <2>6 DEF RegistryOK
  <2>10. ResponseOK(q, k, f) BY Zenon, <1>6, <1>7, <1>8, <2>5, <2>6, ResponseKept
  <2>11. StreamOK(q, c, k, f, s \in activeStreams, s \in uploadSenders)
    BY Zenon, <1>6, <2>6, <2>7, <2>8, <2>9, <2>10 DEF StreamOK
  <2>. QED BY Zenon, <1>2, <1>3, <1>4, <1>8, <2>3, <2>4, <2>11, PageStep
<1>11. CASE /\ c.init = "replied" /\ p.aborted
            /\ page' = [page EXCEPT ![s].at = "cancelling"]
            /\ commands' = [commands EXCEPT ![s].cancel = "active"]
  <2>1. PICK q : q = [p EXCEPT !.at = "cancelling"] BY Zenon
  <2>2. PICK d : d = [c EXCEPT !.cancel = "active"] BY Zenon
  <2>3. Put(page, page', s, q) BY Zenon, <1>1, <1>11, <2>1 DEF FetchInv, Put
  <2>4. Put(commands, commands', s, d) BY Zenon, <1>2, <1>11, <2>2 DEF FetchInv, Put
  <2>5. /\ q \in PageRecord /\ q.at = "cancelling" /\ q.left = p.left /\ q.body = p.body
        /\ q.head = p.head /\ q.reader = p.reader /\ q.got = p.got /\ q.broken = p.broken
        /\ q.aborted = p.aborted
    BY Zenon, <1>6, <2>1 DEF PageRecord
  <2>6. /\ d \in CommandRecord /\ d.init = c.init /\ d.upload = c.upload /\ d.eof = c.eof
        /\ d.cancel = "active"
    BY Zenon, <1>6, <2>2 DEF CommandRecord
  <2>7. ControlOK(q, d, k) BY Zenon, <1>7, <1>11, <2>5, <2>6 DEF ControlOK
  <2>8. UploadOK(q, d, k, s \in uploadSenders)
    BY Zenon, <1>7, <1>9, <1>11, <2>5, <2>6 DEF UploadOK
  <2>9. RegistryOK(q, d, k, s \in activeStreams, s \in uploadSenders)
    BY Zenon, <1>7, <1>9, <1>11, <2>5, <2>6 DEF RegistryOK
  <2>10. ResponseOK(q, k, f) BY Zenon, <1>6, <1>7, <1>8, <2>5, ResponseKept
  <2>11. StreamOK(q, d, k, f, s \in activeStreams, s \in uploadSenders)
    BY Zenon, <1>6, <2>5, <2>6, <2>7, <2>8, <2>9, <2>10 DEF StreamOK
  <2>12. c.cancel # "senders"
    BY Zenon, <1>7, <1>8 DEF ControlOK
  <2>. QED BY Zenon, <1>2, <1>3, <1>4, <1>8, <2>3, <2>4, <2>6, <2>11, <2>12, PageStep
<1>12. CASE /\ c.init = "replied" /\ ~p.aborted
            /\ page' = [page EXCEPT ![s].at = "upload"] /\ commands' = commands
  <2>1. PICK q : q = [p EXCEPT !.at = "upload"] BY Zenon
  <2>2. Put(page, page', s, q) BY Zenon, <1>1, <1>12, <2>1 DEF FetchInv, Put
  <2>3. Put(commands, commands', s, c) BY Zenon, <1>2, <1>12, Unput
  <2>4. /\ q \in PageRecord /\ q.at = "upload" /\ q.left = p.left /\ q.body = p.body
        /\ q.head = p.head /\ q.reader = p.reader /\ q.got = p.got /\ q.broken = p.broken
        /\ q.aborted = p.aborted
    BY Zenon, <1>6, <2>1 DEF PageRecord
  <2>5. ControlOK(q, c, k) BY Zenon, <1>7, <1>12, <2>4 DEF ControlOK
  <2>6. UploadOK(q, c, k, s \in uploadSenders) BY Zenon, <1>7, <1>9, <2>4 DEF UploadOK
  <2>7. RegistryOK(q, c, k, s \in activeStreams, s \in uploadSenders)
    BY Zenon, <1>7, <1>12, <2>4 DEF RegistryOK
  <2>8. ResponseOK(q, k, f) BY Zenon, <1>6, <1>7, <1>8, <2>4, ResponseKept
  <2>9. StreamOK(q, c, k, f, s \in activeStreams, s \in uploadSenders)
    BY Zenon, <1>6, <2>4, <2>5, <2>6, <2>7, <2>8 DEF StreamOK
  <2>. QED BY Zenon, <1>2, <1>3, <1>4, <1>8, <2>2, <2>3, <2>9, PageStep
<1>. QED BY Zenon, <1>1, <1>2, <1>10, <1>11, <1>12 DEF InitAnswered

LEMMA UploadNextStep ==
  ASSUME FetchInv, NEW s \in Stream, UploadNext(s)
  PROVE FetchInv'
<1>1. PICK p : p = page[s] BY Zenon
<1>2. PICK c : c = commands[s] BY Zenon
<1>3. PICK k : k = task[s] BY Zenon
<1>4. PICK f : f = frames[s] BY Zenon
<1>5. StreamOK(p, c, k, f, s \in activeStreams, s \in uploadSenders)
  BY Zenon, <1>1, <1>2, <1>3, <1>4, StreamOf
<1>6. p \in PageRecord /\ c \in CommandRecord /\ k \in TaskRecord /\ f \in Seq(Frame)
  BY Zenon, <1>5 DEF StreamOK
<1>7. /\ ControlOK(p, c, k) /\ UploadOK(p, c, k, s \in uploadSenders) /\ ResponseOK(p, k, f)
      /\ RegistryOK(p, c, k, s \in activeStreams, s \in uploadSenders)
  BY Zenon, <1>5 DEF StreamOK
<1>8. /\ p.at = "upload" /\ c.upload = "none"
      /\ UNCHANGED <<task, frames, registries, locks>>
  BY Zenon, <1>1, <1>2 DEF UploadNext
<1>9. c.init = "replied" /\ ~c.eof BY Zenon, <1>7, <1>8 DEF ControlOK, UploadOK
<1>10. CASE /\ p.left > 0 /\ page' = [page EXCEPT ![s].left = @ - 1]
            /\ commands' = [commands EXCEPT ![s].upload = "look", ![s].eof = FALSE]
  <2>1. PICK n \in 0 .. MaxChunks : n = p.left - 1
    BY <1>6, <1>10, FetchAssumption DEF PageRecord
  <2>2. PICK q : q = [p EXCEPT !.left = n] BY Zenon
  <2>3. PICK d : d = [c EXCEPT !.upload = "look", !.eof = FALSE] BY Zenon
  <2>4. Put(page, page', s, q) BY Zenon, <1>1, <1>10, <2>1, <2>2 DEF FetchInv, Put
  <2>5. Put(commands, commands', s, d) BY Zenon, <1>2, <1>10, <2>3 DEF FetchInv, Put
  <2>6. /\ q \in PageRecord /\ q.at = p.at /\ q.left = n /\ q.body = p.body
        /\ q.head = p.head /\ q.reader = p.reader /\ q.got = p.got /\ q.broken = p.broken
        /\ q.aborted = p.aborted
    BY Zenon, <1>6, <2>2 DEF PageRecord
  <2>7. /\ d \in CommandRecord /\ d.init = c.init /\ d.upload = "look" /\ d.cancel = c.cancel
        /\ ~d.eof
    BY Zenon, <1>6, <2>3 DEF CommandRecord
  <2>8. ControlOK(q, d, k) BY Zenon, <1>7, <1>9, <2>6, <2>7 DEF ControlOK
  <2>9. p.left = n + 1 BY <1>6, <1>10, <2>1 DEF PageRecord
  <2>10. Carried(c) = 0 /\ Carried(d) = 1 BY Zenon, <1>8, <2>7 DEF Carried
  <2>11. UploadOK(q, d, k, s \in uploadSenders)
    <3>1. ~p.aborted /\ ~p.broken /\ k.receiver =>
            /\ n + Carried(d) + k.queue + k.taken = p.body
            /\ s \in uploadSenders
      BY SMTT(30), <1>6, <1>7, <1>8, <1>9, <2>9, <2>10 DEF UploadOK, TaskRecord
    <3>. QED BY Zenon, <1>7, <1>8, <2>6, <2>7, <3>1 DEF UploadOK
  <2>12. RegistryOK(q, d, k, s \in activeStreams, s \in uploadSenders)
    BY Zenon, <1>7, <2>6, <2>7 DEF RegistryOK
  <2>13. ResponseOK(q, k, f) BY Zenon, <1>6, <1>7, <2>6, ResponseKept
  <2>14. StreamOK(q, d, k, f, s \in activeStreams, s \in uploadSenders)
    BY Zenon, <1>6, <2>6, <2>7, <2>8, <2>11, <2>12, <2>13 DEF StreamOK
  <2>. QED BY Zenon, <1>2, <1>3, <1>4, <1>8, <2>4, <2>5, <2>7, <2>14, PageStep
<1>11. CASE /\ \/ p.left = 0 /\ page' = page
               \/ page' = [page EXCEPT ![s].at = "closing", ![s].broken = TRUE]
            /\ commands' = [commands EXCEPT ![s].upload = "look", ![s].eof = TRUE]
  <2>1. PICK q : /\ Put(page, page', s, q)
                 /\ \/ p.left = 0 /\ q = p
                    \/ q = [p EXCEPT !.at = "closing", !.broken = TRUE]
    <3>1. CASE p.left = 0 /\ page' = page BY Zenon, <1>1, <3>1, Unput
    <3>2. CASE page' = [page EXCEPT ![s].at = "closing", ![s].broken = TRUE]
      <4>1. Put(page, page', s, [p EXCEPT !.at = "closing", !.broken = TRUE])
        BY Zenon, <1>1, <3>2 DEF FetchInv, Put
      <4>. QED BY Zenon, <4>1
    <3>. QED BY Zenon, <1>11, <3>1, <3>2
  <2>2. PICK d : d = [c EXCEPT !.upload = "look", !.eof = TRUE] BY Zenon
  <2>3. Put(commands, commands', s, d) BY Zenon, <1>2, <1>11, <2>2 DEF FetchInv, Put
  <2>4. /\ q \in PageRecord /\ q.left = p.left /\ q.body = p.body
        /\ q.head = p.head /\ q.reader = p.reader /\ q.got = p.got /\ q.aborted = p.aborted
    BY Zenon, <1>6, <2>1 DEF PageRecord
  <2>5. \/ q.at = "upload" /\ q.broken = p.broken /\ p.left = 0
        \/ q.at = "closing" /\ q.broken
    BY Zenon, <1>6, <1>8, <2>1 DEF PageRecord
  <2>6. /\ d \in CommandRecord /\ d.init = c.init /\ d.upload = "look" /\ d.cancel = c.cancel
        /\ d.eof
    BY Zenon, <1>6, <2>2 DEF CommandRecord
  <2>7. ControlOK(q, d, k) BY Zenon, <1>7, <1>9, <2>4, <2>5, <2>6 DEF ControlOK
  <2>8. Carried(c) = 0 /\ Carried(d) = 0 BY Zenon, <1>8, <2>6 DEF Carried
  <2>9. UploadOK(q, d, k, s \in uploadSenders)
    <3>1. ~q.aborted /\ ~q.broken /\ k.receiver =>
            p.left + Carried(d) + k.queue + k.taken = p.body
      BY Zenon, <1>7, <2>4, <2>5, <2>8 DEF UploadOK
    <3>. QED BY Zenon, <1>7, <2>4, <2>5, <2>6, <3>1 DEF UploadOK
  <2>10. RegistryOK(q, d, k, s \in activeStreams, s \in uploadSenders)
    BY Zenon, <1>7, <1>8, <2>4, <2>5, <2>6 DEF RegistryOK
  <2>11. ResponseOK(q, k, f) BY Zenon, <1>6, <1>7, <1>8, <2>4, ResponseKept
  <2>12. StreamOK(q, d, k, f, s \in activeStreams, s \in uploadSenders)
    BY Zenon, <1>6, <2>4, <2>6, <2>7, <2>9, <2>10, <2>11 DEF StreamOK
  <2>. QED BY Zenon, <1>2, <1>3, <1>4, <1>8, <2>1, <2>3, <2>6, <2>12, PageStep
<1>. QED BY Zenon, <1>1, <1>2, <1>10, <1>11 DEF UploadNext

LEMMA UploadAnsweredStep ==
  ASSUME FetchInv, NEW s \in Stream, UploadAnswered(s)
  PROVE FetchInv'
<1>1. PICK p : p = page[s] BY Zenon
<1>2. PICK c : c = commands[s] BY Zenon
<1>3. PICK k : k = task[s] BY Zenon
<1>4. PICK f : f = frames[s] BY Zenon
<1>5. StreamOK(p, c, k, f, s \in activeStreams, s \in uploadSenders)
  BY Zenon, <1>1, <1>2, <1>3, <1>4, StreamOf
<1>6. p \in PageRecord /\ c \in CommandRecord /\ k \in TaskRecord /\ f \in Seq(Frame)
  BY Zenon, <1>5 DEF StreamOK
<1>7. /\ ControlOK(p, c, k) /\ UploadOK(p, c, k, s \in uploadSenders) /\ ResponseOK(p, k, f)
      /\ RegistryOK(p, c, k, s \in activeStreams, s \in uploadSenders)
  BY Zenon, <1>5 DEF StreamOK
<1>8. /\ p.at \in {"upload", "closing"} /\ c.upload \in {"ok", "error"}
      /\ UNCHANGED <<task, frames, registries, locks>>
  BY Zenon, <1>1, <1>2 DEF UploadAnswered
<1>9. c.init = "replied" BY Zenon, <1>7, <1>8 DEF ControlOK
<1>10. CASE p.at = "upload" /\ c.upload = "error"
  <2>1. PICK q : q = [p EXCEPT !.at = "closing"] BY Zenon
  <2>2. PICK d : d = [c EXCEPT !.upload = "look", !.eof = TRUE] BY Zenon
  <2>3. Put(page, page', s, q)
    BY Zenon, <1>1, <1>2, <1>10, <2>1 DEF UploadAnswered, FetchInv, Put
  <2>4. Put(commands, commands', s, d)
    BY Zenon, <1>1, <1>2, <1>10, <2>2 DEF UploadAnswered, FetchInv, Put
  <2>5. /\ q \in PageRecord /\ q.at = "closing" /\ q.left = p.left /\ q.body = p.body
        /\ q.head = p.head /\ q.reader = p.reader /\ q.got = p.got /\ q.broken = p.broken
        /\ q.aborted = p.aborted
    BY Zenon, <1>6, <2>1 DEF PageRecord
  <2>6. /\ d \in CommandRecord /\ d.init = c.init /\ d.upload = "look" /\ d.cancel = c.cancel
        /\ d.eof
    BY Zenon, <1>6, <2>2 DEF CommandRecord
  <2>7. ~k.receiver BY Zenon, <1>7, <1>10 DEF UploadOK
  <2>8. ControlOK(q, d, k) BY Zenon, <1>7, <1>9, <1>10, <2>5, <2>6 DEF ControlOK
  <2>9. UploadOK(q, d, k, s \in uploadSenders) BY Zenon, <1>7, <2>5, <2>6, <2>7 DEF UploadOK
  <2>10. RegistryOK(q, d, k, s \in activeStreams, s \in uploadSenders)
    BY Zenon, <1>7, <1>10, <2>5, <2>6 DEF RegistryOK
  <2>11. ResponseOK(q, k, f) BY Zenon, <1>6, <1>7, <1>8, <2>5, ResponseKept
  <2>12. StreamOK(q, d, k, f, s \in activeStreams, s \in uploadSenders)
    BY Zenon, <1>6, <2>5, <2>6, <2>8, <2>9, <2>10, <2>11 DEF StreamOK
  <2>. QED BY Zenon, <1>2, <1>3, <1>4, <1>8, <2>3, <2>4, <2>6, <2>12, PageStep
<1>11. CASE ~(p.at = "upload" /\ c.upload = "error")
  <2>1. PICK a \in {"ended", "upload"} : /\ a = IF c.eof \/ p.aborted THEN "ended" ELSE "upload"
                                         /\ (a = "ended") = (c.eof \/ p.aborted)
    BY Zenon
  <2>2. PICK q : q = [p EXCEPT !.at = a] BY Zenon
  <2>3. PICK d : d = [c EXCEPT !.upload = "none"] BY Zenon
  <2>4. Put(page, page', s, q)
    BY Zenon, <1>1, <1>2, <1>11, <2>1, <2>2 DEF UploadAnswered, FetchInv, Put
  <2>5. Put(commands, commands', s, d)
    BY Zenon, <1>1, <1>2, <1>11, <2>3 DEF UploadAnswered, FetchInv, Put
  <2>6. /\ q \in PageRecord /\ q.at = a /\ q.left = p.left /\ q.body = p.body
        /\ q.head = p.head /\ q.reader = p.reader /\ q.got = p.got /\ q.broken = p.broken
        /\ q.aborted = p.aborted
    BY Zenon, <1>6, <2>2 DEF PageRecord
  <2>7. /\ d \in CommandRecord /\ d.init = c.init /\ d.upload = "none" /\ d.cancel = c.cancel
        /\ d.eof = c.eof
    BY Zenon, <1>6, <2>3 DEF CommandRecord
  <2>8. c.upload = "ok" BY Zenon, <1>7, <1>8, <1>11 DEF UploadOK
  <2>9. ControlOK(q, d, k) BY Zenon, <1>7, <1>9, <2>1, <2>6, <2>7 DEF ControlOK
  <2>10. Carried(d) = Carried(c) BY Zenon, <2>7, <2>8 DEF Carried
  <2>11. UploadOK(q, d, k, s \in uploadSenders)
    BY Zenon, <1>7, <2>1, <2>6, <2>7, <2>8, <2>10 DEF UploadOK
  <2>12. RegistryOK(q, d, k, s \in activeStreams, s \in uploadSenders)
    BY Zenon, <1>7, <1>8, <1>9, <2>1, <2>6, <2>7, <2>8 DEF RegistryOK
  <2>13. ResponseOK(q, k, f) BY Zenon, <1>6, <1>7, <1>8, <2>6, ResponseKept
  <2>14. StreamOK(q, d, k, f, s \in activeStreams, s \in uploadSenders)
    BY Zenon, <1>6, <2>6, <2>7, <2>9, <2>11, <2>12, <2>13 DEF StreamOK
  <2>. QED BY Zenon, <1>2, <1>3, <1>4, <1>8, <2>4, <2>5, <2>7, <2>14, PageStep
<1>. QED BY Zenon, <1>10, <1>11

LEMMA CancelAnsweredStep ==
  ASSUME FetchInv, NEW s \in Stream, CancelAnswered(s)
  PROVE FetchInv'
<1>1. PICK p : p = page[s] BY Zenon
<1>2. PICK c : c = commands[s] BY Zenon
<1>3. PICK k : k = task[s] BY Zenon
<1>4. PICK f : f = frames[s] BY Zenon
<1>5. StreamOK(p, c, k, f, s \in activeStreams, s \in uploadSenders)
  BY Zenon, <1>1, <1>2, <1>3, <1>4, StreamOf
<1>6. p \in PageRecord /\ c \in CommandRecord /\ k \in TaskRecord /\ f \in Seq(Frame)
  BY Zenon, <1>5 DEF StreamOK
<1>7. /\ ControlOK(p, c, k) /\ UploadOK(p, c, k, s \in uploadSenders) /\ ResponseOK(p, k, f)
      /\ RegistryOK(p, c, k, s \in activeStreams, s \in uploadSenders)
  BY Zenon, <1>5 DEF StreamOK
<1>8. /\ p.at # "gone" /\ c.cancel = "replied"
      /\ UNCHANGED <<task, frames, registries, locks>>
  BY Zenon, <1>1, <1>2 DEF CancelAnswered
<1>9. p.aborted /\ c.init = "replied" BY Zenon, <1>7, <1>8 DEF ControlOK
<1>10. PICK q : /\ Put(page, page', s, q)
                /\ \/ p.at = "cancelling" /\ q = [Rejected(p) EXCEPT !.at = "ended"]
                   \/ p.at # "cancelling" /\ q = Refused(p)
  <2>1. PICK q : q = IF p.at = "cancelling" THEN [Rejected(p) EXCEPT !.at = "ended"] ELSE Refused(p)
    BY Zenon
  <2>2. Put(page, page', s, q) BY Zenon, <1>1, <2>1 DEF CancelAnswered, FetchInv, Put
  <2>. QED BY Zenon, <2>1, <2>2
<1>11. /\ q \in PageRecord /\ q.left = p.left /\ q.body = p.body
       /\ q.head = p.head /\ q.got = p.got /\ q.broken = p.broken /\ q.aborted = p.aborted
       /\ q.reader = p.reader \/ (p.head /\ q.reader = "errored")
       /\ (p.at = "cancelling" /\ q.at = "ended") \/ (p.at # "cancelling" /\ q.at = p.at)
  <2>1. CASE p.at = "cancelling" /\ q = [Rejected(p) EXCEPT !.at = "ended"]
    <3>1. PICK r : r = Rejected(p) BY Zenon
    <3>2. /\ r \in PageRecord /\ r.left = p.left /\ r.body = p.body
          /\ r.head = p.head /\ r.got = p.got /\ r.aborted = p.aborted /\ r.broken = p.broken
          /\ r.reader = p.reader \/ (p.head /\ r.reader = "errored")
      BY Zenon, <1>6, <3>1, RefusedIs
    <3>3. /\ q \in PageRecord /\ q.at = "ended" /\ q.left = r.left /\ q.body = r.body
          /\ q.head = r.head /\ q.reader = r.reader /\ q.got = r.got /\ q.broken = r.broken
          /\ q.aborted = r.aborted
      BY Zenon, <2>1, <3>1, <3>2 DEF PageRecord
    <3>. QED BY Zenon, <2>1, <3>2, <3>3
  <2>2. CASE p.at # "cancelling" /\ q = Refused(p) BY <1>6, <2>2, RefusedIs
  <2>. QED BY Zenon, <1>10, <2>1, <2>2
<1>12. PICK d : d = [c EXCEPT !.cancel = "done"] BY Zenon
<1>13. Put(commands, commands', s, d) BY Zenon, <1>2, <1>12 DEF CancelAnswered, FetchInv, Put
<1>14. /\ d \in CommandRecord /\ d.init = c.init /\ d.upload = c.upload /\ d.cancel = "done"
       /\ d.eof = c.eof
  BY Zenon, <1>6, <1>12 DEF CommandRecord
<1>15. ControlOK(q, d, k) BY Zenon, <1>7, <1>8, <1>9, <1>11, <1>14 DEF ControlOK
<1>16. UploadOK(q, d, k, s \in uploadSenders) BY Zenon, <1>7, <1>9, <1>11, <1>14 DEF UploadOK
<1>17. RegistryOK(q, d, k, s \in activeStreams, s \in uploadSenders)
  BY Zenon, <1>7, <1>8, <1>9, <1>11, <1>14 DEF RegistryOK
<1>18. ResponseOK(q, k, f) BY Zenon, <1>6, <1>7, <1>8, <1>11, ResponseKept
<1>19. StreamOK(q, d, k, f, s \in activeStreams, s \in uploadSenders)
  BY Zenon, <1>6, <1>11, <1>14, <1>15, <1>16, <1>17, <1>18 DEF StreamOK
<1>. QED BY Zenon, <1>2, <1>3, <1>4, <1>8, <1>10, <1>13, <1>14, <1>19, PageStep

\* A step of the page and its channel.
LEMMA ChannelStep ==
  ASSUME FetchInv, NEW s \in Stream, NEW q, NEW f,
         Put(page, page', s, q), Put(frames, frames', s, f),
         UNCHANGED <<commands, task, registries, locks>>,
         StreamOK(q, commands[s], task[s], f, s \in activeStreams, s \in uploadSenders)
  PROVE FetchInv'
<1>1. /\ task' = task /\ commands' = commands /\ activeStreams' = activeStreams
      /\ uploadSenders' = uploadSenders /\ UNCHANGED locks
  BY Zenon DEF registries, locks
<1>2. Alone(s) BY Zenon, <1>1 DEF Alone, FetchInv, Put
<1>3. page'[s] = q /\ frames'[s] = f BY Zenon DEF Put
<1>4. LocksOK' BY Zenon, <1>1, <1>2, LocksKept
<1>. QED BY Zenon, <1>1, <1>2, <1>3, <1>4, StreamStep

LEMMA TailIs ==
  ASSUME NEW f \in Seq(Frame), f # <<>>
  PROVE /\ Tail(f) \in Seq(Frame) /\ Len(f) \in Nat /\ 1 <= Len(f) /\ Len(Tail(f)) = Len(f) - 1
        /\ Head(f) = f[1] /\ f[1] \in Frame /\ 1 \in DOMAIN f
        /\ \A i \in DOMAIN Tail(f) : i \in Nat /\ i + 1 \in DOMAIN f /\ Tail(f)[i] = f[i + 1]
OBVIOUS

LEMMA FramesDrop ==
  ASSUME NEW p \in PageRecord, NEW q \in PageRecord, NEW k \in TaskRecord, NEW f \in Seq(Frame),
         f # <<>>, FramesOK(p, k, f), q.aborted = p.aborted, q.got <= k.sent,
         \/ HeadsDue(p) = 1 /\ HeadsDue(q) = 0 /\ q.got = p.got
         \/ HeadsDue(p) = 0 /\ HeadsDue(q) = 0 /\ q.got = p.got + 1
  PROVE FramesOK(q, k, Tail(f))
<1>1. PICK due : due = HeadsDue(p) + (k.sent - p.got) BY Zenon
<1>2. PICK rest : rest = HeadsDue(q) + (k.sent - q.got) BY Zenon
<1>3. PICK g : g = Tail(f) BY Zenon
<1>4. /\ k.sent \in Nat /\ p.got \in Nat /\ q.got \in Nat
  BY FetchAssumption DEF PageRecord, TaskRecord
<1>5. rest \in Nat /\ due = rest + 1 BY SMTT(30), <1>1, <1>2, <1>4
<1>6. /\ p.got <= k.sent /\ due <= Len(f)
      /\ \A i \in DOMAIN f : /\ i <= HeadsDue(p) => f[i] = "head"
                             /\ HeadsDue(p) < i /\ i <= due => f[i] = "data"
                             /\ due < i => f[i] \in {"error", "complete"}
      /\ k.at \in {"streaming", "sending"} => Len(f) = due
      /\ k.at = "finishing" /\ ~p.aborted => Len(f) = due + 1 /\ f[due + 1] = "error"
      /\ k.at \in {"leaving", "done"} /\ ~p.aborted =>
           \/ k.sent = k.length
           \/ due < Len(f) /\ f[due + 1] = "error"
  BY <1>1, Zenon DEF FramesOK
<1>7. /\ Len(f) \in Nat /\ Len(g) = Len(f) - 1
      /\ \A i \in DOMAIN g : i \in Nat /\ 1 <= i /\ i + 1 \in DOMAIN f /\ g[i] = f[i + 1]
      /\ \A i \in Nat : 1 <= i /\ i <= Len(g) => i \in DOMAIN g
  BY <1>3, TailIs
<1>8. ASSUME NEW i \in DOMAIN g
      PROVE /\ i <= HeadsDue(q) => g[i] = "head"
            /\ HeadsDue(q) < i /\ i <= rest => g[i] = "data"
            /\ rest < i => g[i] \in {"error", "complete"}
  <2>1. i \in Nat /\ 1 <= i /\ i + 1 \in DOMAIN f /\ g[i] = f[i + 1] BY Zenon, <1>7
  <2>2. /\ HeadsDue(p) < i + 1 /\ i + 1 <= due => f[i + 1] = "data"
        /\ due < i + 1 => f[i + 1] \in {"error", "complete"}
    BY Zenon, <1>6, <2>1
  <2>. QED BY <1>5, <2>1, <2>2
<1>9. rest < Len(g) /\ 0 <= rest /\ f[due + 1] = "error" => g[rest + 1] = "error"
  <2>1. SUFFICES ASSUME rest < Len(g), 0 <= rest, f[due + 1] = "error" PROVE g[rest + 1] = "error"
    BY Zenon
  <2>2. rest + 1 \in DOMAIN g BY <1>5, <1>7, <2>1
  <2>3. g[rest + 1] = f[(rest + 1) + 1] BY Zenon, <1>7, <2>2
  <2>. QED BY Zenon, <1>5, <2>1, <2>3
<1>10. 0 <= rest /\ rest <= Len(g) BY SMTT(30), <1>2, <1>4, <1>5, <1>6, <1>7
<1>11. /\ k.at \in {"streaming", "sending"} => Len(g) = rest
       /\ k.at = "finishing" /\ ~q.aborted => Len(g) = rest + 1 /\ g[rest + 1] = "error"
       /\ k.at \in {"leaving", "done"} /\ ~q.aborted =>
            \/ k.sent = k.length
            \/ rest < Len(g) /\ g[rest + 1] = "error"
  BY SMTT(30), <1>5, <1>6, <1>7, <1>9, <1>10
<1>. QED BY <1>2, <1>3, <1>8, <1>10, <1>11, Zenon DEF FramesOK

LEMMA ReceivedIs ==
  ASSUME NEW p \in PageRecord, NEW k \in TaskRecord, NEW f \in Seq(Frame), NEW q,
         f # <<>>, p.at # "gone", ResponseOK(p, k, f), q = Received(p, Head(f))
  PROVE /\ q \in PageRecord /\ q.at = p.at /\ q.left = p.left /\ q.body = p.body
        /\ q.aborted = p.aborted /\ q.broken = p.broken
        /\ ResponseOK(q, k, Tail(f))
<1>1. k.at \notin {"none", "handling"} BY Zenon DEF ResponseOK
<1>2. PICK h \in Frame : h = Head(f) /\ h = f[1] BY Zenon, TailIs
<1>3. 1 \in DOMAIN f /\ Len(f) \in Nat /\ Tail(f) \in Seq(Frame) BY Zenon, TailIs
<1>4. p.reader = "open" => FramesOK(p, k, f) BY Zenon, <1>1 DEF ResponseOK
<1>5. k.sent \in 0 .. MaxChunks /\ p.got \in Nat /\ k.sent \in Nat /\ (p.head \in BOOLEAN)
  BY FetchAssumption DEF PageRecord, TaskRecord
<1>6. /\ HeadsDue(p) = 0 \/ HeadsDue(p) = 1
      /\ HeadsDue(p) = 0 => p.head
  BY DEF HeadsDue
<1>7. p.reader = "open" =>
        /\ p.got <= k.sent
        /\ h = "head" => HeadsDue(p) = 1
        /\ h = "data" => HeadsDue(p) = 0 /\ p.got < k.sent
        /\ h \in {"error", "complete"} => HeadsDue(p) = 0 /\ p.got = k.sent
  <2>1. SUFFICES ASSUME p.reader = "open"
                 PROVE /\ p.got <= k.sent
                       /\ h = "head" => HeadsDue(p) = 1
                       /\ h = "data" => HeadsDue(p) = 0 /\ p.got < k.sent
                       /\ h \in {"error", "complete"} => HeadsDue(p) = 0 /\ p.got = k.sent
    BY Zenon
  <2>2. PICK due : due = HeadsDue(p) + (k.sent - p.got) BY Zenon
  <2>3. /\ p.got <= k.sent
        /\ 1 <= HeadsDue(p) => f[1] = "head"
        /\ HeadsDue(p) < 1 /\ 1 <= due => f[1] = "data"
        /\ due < 1 => f[1] \in {"error", "complete"}
    BY <1>3, <1>4, <2>1, <2>2, Zenon DEF FramesOK
  <2>4. /\ p.got <= k.sent
        /\ 1 <= HeadsDue(p) => h = "head"
        /\ HeadsDue(p) < 1 /\ 1 <= due => h = "data"
        /\ due < 1 => h \in {"error", "complete"}
    BY <1>2, <2>3, Zenon
  <2>5. CASE HeadsDue(p) = 1
    <3>1. h = "head" BY <2>4, <2>5
    <3>. QED BY Zenon, <2>4, <2>5, <3>1
  <2>6. CASE HeadsDue(p) = 0
    <3>1. due = k.sent - p.got BY <1>5, <2>2, <2>6
    <3>2. CASE p.got < k.sent
      <4>1. h = "data" BY <1>5, <2>4, <2>6, <3>1, <3>2
      <4>. QED BY Zenon, <2>4, <2>6, <3>2, <4>1
    <3>3. CASE p.got = k.sent
      <4>1. h \in {"error", "complete"} BY <1>5, <2>4, <3>1, <3>3
      <4>. QED BY Zenon, <2>4, <2>6, <3>3, <4>1
    <3>. QED BY SMTT(30), <1>5, <2>4, <3>2, <3>3
  <2>. QED BY Zenon, <1>6, <2>5, <2>6
<1>8. CASE h = "head"
  <2>1. PICK m \in {"pending", "resolved", "rejected"} :
          m = IF p.promise = "pending" THEN "resolved" ELSE p.promise
    BY Zenon DEF PageRecord
  <2>2. q = [p EXCEPT !.head = TRUE, !.promise = m] BY Zenon, <1>2, <1>8, <2>1 DEF Received
  <2>3. /\ q \in PageRecord /\ q.at = p.at /\ q.left = p.left /\ q.body = p.body
        /\ q.aborted = p.aborted /\ q.broken = p.broken /\ q.head /\ q.reader = p.reader
        /\ q.got = p.got
    BY Zenon, <2>2 DEF PageRecord
  <2>4. HeadsDue(q) = 0 BY Zenon, <2>3 DEF HeadsDue
  <2>5. q.reader = "open" => FramesOK(q, k, Tail(f))
    BY Zenon, <1>4, <1>7, <1>8, <2>3, <2>4, FramesDrop
  <2>6. q.reader = "closed" /\ ~q.aborted => q.got = k.length BY Zenon, <2>3 DEF ResponseOK
  <2>7. ResponseOK(q, k, Tail(f)) BY Zenon, <1>1, <2>5, <2>6 DEF ResponseOK
  <2>. QED BY Zenon, <2>3, <2>7
<1>9. CASE h = "data"
  <2>1. PICK n \in 0 .. MaxChunks : /\ n = IF p.reader = "open" THEN p.got + 1 ELSE p.got
                                    /\ p.reader = "open" => n = p.got + 1 /\ n <= k.sent
                                    /\ p.reader # "open" => n = p.got
    <3>1. CASE p.reader = "open"
      <4>1. p.got + 1 \in 0 .. MaxChunks /\ p.got + 1 <= k.sent
        BY <1>5, <1>7, <1>9, <3>1, FetchAssumption
      <4>. QED BY Zenon, <3>1, <4>1
    <3>2. CASE p.reader # "open" BY Zenon, <3>2 DEF PageRecord
    <3>. QED BY Zenon, <3>1, <3>2
  <2>2. q = [p EXCEPT !.got = n] BY Zenon, <1>2, <1>9, <2>1 DEF Received
  <2>3. /\ q \in PageRecord /\ q.at = p.at /\ q.left = p.left /\ q.body = p.body
        /\ q.aborted = p.aborted /\ q.broken = p.broken /\ q.head = p.head /\ q.reader = p.reader
        /\ q.got = n
    BY Zenon, <2>2 DEF PageRecord
  <2>4. HeadsDue(q) = HeadsDue(p) BY Zenon, <2>3 DEF HeadsDue
  <2>5. q.reader = "open" => FramesOK(q, k, Tail(f))
    BY Zenon, <1>4, <1>7, <1>9, <2>1, <2>3, <2>4, FramesDrop
  <2>6. q.reader = "closed" /\ ~q.aborted => q.got = k.length
    BY Zenon, <2>1, <2>3 DEF ResponseOK
  <2>7. ResponseOK(q, k, Tail(f)) BY Zenon, <1>1, <2>5, <2>6 DEF ResponseOK
  <2>. QED BY Zenon, <2>3, <2>7
<1>10. CASE h = "error"
  <2>1. q = Refused(p) BY Zenon, <1>2, <1>10 DEF Received
  <2>2. /\ q \in PageRecord /\ q.at = p.at /\ q.left = p.left /\ q.body = p.body
        /\ q.got = p.got /\ q.aborted = p.aborted /\ q.broken = p.broken
        /\ q.reader = p.reader \/ q.reader = "errored"
    BY Zenon, <2>1, RefusedIs
  <2>3. q.reader # "open"
    <3>1. CASE p.reader = "open"
      <4>1. p.head BY Zenon, <1>6, <1>7, <1>10, <3>1
      <4>2. q = [p EXCEPT !.reader = "errored"] BY Zenon, <2>1, <3>1, <4>1 DEF Refused
      <4>3. q.reader = "errored" BY Zenon, <4>2 DEF PageRecord
      <4>. QED BY Zenon, <4>3
    <3>2. CASE p.reader # "open" BY Zenon, <2>2, <3>2
    <3>. QED BY Zenon, <3>1, <3>2
  <2>4. q.reader = "closed" /\ ~q.aborted => q.got = k.length BY Zenon, <2>2 DEF ResponseOK
  <2>5. ResponseOK(q, k, Tail(f)) BY Zenon, <1>1, <2>3, <2>4 DEF ResponseOK
  <2>. QED BY Zenon, <2>2, <2>5
<1>11. CASE h = "complete"
  <2>1. PICK r \in {"open", "closed", "errored"} :
          /\ r = IF p.reader = "open" THEN "closed" ELSE p.reader
          /\ r # "open" /\ (r = "closed" => p.reader \in {"open", "closed"})
    BY Zenon DEF PageRecord
  <2>2. q = [p EXCEPT !.reader = r] BY Zenon, <1>2, <1>11, <2>1 DEF Received
  <2>3. /\ q \in PageRecord /\ q.at = p.at /\ q.left = p.left /\ q.body = p.body
        /\ q.aborted = p.aborted /\ q.broken = p.broken /\ q.got = p.got /\ q.reader = r
    BY Zenon, <2>2 DEF PageRecord
  <2>4. p.reader = "open" /\ ~p.aborted => p.got = k.length
    <3>1. SUFFICES ASSUME p.reader = "open", ~p.aborted PROVE p.got = k.length BY Zenon
    <3>2. PICK due : due = HeadsDue(p) + (k.sent - p.got) BY Zenon
    <3>3. due = 0 /\ p.got = k.sent BY <1>5, <1>7, <1>11, <3>1, <3>2
    <3>4. /\ k.at \in {"streaming", "sending"} => Len(f) = due
          /\ k.at = "finishing" => f[due + 1] = "error"
          /\ k.at \in {"leaving", "done"} =>
               \/ k.sent = k.length
               \/ f[due + 1] = "error"
      BY <1>4, <3>1, <3>2, Zenon DEF FramesOK
    <3>5. Len(f) # 0 /\ f[due + 1] = f[1] BY SMTT(30), <3>3, TailIs
    <3>6. f[1] # "error" BY Zenon, <1>2, <1>11
    <3>. QED BY Zenon, <1>1, <3>3, <3>4, <3>5, <3>6 DEF TaskRecord
  <2>5. q.reader = "closed" /\ ~q.aborted => q.got = k.length
    BY Zenon, <2>1, <2>3, <2>4 DEF ResponseOK
  <2>6. ResponseOK(q, k, Tail(f)) BY Zenon, <1>1, <2>1, <2>3, <2>5 DEF ResponseOK
  <2>. QED BY Zenon, <2>3, <2>6
<1>. QED BY Zenon, <1>8, <1>9, <1>10, <1>11 DEF Frame

\* The upload and the registries see nothing of the response.
LEMMA ReceiveStep ==
  ASSUME FetchInv, NEW s \in Stream, Receive(s)
  PROVE FetchInv'
<1>1. PICK p : p = page[s] BY Zenon
<1>2. PICK c : c = commands[s] BY Zenon
<1>3. PICK k : k = task[s] BY Zenon
<1>4. PICK f : f = frames[s] BY Zenon
<1>5. StreamOK(p, c, k, f, s \in activeStreams, s \in uploadSenders)
  BY Zenon, <1>1, <1>2, <1>3, <1>4, StreamOf
<1>6. p \in PageRecord /\ c \in CommandRecord /\ k \in TaskRecord /\ f \in Seq(Frame)
  BY Zenon, <1>5 DEF StreamOK
<1>7. /\ ControlOK(p, c, k) /\ UploadOK(p, c, k, s \in uploadSenders) /\ ResponseOK(p, k, f)
      /\ RegistryOK(p, c, k, s \in activeStreams, s \in uploadSenders)
  BY Zenon, <1>5 DEF StreamOK
<1>8. p.at # "gone" /\ f # <<>> /\ UNCHANGED <<commands, task, registries, locks>>
  BY Zenon, <1>1, <1>4 DEF Receive
<1>9. PICK q : q = Received(p, Head(f)) BY Zenon
<1>10. Put(page, page', s, q) BY Zenon, <1>1, <1>4, <1>9 DEF Receive, FetchInv, Put
<1>11. Put(frames, frames', s, Tail(f)) BY Zenon, <1>4 DEF Receive, FetchInv, Put
<1>12. /\ q \in PageRecord /\ q.at = p.at /\ q.left = p.left /\ q.body = p.body
       /\ q.aborted = p.aborted /\ q.broken = p.broken
       /\ ResponseOK(q, k, Tail(f))
  BY SMTT(30), <1>6, <1>7, <1>8, <1>9, ReceivedIs
<1>13. ControlOK(q, c, k) BY Zenon, <1>7, <1>12 DEF ControlOK
<1>14. UploadOK(q, c, k, s \in uploadSenders) BY Zenon, <1>7, <1>12 DEF UploadOK
<1>15. RegistryOK(q, c, k, s \in activeStreams, s \in uploadSenders)
  BY Zenon, <1>7, <1>12 DEF RegistryOK
<1>16. Tail(f) \in Seq(Frame) BY Zenon, <1>6, <1>8, TailIs
<1>17. StreamOK(q, c, k, Tail(f), s \in activeStreams, s \in uploadSenders)
  BY Zenon, <1>6, <1>12, <1>13, <1>14, <1>15, <1>16 DEF StreamOK
<1>. QED BY Zenon, <1>2, <1>3, <1>8, <1>10, <1>11, <1>17, ChannelStep

LEMMA UnloadStep ==
  ASSUME FetchInv, NEW s \in Stream, Unload(s)
  PROVE FetchInv'
<1>1. PICK p : p = page[s] BY Zenon
<1>2. PICK c : c = commands[s] BY Zenon
<1>3. PICK k : k = task[s] BY Zenon
<1>4. PICK f : f = frames[s] BY Zenon
<1>5. StreamOK(p, c, k, f, s \in activeStreams, s \in uploadSenders)
  BY Zenon, <1>1, <1>2, <1>3, <1>4, StreamOf
<1>6. p \in PageRecord /\ c \in CommandRecord /\ k \in TaskRecord /\ f \in Seq(Frame)
  BY Zenon, <1>5 DEF StreamOK
<1>7. /\ ControlOK(p, c, k) /\ UploadOK(p, c, k, s \in uploadSenders) /\ ResponseOK(p, k, f)
      /\ RegistryOK(p, c, k, s \in activeStreams, s \in uploadSenders)
  BY Zenon, <1>5 DEF StreamOK
<1>8. p.at \notin {"idle", "gone"} /\ UNCHANGED <<commands, task, registries, locks>>
  BY Zenon, <1>1 DEF Unload
<1>9. PICK q : q = [p EXCEPT !.at = "gone"] BY Zenon
<1>10. Put(page, page', s, q) BY Zenon, <1>1, <1>9 DEF Unload, FetchInv, Put
<1>11. Put(frames, frames', s, <<>>) BY Zenon DEF Unload, FetchInv, Put
<1>12. /\ q \in PageRecord /\ q.at = "gone" /\ q.left = p.left /\ q.body = p.body
       /\ q.head = p.head /\ q.reader = p.reader /\ q.got = p.got
       /\ q.aborted = p.aborted /\ q.broken = p.broken
  BY Zenon, <1>6, <1>9 DEF PageRecord
<1>13. ControlOK(q, c, k) BY Zenon, <1>7, <1>12 DEF ControlOK
<1>14. UploadOK(q, c, k, s \in uploadSenders) BY Zenon, <1>7, <1>12 DEF UploadOK
<1>15. RegistryOK(q, c, k, s \in activeStreams, s \in uploadSenders)
  BY Zenon, <1>7, <1>12 DEF RegistryOK
<1>16. ResponseOK(q, k, <<>>) BY Zenon, <1>7, <1>12 DEF ResponseOK
<1>17. <<>> \in Seq(Frame) OBVIOUS
<1>18. StreamOK(q, c, k, <<>>, s \in activeStreams, s \in uploadSenders)
  BY Zenon, <1>6, <1>12, <1>13, <1>14, <1>15, <1>16, <1>17 DEF StreamOK
<1>. QED BY Zenon, <1>2, <1>3, <1>8, <1>10, <1>11, <1>18, ChannelStep

\* How a step of the stream s may move a lock: not at all, or taken or released by s.
Moved(before, after, mine, was, is) ==
  \/ after = before /\ was = is
  \/ before = Free /\ after = mine /\ is
  \/ before = mine /\ after = Free /\ ~is

LEMMA LockOwners ==
  ASSUME NEW s, NEW t
  PROVE /\ InitOf(s) # Free /\ CancelOf(s) # Free
        /\ InitOf(s) = InitOf(t) => s = t
        /\ CancelOf(s) = CancelOf(t) => s = t
<1>1. InitOf(s).by = "init" /\ CancelOf(s).by = "cancel" /\ Free.by = "nobody"
  BY Zenon DEF InitOf, CancelOf, Free
<1>2. InitOf(s).of = s /\ InitOf(t).of = t /\ CancelOf(s).of = s /\ CancelOf(t).of = t
  BY Zenon DEF InitOf, CancelOf
<1>. QED BY Zenon, <1>1, <1>2

LEMMA LocksMove ==
  ASSUME FetchInv, NEW s \in Stream, Alone(s),
         Moved(sendersLock, sendersLock', InitOf(s), commands[s].init = "active",
               commands'[s].init = "active"),
         Moved(activeLock, activeLock', CancelOf(s), commands[s].cancel = "senders",
               commands'[s].cancel = "senders")
  PROVE LocksOK'
<1>1. LocksOK BY Zenon DEF FetchInv
<1>2. ASSUME NEW t \in Stream
      PROVE /\ (sendersLock' = InitOf(t)) = (commands'[t].init = "active")
            /\ (activeLock' = CancelOf(t)) = (commands'[t].cancel = "senders")
  <2>1. /\ (sendersLock = InitOf(t)) = (commands[t].init = "active")
        /\ (activeLock = CancelOf(t)) = (commands[t].cancel = "senders")
    BY Zenon, <1>1 DEF LocksOK
  <2>2. CASE t = s
    <3>1. InitOf(s) # Free /\ CancelOf(s) # Free BY Zenon, LockOwners
    <3>2. (sendersLock' = InitOf(t)) = (commands'[t].init = "active")
      BY Zenon, <2>1, <2>2, <3>1 DEF Moved
    <3>3. (activeLock' = CancelOf(t)) = (commands'[t].cancel = "senders")
      BY Zenon, <2>1, <2>2, <3>1 DEF Moved
    <3>. QED BY Zenon, <3>2, <3>3
  <2>3. CASE t # s
    <3>1. commands'[t] = commands[t] BY Zenon, <2>3 DEF Alone
    <3>2. /\ InitOf(t) # Free /\ CancelOf(t) # Free
          /\ InitOf(t) # InitOf(s) /\ CancelOf(t) # CancelOf(s)
      BY Zenon, <2>3, LockOwners
    <3>3. (sendersLock' = InitOf(t)) = (commands'[t].init = "active")
      BY Zenon, <2>1, <3>1, <3>2 DEF Moved
    <3>4. (activeLock' = CancelOf(t)) = (commands'[t].cancel = "senders")
      BY Zenon, <2>1, <3>1, <3>2 DEF Moved
    <3>. QED BY Zenon, <3>3, <3>4
  <2>. QED BY Zenon, <2>2, <2>3
<1>3. sendersLock' = Free \/ \E t \in Stream : sendersLock' = InitOf(t)
  BY Zenon, <1>1 DEF LocksOK, Moved
<1>4. activeLock' = Free \/ \E t \in Stream : activeLock' = CancelOf(t)
  BY Zenon, <1>1 DEF LocksOK, Moved
<1>. QED BY Zenon, <1>2, <1>3, <1>4 DEF LocksOK, InitOf, CancelOf, Free

\* A step of a command: it may change its stream's place in the registries.
LEMMA CommandStep ==
  ASSUME FetchInv, NEW s \in Stream, NEW d, NEW k,
         Put(commands, commands', s, d), Put(task, task', s, k),
         page' = page, frames' = frames,
         activeStreams' \in {activeStreams, activeStreams \cup {s}, activeStreams \ {s}},
         uploadSenders' \in {uploadSenders, uploadSenders \cup {s}, uploadSenders \ {s}},
         Moved(sendersLock, sendersLock', InitOf(s), commands[s].init = "active", d.init = "active"),
         Moved(activeLock, activeLock', CancelOf(s), commands[s].cancel = "senders",
               d.cancel = "senders"),
         StreamOK(page[s], d, k, frames[s], s \in activeStreams', s \in uploadSenders')
  PROVE FetchInv'
<1>1. /\ activeStreams' \subseteq Stream /\ uploadSenders' \subseteq Stream
      /\ \A t \in Stream : t # s => /\ t \in activeStreams' <=> t \in activeStreams
                                    /\ t \in uploadSenders' <=> t \in uploadSenders
  BY Zenon DEF FetchInv
<1>2. Alone(s) BY Zenon, <1>1 DEF Alone, FetchInv, Put
<1>3. commands'[s] = d /\ task'[s] = k BY Zenon DEF Put
<1>4. LocksOK' BY Zenon, <1>2, <1>3, LocksMove
<1>. QED BY Zenon, <1>2, <1>3, <1>4, StreamStep

\* A command that holds no lock between its steps.
LEMMA Unmoved ==
  ASSUME UNCHANGED locks, NEW s, NEW d, (d.init = "active") = (commands[s].init = "active"),
         (d.cancel = "senders") = (commands[s].cancel = "senders")
  PROVE /\ Moved(sendersLock, sendersLock', InitOf(s), commands[s].init = "active",
                 d.init = "active")
        /\ Moved(activeLock, activeLock', CancelOf(s), commands[s].cancel = "senders",
                 d.cancel = "senders")
BY Zenon DEF Moved, locks

LEMMA RegisterSenderStep ==
  ASSUME FetchInv, NEW s \in Stream, RegisterSender(s)
  PROVE FetchInv'
<1>1. PICK p : p = page[s] BY Zenon
<1>2. PICK c : c = commands[s] BY Zenon
<1>3. PICK k : k = task[s] BY Zenon
<1>4. PICK f : f = frames[s] BY Zenon
<1>5. StreamOK(p, c, k, f, s \in activeStreams, s \in uploadSenders)
  BY Zenon, <1>1, <1>2, <1>3, <1>4, StreamOf
<1>6. p \in PageRecord /\ c \in CommandRecord /\ k \in TaskRecord /\ f \in Seq(Frame)
  BY Zenon, <1>5 DEF StreamOK
<1>7. /\ ControlOK(p, c, k) /\ UploadOK(p, c, k, s \in uploadSenders) /\ ResponseOK(p, k, f)
      /\ RegistryOK(p, c, k, s \in activeStreams, s \in uploadSenders)
  BY Zenon, <1>5 DEF StreamOK
<1>8. /\ c.init = "senders" /\ sendersLock = Free /\ sendersLock' = InitOf(s)
      /\ uploadSenders' = uploadSenders \cup {s}
      /\ UNCHANGED <<page, task, frames, activeStreams, activeLock>>
  BY Zenon, <1>2 DEF RegisterSender
<1>9. PICK d : d = [c EXCEPT !.init = "active"] BY Zenon
<1>10. Put(commands, commands', s, d) BY Zenon, <1>2, <1>9 DEF RegisterSender, FetchInv, Put
<1>11. Put(task, task', s, k) BY Zenon, <1>3, <1>8, Unput
<1>12. /\ d \in CommandRecord /\ d.init = "active" /\ d.upload = c.upload /\ d.eof = c.eof
       /\ d.cancel = c.cancel
  BY Zenon, <1>6, <1>9 DEF CommandRecord
<1>13. c.upload = "none" /\ c.cancel = "none" BY Zenon, <1>7, <1>8 DEF ControlOK
<1>14. s \in uploadSenders' BY Zenon, <1>8
<1>15. ControlOK(p, d, k) BY Zenon, <1>7, <1>8, <1>12 DEF ControlOK
<1>16. UploadOK(p, d, k, s \in uploadSenders')
  BY Zenon, <1>7, <1>12, <1>13, <1>14 DEF UploadOK, Carried
<1>17. RegistryOK(p, d, k, s \in activeStreams', s \in uploadSenders')
  <2>1. activeStreams' = activeStreams BY Zenon, <1>8
  <2>2. p.at \notin {"cancelling", "upload", "closing", "ended"}
    BY Zenon, <1>7, <1>8 DEF ControlOK
  <2>. QED BY Zenon, <1>7, <1>12, <1>13, <2>1, <2>2 DEF RegistryOK
<1>18. StreamOK(p, d, k, f, s \in activeStreams', s \in uploadSenders')
  BY Zenon, <1>6, <1>7, <1>12, <1>15, <1>16, <1>17 DEF StreamOK
<1>19. /\ Moved(sendersLock, sendersLock', InitOf(s), commands[s].init = "active",
                d.init = "active")
       /\ Moved(activeLock, activeLock', CancelOf(s), commands[s].cancel = "senders",
                d.cancel = "senders")
  BY Zenon, <1>2, <1>8, <1>12 DEF Moved
<1>. QED BY Zenon, <1>1, <1>4, <1>8, <1>10, <1>11, <1>18, <1>19, CommandStep

LEMMA RegisterActiveStep ==
  ASSUME FetchInv, NEW s \in Stream, RegisterActive(s)
  PROVE FetchInv'
<1>1. PICK p : p = page[s] BY Zenon
<1>2. PICK c : c = commands[s] BY Zenon
<1>3. PICK k : k = task[s] BY Zenon
<1>4. PICK f : f = frames[s] BY Zenon
<1>5. StreamOK(p, c, k, f, s \in activeStreams, s \in uploadSenders)
  BY Zenon, <1>1, <1>2, <1>3, <1>4, StreamOf
<1>6. p \in PageRecord /\ c \in CommandRecord /\ k \in TaskRecord /\ f \in Seq(Frame)
  BY Zenon, <1>5 DEF StreamOK
<1>7. /\ ControlOK(p, c, k) /\ UploadOK(p, c, k, s \in uploadSenders) /\ ResponseOK(p, k, f)
      /\ RegistryOK(p, c, k, s \in activeStreams, s \in uploadSenders)
  BY Zenon, <1>5 DEF StreamOK
<1>8. /\ c.init = "active" /\ sendersLock' = Free /\ activeStreams' = activeStreams \cup {s}
      /\ UNCHANGED <<page, task, frames, uploadSenders, activeLock>>
  BY Zenon, <1>2 DEF RegisterActive
<1>9. PICK d : d = [c EXCEPT !.init = "build"] BY Zenon
<1>10. Put(commands, commands', s, d) BY Zenon, <1>2, <1>9 DEF RegisterActive, FetchInv, Put
<1>11. Put(task, task', s, k) BY Zenon, <1>3, <1>8, Unput
<1>12. /\ d \in CommandRecord /\ d.init = "build" /\ d.upload = c.upload /\ d.eof = c.eof
       /\ d.cancel = c.cancel
  BY Zenon, <1>6, <1>9 DEF CommandRecord
<1>13. c.upload = "none" /\ c.cancel = "none" BY Zenon, <1>7, <1>8 DEF ControlOK
<1>14. s \in activeStreams' /\ uploadSenders' = uploadSenders BY Zenon, <1>8
<1>15. ControlOK(p, d, k) BY Zenon, <1>7, <1>8, <1>12 DEF ControlOK
<1>16. UploadOK(p, d, k, s \in uploadSenders')
  BY Zenon, <1>7, <1>8, <1>12, <1>13, <1>14 DEF UploadOK, Carried
<1>17. RegistryOK(p, d, k, s \in activeStreams', s \in uploadSenders')
  <2>1. p.at \notin {"cancelling", "upload", "closing", "ended"}
    BY Zenon, <1>7, <1>8 DEF ControlOK
  <2>2. k.at = "none" BY Zenon, <1>7, <1>8 DEF ControlOK
  <2>. QED BY Zenon, <1>7, <1>12, <1>13, <1>14, <2>1, <2>2 DEF RegistryOK
<1>18. StreamOK(p, d, k, f, s \in activeStreams', s \in uploadSenders')
  BY Zenon, <1>6, <1>7, <1>12, <1>15, <1>16, <1>17 DEF StreamOK
<1>19. sendersLock = InitOf(s) BY Zenon, <1>2, <1>8 DEF FetchInv, LocksOK
<1>20. /\ Moved(sendersLock, sendersLock', InitOf(s), commands[s].init = "active",
                d.init = "active")
       /\ Moved(activeLock, activeLock', CancelOf(s), commands[s].cancel = "senders",
                d.cancel = "senders")
  BY Zenon, <1>2, <1>8, <1>12, <1>19 DEF Moved
<1>. QED BY Zenon, <1>1, <1>4, <1>8, <1>10, <1>11, <1>18, <1>20, CommandStep

LEMMA BuildStep ==
  ASSUME FetchInv, NEW s \in Stream, Build(s)
  PROVE FetchInv'
<1>1. PICK p : p = page[s] BY Zenon
<1>2. PICK c : c = commands[s] BY Zenon
<1>3. PICK k : k = task[s] BY Zenon
<1>4. PICK f : f = frames[s] BY Zenon
<1>5. StreamOK(p, c, k, f, s \in activeStreams, s \in uploadSenders)
  BY Zenon, <1>1, <1>2, <1>3, <1>4, StreamOf
<1>6. p \in PageRecord /\ c \in CommandRecord /\ k \in TaskRecord /\ f \in Seq(Frame)
  BY Zenon, <1>5 DEF StreamOK
<1>7. /\ ControlOK(p, c, k) /\ UploadOK(p, c, k, s \in uploadSenders) /\ ResponseOK(p, k, f)
      /\ RegistryOK(p, c, k, s \in activeStreams, s \in uploadSenders)
  BY Zenon, <1>5 DEF StreamOK
<1>8. /\ c.init = "build" /\ UNCHANGED <<page, frames, registries, locks>>
  BY Zenon, <1>2 DEF Build
<1>9. /\ page' = page /\ frames' = frames /\ UNCHANGED locks
      /\ activeStreams' = activeStreams /\ uploadSenders' = uploadSenders
  BY Zenon, <1>8 DEF registries, locks
<1>10. c.upload = "none" /\ c.cancel = "none" /\ k.at = "none"
       /\ p.at \notin {"cancelling", "upload", "closing", "ended"}
  BY Zenon, <1>7, <1>8 DEF ControlOK
<1>11. s \in activeStreams BY Zenon, <1>7, <1>8 DEF RegistryOK
<1>12. CASE commands' = [commands EXCEPT ![s].init = "failed"] /\ task' = task
  <2>1. PICK d : d = [c EXCEPT !.init = "failed"] BY Zenon
  <2>2. Put(commands, commands', s, d) BY Zenon, <1>2, <1>12, <2>1 DEF FetchInv, Put
  <2>3. Put(task, task', s, k) BY Zenon, <1>3, <1>12, Unput
  <2>4. /\ d \in CommandRecord /\ d.init = "failed" /\ d.upload = c.upload /\ d.eof = c.eof
        /\ d.cancel = c.cancel
    BY Zenon, <1>6, <2>1 DEF CommandRecord
  <2>5. ControlOK(p, d, k) BY Zenon, <1>7, <1>8, <1>10, <2>4 DEF ControlOK
  <2>6. UploadOK(p, d, k, s \in uploadSenders)
    BY Zenon, <1>7, <1>8, <1>10, <2>4 DEF UploadOK, Carried
  <2>7. RegistryOK(p, d, k, s \in activeStreams, s \in uploadSenders)
    BY Zenon, <1>7, <1>10, <2>4 DEF RegistryOK
  <2>8. StreamOK(p, d, k, f, s \in activeStreams', s \in uploadSenders')
    BY Zenon, <1>6, <1>7, <1>9, <2>4, <2>5, <2>6, <2>7 DEF StreamOK
  <2>9. /\ Moved(sendersLock, sendersLock', InitOf(s), commands[s].init = "active",
                 d.init = "active")
        /\ Moved(activeLock, activeLock', CancelOf(s), commands[s].cancel = "senders",
                 d.cancel = "senders")
    BY Zenon, <1>2, <1>8, <1>9, <2>4, Unmoved
  <2>. QED BY Zenon, <1>1, <1>4, <1>9, <2>2, <2>3, <2>8, <2>9, CommandStep
<1>13. CASE /\ commands' = [commands EXCEPT ![s].init = "replied"]
            /\ task' = [task EXCEPT ![s].at = "handling"]
  <2>1. PICK d : d = [c EXCEPT !.init = "replied"] BY Zenon
  <2>2. PICK r : r = [k EXCEPT !.at = "handling"] BY Zenon
  <2>3. Put(commands, commands', s, d) BY Zenon, <1>2, <1>13, <2>1 DEF FetchInv, Put
  <2>4. Put(task, task', s, r) BY Zenon, <1>3, <1>13, <2>2 DEF FetchInv, Put
  <2>5. /\ d \in CommandRecord /\ d.init = "replied" /\ d.upload = c.upload /\ d.eof = c.eof
        /\ d.cancel = c.cancel
    BY Zenon, <1>6, <2>1 DEF CommandRecord
  <2>6. /\ r \in TaskRecord /\ r.at = "handling" /\ r.queue = k.queue /\ r.taken = k.taken /\ r.receiver = k.receiver
         /\ r.ended = k.ended /\ r.length = k.length /\ r.sent = k.sent
    BY Zenon, <1>6, <2>2 DEF TaskRecord
  <2>7. ControlOK(p, d, r) BY Zenon, <1>7, <1>8, <1>10, <2>5, <2>6 DEF ControlOK
  <2>8. UploadOK(p, d, r, s \in uploadSenders)
    BY Zenon, <1>7, <1>8, <1>10, <2>5, <2>6 DEF UploadOK, Carried
  <2>9. RegistryOK(p, d, r, s \in activeStreams, s \in uploadSenders)
    BY Zenon, <1>7, <1>10, <1>11, <2>5, <2>6 DEF RegistryOK
  <2>10. ResponseOK(p, r, f) BY Zenon, <1>7, <1>10, <2>6 DEF ResponseOK
  <2>11. StreamOK(p, d, r, f, s \in activeStreams', s \in uploadSenders')
    BY Zenon, <1>6, <1>9, <2>5, <2>6, <2>7, <2>8, <2>9, <2>10 DEF StreamOK
  <2>12. /\ Moved(sendersLock, sendersLock', InitOf(s), commands[s].init = "active",
                  d.init = "active")
         /\ Moved(activeLock, activeLock', CancelOf(s), commands[s].cancel = "senders",
                  d.cancel = "senders")
    BY Zenon, <1>2, <1>8, <1>9, <2>5, Unmoved
  <2>. QED BY Zenon, <1>1, <1>4, <1>9, <2>3, <2>4, <2>11, <2>12, CommandStep
<1>. QED BY Zenon, <1>12, <1>13 DEF Build

LEMMA UploadLooksStep ==
  ASSUME FetchInv, NEW s \in Stream, UploadLooks(s)
  PROVE FetchInv'
<1>1. PICK p : p = page[s] BY Zenon
<1>2. PICK c : c = commands[s] BY Zenon
<1>3. PICK k : k = task[s] BY Zenon
<1>4. PICK f : f = frames[s] BY Zenon
<1>5. StreamOK(p, c, k, f, s \in activeStreams, s \in uploadSenders)
  BY Zenon, <1>1, <1>2, <1>3, <1>4, StreamOf
<1>6. p \in PageRecord /\ c \in CommandRecord /\ k \in TaskRecord /\ f \in Seq(Frame)
  BY Zenon, <1>5 DEF StreamOK
<1>7. /\ ControlOK(p, c, k) /\ UploadOK(p, c, k, s \in uploadSenders) /\ ResponseOK(p, k, f)
      /\ RegistryOK(p, c, k, s \in activeStreams, s \in uploadSenders)
  BY Zenon, <1>5 DEF StreamOK
<1>8. c.upload = "look" /\ UNCHANGED <<page, task, frames, registries, locks>>
  BY Zenon, <1>2 DEF UploadLooks
<1>9. /\ page' = page /\ frames' = frames /\ task' = task /\ UNCHANGED locks
      /\ activeStreams' = activeStreams /\ uploadSenders' = uploadSenders
  BY Zenon, <1>8 DEF registries, locks
<1>10. PICK u \in {"ok", "remove", "send"} :
         /\ u = IF s \notin uploadSenders THEN "ok" ELSE IF c.eof THEN "remove" ELSE "send"
         /\ u = "ok" => s \notin uploadSenders
         /\ u = "remove" => s \in uploadSenders /\ c.eof
         /\ u = "send" => s \in uploadSenders /\ ~c.eof
  BY Zenon
<1>11. PICK d : d = [c EXCEPT !.upload = u] BY Zenon
<1>12. Put(commands, commands', s, d)
  BY Zenon, <1>2, <1>10, <1>11 DEF UploadLooks, FetchInv, Put
<1>13. Put(task, task', s, k) BY Zenon, <1>3, <1>9, Unput
<1>14. /\ d \in CommandRecord /\ d.init = c.init /\ d.upload = u /\ d.eof = c.eof
       /\ d.cancel = c.cancel
  BY Zenon, <1>6, <1>10, <1>11 DEF CommandRecord
<1>15. c.init = "replied" BY Zenon, <1>7, <1>8 DEF ControlOK
<1>16. ControlOK(p, d, k) BY Zenon, <1>7, <1>14, <1>15 DEF ControlOK
<1>17. p.at \notin {"idle", "init"} BY Zenon, <1>7, <1>8 DEF UploadOK
<1>18. ~p.aborted /\ ~p.broken /\ k.receiver =>
         /\ Carried(d) = Carried(c)
         /\ ~(s \in uploadSenders) => c.eof
  BY Zenon, <1>7, <1>8, <1>10, <1>14, <1>15 DEF UploadOK, Carried
<1>19. UploadOK(p, d, k, s \in uploadSenders)
  BY Zenon, <1>7, <1>10, <1>14, <1>15, <1>17, <1>18 DEF UploadOK
<1>20. RegistryOK(p, d, k, s \in activeStreams, s \in uploadSenders)
  BY Zenon, <1>7, <1>10, <1>14 DEF RegistryOK
<1>21. StreamOK(p, d, k, f, s \in activeStreams', s \in uploadSenders')
  BY Zenon, <1>6, <1>7, <1>9, <1>14, <1>16, <1>19, <1>20 DEF StreamOK
<1>22. /\ Moved(sendersLock, sendersLock', InitOf(s), commands[s].init = "active",
                d.init = "active")
       /\ Moved(activeLock, activeLock', CancelOf(s), commands[s].cancel = "senders",
                d.cancel = "senders")
  BY Zenon, <1>2, <1>9, <1>14, Unmoved
<1>. QED BY Zenon, <1>1, <1>4, <1>9, <1>12, <1>13, <1>21, <1>22, CommandStep

LEMMA UploadSendsStep ==
  ASSUME FetchInv, NEW s \in Stream, UploadSends(s)
  PROVE FetchInv'
<1>1. PICK p : p = page[s] BY Zenon
<1>2. PICK c : c = commands[s] BY Zenon
<1>3. PICK k : k = task[s] BY Zenon
<1>4. PICK f : f = frames[s] BY Zenon
<1>5. StreamOK(p, c, k, f, s \in activeStreams, s \in uploadSenders)
  BY Zenon, <1>1, <1>2, <1>3, <1>4, StreamOf
<1>6. p \in PageRecord /\ c \in CommandRecord /\ k \in TaskRecord /\ f \in Seq(Frame)
  BY Zenon, <1>5 DEF StreamOK
<1>7. /\ ControlOK(p, c, k) /\ UploadOK(p, c, k, s \in uploadSenders) /\ ResponseOK(p, k, f)
      /\ RegistryOK(p, c, k, s \in activeStreams, s \in uploadSenders)
  BY Zenon, <1>5 DEF StreamOK
<1>8. c.upload = "send" /\ UNCHANGED <<page, frames, registries, locks>>
  BY Zenon, <1>2 DEF UploadSends
<1>9. /\ page' = page /\ frames' = frames /\ UNCHANGED locks
      /\ activeStreams' = activeStreams /\ uploadSenders' = uploadSenders
  BY Zenon, <1>8 DEF registries, locks
<1>10. c.init = "replied" BY Zenon, <1>7, <1>8 DEF ControlOK
<1>11. ~c.eof /\ p.at \notin {"idle", "init"} BY Zenon, <1>7, <1>8 DEF UploadOK
<1>12. CASE /\ k.receiver /\ k.queue < Capacity /\ task' = [task EXCEPT ![s].queue = @ + 1]
            /\ commands' = [commands EXCEPT ![s].upload = "ok"]
  <2>1. PICK n \in 0 .. Capacity : n = k.queue + 1
    BY <1>6, <1>12, FetchAssumption DEF TaskRecord
  <2>2. PICK r : r = [k EXCEPT !.queue = n] BY Zenon
  <2>3. PICK d : d = [c EXCEPT !.upload = "ok"] BY Zenon
  <2>4. Put(task, task', s, r) BY Zenon, <1>3, <1>12, <2>1, <2>2 DEF FetchInv, Put
  <2>5. Put(commands, commands', s, d) BY Zenon, <1>2, <1>12, <2>3 DEF FetchInv, Put
  <2>6. /\ r \in TaskRecord /\ r.at = k.at /\ r.queue = n /\ r.taken = k.taken
        /\ r.receiver = k.receiver /\ r.ended = k.ended /\ r.length = k.length /\ r.sent = k.sent
    BY Zenon, <1>6, <2>2 DEF TaskRecord
  <2>7. /\ d \in CommandRecord /\ d.init = c.init /\ d.upload = "ok" /\ d.eof = c.eof
        /\ d.cancel = c.cancel
    BY Zenon, <1>6, <2>3 DEF CommandRecord
  <2>8. ControlOK(p, d, r) BY Zenon, <1>7, <1>10, <2>6, <2>7 DEF ControlOK
  <2>9. Carried(c) = 1 /\ Carried(d) = 0 BY Zenon, <1>8, <1>11, <2>7 DEF Carried
  <2>10. ~p.aborted /\ ~p.broken => p.left + Carried(d) + n + k.taken = p.body
    <3>1. p.left \in Nat /\ k.queue \in Nat /\ k.taken \in Nat /\ p.body \in Nat
      BY <1>6, FetchAssumption DEF PageRecord, TaskRecord
    <3>2. ~p.aborted /\ ~p.broken => p.left + Carried(c) + k.queue + k.taken = p.body
      BY Zenon, <1>7, <1>12 DEF UploadOK
    <3>. QED BY <2>1, <2>9, <3>1, <3>2
  <2>11. UploadOK(p, d, r, s \in uploadSenders)
    BY Zenon, <1>7, <1>8, <1>10, <1>11, <2>6, <2>7, <2>10 DEF UploadOK
  <2>12. RegistryOK(p, d, r, s \in activeStreams, s \in uploadSenders)
    BY Zenon, <1>7, <1>11, <2>6, <2>7 DEF RegistryOK
  <2>13. ResponseOK(p, r, f) BY Zenon, <1>7, <2>6 DEF ResponseOK, FramesOK
  <2>14. StreamOK(p, d, r, f, s \in activeStreams', s \in uploadSenders')
    BY Zenon, <1>6, <1>9, <2>6, <2>7, <2>8, <2>11, <2>12, <2>13 DEF StreamOK
  <2>15. /\ Moved(sendersLock, sendersLock', InitOf(s), commands[s].init = "active",
                  d.init = "active")
         /\ Moved(activeLock, activeLock', CancelOf(s), commands[s].cancel = "senders",
                  d.cancel = "senders")
    BY Zenon, <1>2, <1>9, <2>7, Unmoved
  <2>. QED BY Zenon, <1>1, <1>4, <1>9, <2>4, <2>5, <2>14, <2>15, CommandStep
<1>13. CASE /\ ~k.receiver /\ task' = task
            /\ commands' = [commands EXCEPT ![s].upload = "error"]
  <2>1. PICK d : d = [c EXCEPT !.upload = "error"] BY Zenon
  <2>2. Put(commands, commands', s, d) BY Zenon, <1>2, <1>13, <2>1 DEF FetchInv, Put
  <2>3. Put(task, task', s, k) BY Zenon, <1>3, <1>13, Unput
  <2>4. /\ d \in CommandRecord /\ d.init = c.init /\ d.upload = "error" /\ d.eof = c.eof
        /\ d.cancel = c.cancel
    BY Zenon, <1>6, <2>1 DEF CommandRecord
  <2>5. ControlOK(p, d, k) BY Zenon, <1>7, <1>10, <2>4 DEF ControlOK
  <2>6. UploadOK(p, d, k, s \in uploadSenders) BY Zenon, <1>7, <1>11, <1>13, <2>4 DEF UploadOK
  <2>7. RegistryOK(p, d, k, s \in activeStreams, s \in uploadSenders)
    BY Zenon, <1>7, <2>4 DEF RegistryOK
  <2>8. StreamOK(p, d, k, f, s \in activeStreams', s \in uploadSenders')
    BY Zenon, <1>6, <1>7, <1>9, <2>4, <2>5, <2>6, <2>7 DEF StreamOK
  <2>9. /\ Moved(sendersLock, sendersLock', InitOf(s), commands[s].init = "active",
                 d.init = "active")
        /\ Moved(activeLock, activeLock', CancelOf(s), commands[s].cancel = "senders",
                 d.cancel = "senders")
    BY Zenon, <1>2, <1>9, <2>4, Unmoved
  <2>. QED BY Zenon, <1>1, <1>4, <1>9, <2>2, <2>3, <2>8, <2>9, CommandStep
<1>. QED BY Zenon, <1>3, <1>12, <1>13 DEF UploadSends

LEMMA UploadRemovesStep ==
  ASSUME FetchInv, NEW s \in Stream, UploadRemoves(s)
  PROVE FetchInv'
<1>1. PICK p : p = page[s] BY Zenon
<1>2. PICK c : c = commands[s] BY Zenon
<1>3. PICK k : k = task[s] BY Zenon
<1>4. PICK f : f = frames[s] BY Zenon
<1>5. StreamOK(p, c, k, f, s \in activeStreams, s \in uploadSenders)
  BY Zenon, <1>1, <1>2, <1>3, <1>4, StreamOf
<1>6. p \in PageRecord /\ c \in CommandRecord /\ k \in TaskRecord /\ f \in Seq(Frame)
  BY Zenon, <1>5 DEF StreamOK
<1>7. /\ ControlOK(p, c, k) /\ UploadOK(p, c, k, s \in uploadSenders) /\ ResponseOK(p, k, f)
      /\ RegistryOK(p, c, k, s \in activeStreams, s \in uploadSenders)
  BY Zenon, <1>5 DEF StreamOK
<1>8. /\ c.upload = "remove" /\ uploadSenders' = uploadSenders \ {s}
      /\ UNCHANGED <<page, task, frames, activeStreams, locks>>
  BY Zenon, <1>2 DEF UploadRemoves
<1>9. PICK d : d = [c EXCEPT !.upload = "ok"] BY Zenon
<1>10. Put(commands, commands', s, d) BY Zenon, <1>2, <1>9 DEF UploadRemoves, FetchInv, Put
<1>11. Put(task, task', s, k) BY Zenon, <1>3, <1>8, Unput
<1>12. /\ d \in CommandRecord /\ d.init = c.init /\ d.upload = "ok" /\ d.eof = c.eof
       /\ d.cancel = c.cancel
  BY Zenon, <1>6, <1>9 DEF CommandRecord
<1>13. c.eof /\ p.at \notin {"idle", "init"} BY Zenon, <1>7, <1>8 DEF UploadOK
<1>14. s \notin uploadSenders' /\ activeStreams' = activeStreams BY Zenon, <1>8
<1>15. c.init = "replied" BY Zenon, <1>7, <1>8 DEF ControlOK
<1>16. ControlOK(p, d, k) BY Zenon, <1>7, <1>12, <1>15 DEF ControlOK
<1>17. Carried(d) = Carried(c) BY Zenon, <1>8, <1>12 DEF Carried
<1>18. UploadOK(p, d, k, s \in uploadSenders')
  BY Zenon, <1>7, <1>12, <1>13, <1>17 DEF UploadOK
<1>19. RegistryOK(p, d, k, s \in activeStreams', s \in uploadSenders')
  BY Zenon, <1>7, <1>12, <1>14 DEF RegistryOK
<1>20. StreamOK(p, d, k, f, s \in activeStreams', s \in uploadSenders')
  BY Zenon, <1>6, <1>7, <1>12, <1>16, <1>18, <1>19 DEF StreamOK
<1>21. /\ Moved(sendersLock, sendersLock', InitOf(s), commands[s].init = "active",
                d.init = "active")
       /\ Moved(activeLock, activeLock', CancelOf(s), commands[s].cancel = "senders",
                d.cancel = "senders")
  BY Zenon, <1>2, <1>8, <1>12, Unmoved
<1>. QED BY Zenon, <1>1, <1>4, <1>8, <1>10, <1>11, <1>20, <1>21, CommandStep

LEMMA CancelActiveStep ==
  ASSUME FetchInv, NEW s \in Stream, CancelActive(s)
  PROVE FetchInv'
<1>1. PICK p : p = page[s] BY Zenon
<1>2. PICK c : c = commands[s] BY Zenon
<1>3. PICK k : k = task[s] BY Zenon
<1>4. PICK f : f = frames[s] BY Zenon
<1>5. StreamOK(p, c, k, f, s \in activeStreams, s \in uploadSenders)
  BY Zenon, <1>1, <1>2, <1>3, <1>4, StreamOf
<1>6. p \in PageRecord /\ c \in CommandRecord /\ k \in TaskRecord /\ f \in Seq(Frame)
  BY Zenon, <1>5 DEF StreamOK
<1>7. /\ ControlOK(p, c, k) /\ UploadOK(p, c, k, s \in uploadSenders) /\ ResponseOK(p, k, f)
      /\ RegistryOK(p, c, k, s \in activeStreams, s \in uploadSenders)
  BY Zenon, <1>5 DEF StreamOK
<1>8. /\ c.cancel = "active" /\ activeLock = Free /\ activeLock' = CancelOf(s)
      /\ activeStreams' = activeStreams \ {s}
      /\ UNCHANGED <<page, task, frames, uploadSenders, sendersLock>>
  BY Zenon, <1>2 DEF CancelActive
<1>9. PICK d : d = [c EXCEPT !.cancel = "senders"] BY Zenon
<1>10. Put(commands, commands', s, d) BY Zenon, <1>2, <1>9 DEF CancelActive, FetchInv, Put
<1>11. Put(task, task', s, k) BY Zenon, <1>3, <1>8, Unput
<1>12. /\ d \in CommandRecord /\ d.init = c.init /\ d.upload = c.upload /\ d.eof = c.eof
       /\ d.cancel = "senders"
  BY Zenon, <1>6, <1>9 DEF CommandRecord
<1>13. c.init = "replied" /\ p.aborted /\ p.at # "init" BY Zenon, <1>7, <1>8 DEF ControlOK
<1>14. s \notin activeStreams' /\ uploadSenders' = uploadSenders BY Zenon, <1>8
<1>15. ControlOK(p, d, k) BY Zenon, <1>7, <1>12, <1>13 DEF ControlOK
<1>16. UploadOK(p, d, k, s \in uploadSenders')
  BY Zenon, <1>7, <1>12, <1>13, <1>14 DEF UploadOK
<1>17. RegistryOK(p, d, k, s \in activeStreams', s \in uploadSenders')
  BY Zenon, <1>7, <1>8, <1>12, <1>13, <1>14 DEF RegistryOK
<1>18. StreamOK(p, d, k, f, s \in activeStreams', s \in uploadSenders')
  BY Zenon, <1>6, <1>7, <1>12, <1>15, <1>16, <1>17 DEF StreamOK
<1>19. /\ Moved(sendersLock, sendersLock', InitOf(s), commands[s].init = "active",
                d.init = "active")
       /\ Moved(activeLock, activeLock', CancelOf(s), commands[s].cancel = "senders",
                d.cancel = "senders")
  BY Zenon, <1>2, <1>8, <1>12 DEF Moved
<1>. QED BY Zenon, <1>1, <1>4, <1>8, <1>10, <1>11, <1>18, <1>19, CommandStep

LEMMA CancelSenderStep ==
  ASSUME FetchInv, NEW s \in Stream, CancelSender(s)
  PROVE FetchInv'
<1>1. PICK p : p = page[s] BY Zenon
<1>2. PICK c : c = commands[s] BY Zenon
<1>3. PICK k : k = task[s] BY Zenon
<1>4. PICK f : f = frames[s] BY Zenon
<1>5. StreamOK(p, c, k, f, s \in activeStreams, s \in uploadSenders)
  BY Zenon, <1>1, <1>2, <1>3, <1>4, StreamOf
<1>6. p \in PageRecord /\ c \in CommandRecord /\ k \in TaskRecord /\ f \in Seq(Frame)
  BY Zenon, <1>5 DEF StreamOK
<1>7. /\ ControlOK(p, c, k) /\ UploadOK(p, c, k, s \in uploadSenders) /\ ResponseOK(p, k, f)
      /\ RegistryOK(p, c, k, s \in activeStreams, s \in uploadSenders)
  BY Zenon, <1>5 DEF StreamOK
<1>8. /\ c.cancel = "senders" /\ activeLock' = Free /\ uploadSenders' = uploadSenders \ {s}
      /\ UNCHANGED <<page, task, frames, activeStreams, sendersLock>>
  BY Zenon, <1>2 DEF CancelSender
<1>9. PICK d : d = [c EXCEPT !.cancel = "replied"] BY Zenon
<1>10. Put(commands, commands', s, d) BY Zenon, <1>2, <1>9 DEF CancelSender, FetchInv, Put
<1>11. Put(task, task', s, k) BY Zenon, <1>3, <1>8, Unput
<1>12. /\ d \in CommandRecord /\ d.init = c.init /\ d.upload = c.upload /\ d.eof = c.eof
       /\ d.cancel = "replied"
  BY Zenon, <1>6, <1>9 DEF CommandRecord
<1>13. c.init = "replied" /\ p.aborted /\ p.at # "init" BY Zenon, <1>7, <1>8 DEF ControlOK
<1>14. s \notin uploadSenders' /\ activeStreams' = activeStreams BY Zenon, <1>8
<1>15. ControlOK(p, d, k) BY Zenon, <1>7, <1>12, <1>13 DEF ControlOK
<1>16. UploadOK(p, d, k, s \in uploadSenders') BY Zenon, <1>7, <1>12, <1>13 DEF UploadOK
<1>17. RegistryOK(p, d, k, s \in activeStreams', s \in uploadSenders')
  BY Zenon, <1>7, <1>8, <1>12, <1>13, <1>14 DEF RegistryOK
<1>18. StreamOK(p, d, k, f, s \in activeStreams', s \in uploadSenders')
  BY Zenon, <1>6, <1>7, <1>12, <1>15, <1>16, <1>17 DEF StreamOK
<1>19. activeLock = CancelOf(s) BY Zenon, <1>2, <1>8 DEF FetchInv, LocksOK
<1>20. /\ Moved(sendersLock, sendersLock', InitOf(s), commands[s].init = "active",
                d.init = "active")
       /\ Moved(activeLock, activeLock', CancelOf(s), commands[s].cancel = "senders",
                d.cancel = "senders")
  BY Zenon, <1>2, <1>8, <1>12, <1>19 DEF Moved
<1>. QED BY Zenon, <1>1, <1>4, <1>8, <1>10, <1>11, <1>18, <1>20, CommandStep

LEMMA LeaveActiveStep ==
  ASSUME FetchInv, NEW s \in Stream, LeaveActive(s)
  PROVE FetchInv'
<1>1. PICK p : p = page[s] BY Zenon
<1>2. PICK c : c = commands[s] BY Zenon
<1>3. PICK k : k = task[s] BY Zenon
<1>4. PICK f : f = frames[s] BY Zenon
<1>5. StreamOK(p, c, k, f, s \in activeStreams, s \in uploadSenders)
  BY Zenon, <1>1, <1>2, <1>3, <1>4, StreamOf
<1>6. p \in PageRecord /\ c \in CommandRecord /\ k \in TaskRecord /\ f \in Seq(Frame)
  BY Zenon, <1>5 DEF StreamOK
<1>7. /\ ControlOK(p, c, k) /\ UploadOK(p, c, k, s \in uploadSenders) /\ ResponseOK(p, k, f)
      /\ RegistryOK(p, c, k, s \in activeStreams, s \in uploadSenders)
  BY Zenon, <1>5 DEF StreamOK
<1>8. /\ k.at = "leaving" /\ activeStreams' = activeStreams \ {s}
      /\ UNCHANGED <<page, commands, frames, uploadSenders, locks>>
  BY Zenon, <1>3 DEF LeaveActive
<1>9. PICK r : r = [k EXCEPT !.at = "done", !.receiver = FALSE] BY Zenon
<1>10. Put(task, task', s, r) BY Zenon, <1>3, <1>9 DEF LeaveActive, FetchInv, Put
<1>11. Put(commands, commands', s, c) BY Zenon, <1>2, <1>8, Unput
<1>12. /\ r \in TaskRecord /\ r.at = "done" /\ r.queue = k.queue /\ r.taken = k.taken
       /\ ~r.receiver /\ r.ended = k.ended /\ r.length = k.length /\ r.sent = k.sent
  BY Zenon, <1>6, <1>9 DEF TaskRecord
<1>13. c.init = "replied" BY Zenon, <1>7, <1>8 DEF ControlOK
<1>14. s \notin activeStreams' /\ uploadSenders' = uploadSenders BY Zenon, <1>8
<1>15. ControlOK(p, c, r) BY Zenon, <1>7, <1>8, <1>12, <1>13 DEF ControlOK
<1>16. UploadOK(p, c, r, s \in uploadSenders') BY Zenon, <1>7, <1>12, <1>14 DEF UploadOK
<1>17. RegistryOK(p, c, r, s \in activeStreams', s \in uploadSenders')
  BY Zenon, <1>7, <1>12, <1>13, <1>14 DEF RegistryOK
<1>18. ResponseOK(p, r, f) BY Zenon, <1>7, <1>8, <1>12 DEF ResponseOK, FramesOK
<1>19. StreamOK(p, c, r, f, s \in activeStreams', s \in uploadSenders')
  BY Zenon, <1>6, <1>12, <1>15, <1>16, <1>17, <1>18 DEF StreamOK
<1>20. /\ Moved(sendersLock, sendersLock', InitOf(s), commands[s].init = "active",
                c.init = "active")
       /\ Moved(activeLock, activeLock', CancelOf(s), commands[s].cancel = "senders",
                c.cancel = "senders")
  BY Zenon, <1>2, <1>8, Unmoved
<1>. QED BY Zenon, <1>1, <1>4, <1>8, <1>10, <1>11, <1>19, <1>20, CommandStep

LEMMA TakeBodyStep ==
  ASSUME FetchInv, NEW s \in Stream, TakeBody(s)
  PROVE FetchInv'
<1>1. PICK p : p = page[s] BY Zenon
<1>2. PICK c : c = commands[s] BY Zenon
<1>3. PICK k : k = task[s] BY Zenon
<1>4. PICK f : f = frames[s] BY Zenon
<1>5. StreamOK(p, c, k, f, s \in activeStreams, s \in uploadSenders)
  BY Zenon, <1>1, <1>2, <1>3, <1>4, StreamOf
<1>6. p \in PageRecord /\ c \in CommandRecord /\ k \in TaskRecord /\ f \in Seq(Frame)
  BY Zenon, <1>5 DEF StreamOK
<1>7. /\ ControlOK(p, c, k) /\ UploadOK(p, c, k, s \in uploadSenders) /\ ResponseOK(p, k, f)
      /\ RegistryOK(p, c, k, s \in activeStreams, s \in uploadSenders)
  BY Zenon, <1>5 DEF StreamOK
<1>8. /\ k.at \in {"handling", "streaming"} /\ k.receiver
      /\ UNCHANGED <<page, commands, frames, registries, locks>>
  BY Zenon, <1>3 DEF TakeBody
<1>9. c.init = "replied" BY Zenon, <1>7, <1>8 DEF ControlOK
<1>10. k.queue \in 0 .. Capacity /\ k.taken \in Nat /\ p.left \in Nat /\ p.body \in Nat
  BY <1>6, FetchAssumption DEF PageRecord, TaskRecord
<1>11. PICK r : /\ Put(task, task', s, r)
                /\ \/ k.queue > 0 /\ r = [k EXCEPT !.queue = k.queue - 1, !.taken = k.taken + 1]
                   \/ /\ k.queue = 0 /\ s \notin uploadSenders /\ c.upload \notin {"send", "remove"}
                      /\ r = [k EXCEPT !.ended = TRUE, !.receiver = FALSE]
                   \/ r = [k EXCEPT !.receiver = FALSE]
  BY Zenon, <1>2, <1>3 DEF TakeBody, FetchInv, Put
<1>12. /\ r \in TaskRecord /\ r.at = k.at /\ r.length = k.length /\ r.sent = k.sent
       /\ \/ /\ k.queue > 0 /\ r.queue = k.queue - 1 /\ r.taken = k.taken + 1
             /\ r.ended = k.ended /\ r.receiver
          \/ /\ k.queue = 0 /\ s \notin uploadSenders /\ c.upload \notin {"send", "remove"}
             /\ r.queue = k.queue /\ r.taken = k.taken /\ r.ended /\ ~r.receiver
          \/ r.queue = k.queue /\ r.taken = k.taken /\ r.ended = k.ended /\ ~r.receiver
  <2>1. CASE k.queue > 0 /\ r = [k EXCEPT !.queue = k.queue - 1, !.taken = k.taken + 1]
    <3>1. k.queue - 1 \in 0 .. Capacity /\ k.taken + 1 \in Nat BY <1>10, <2>1, FetchAssumption
    <3>. QED BY Zenon, <1>6, <1>8, <2>1, <3>1 DEF TaskRecord
  <2>2. CASE /\ k.queue = 0 /\ s \notin uploadSenders /\ c.upload \notin {"send", "remove"}
             /\ r = [k EXCEPT !.ended = TRUE, !.receiver = FALSE]
    BY Zenon, <1>6, <2>2 DEF TaskRecord
  <2>3. CASE r = [k EXCEPT !.receiver = FALSE] BY Zenon, <1>6, <2>3 DEF TaskRecord
  <2>. QED BY Zenon, <1>11, <2>1, <2>2, <2>3
<1>13. ControlOK(p, c, r) BY Zenon, <1>7, <1>8, <1>12 DEF ControlOK
<1>14. UploadOK(p, c, r, s \in uploadSenders)
  <2>1. ~k.ended /\ c.upload # "error" BY Zenon, <1>7, <1>8 DEF UploadOK
  <2>2. /\ c.upload \in {"send", "error"} => ~c.eof
        /\ c.upload = "remove" => c.eof
        /\ p.at = "closing" => c.eof /\ p.broken
        /\ p.at = "upload" /\ c.upload = "none" => ~c.eof
        /\ p.at \in {"idle", "init"} => c.upload = "none" /\ ~c.eof
    BY Zenon, <1>7, <1>8 DEF UploadOK
  <2>3. ~p.aborted /\ ~p.broken =>
          /\ p.left + Carried(c) + k.queue + k.taken = p.body
          /\ c.eof => p.left = 0
          /\ ~(s \in uploadSenders) /\ c.init \notin {"none", "senders"} => c.eof /\ c.upload # "send"
    BY Zenon, <1>7, <1>8 DEF UploadOK
  <2>4. Carried(c) \in Nat /\ (c.eof => Carried(c) = 0) BY Zenon DEF Carried
  <2>5. CASE k.queue > 0 /\ r.queue = k.queue - 1 /\ r.taken = k.taken + 1
             /\ r.ended = k.ended /\ r.receiver
    <3>1. ~p.aborted /\ ~p.broken => p.left + Carried(c) + r.queue + r.taken = p.body
      BY SMTT(30), <1>10, <2>3, <2>4, <2>5
    <3>. QED BY Zenon, <2>1, <2>2, <2>3, <2>5, <3>1 DEF UploadOK
  <2>6. CASE /\ k.queue = 0 /\ s \notin uploadSenders /\ c.upload \notin {"send", "remove"}
             /\ r.queue = k.queue /\ r.taken = k.taken /\ r.ended /\ ~r.receiver
    <3>1. ~p.aborted /\ ~p.broken => c.eof BY Zenon, <1>9, <2>3, <2>6
    <3>2. ~p.aborted /\ ~p.broken => r.taken = p.body BY SMTT(30), <1>10, <2>3, <2>4, <2>6, <3>1
    <3>. QED BY Zenon, <2>2, <2>6, <3>2 DEF UploadOK
  <2>7. CASE r.queue = k.queue /\ r.taken = k.taken /\ r.ended = k.ended /\ ~r.receiver
    BY Zenon, <2>1, <2>2, <2>7 DEF UploadOK
  <2>. QED BY Zenon, <1>12, <2>5, <2>6, <2>7
<1>15. RegistryOK(p, c, r, s \in activeStreams, s \in uploadSenders)
  BY Zenon, <1>7, <1>12 DEF RegistryOK
<1>16. ResponseOK(p, r, f) BY Zenon, <1>7, <1>12 DEF ResponseOK, FramesOK
<1>17. StreamOK(p, c, r, f, s \in activeStreams, s \in uploadSenders)
  BY Zenon, <1>6, <1>12, <1>13, <1>14, <1>15, <1>16 DEF StreamOK
<1>18. Put(frames, frames', s, f) BY Zenon, <1>4, <1>8, Unput
<1>. QED BY Zenon, <1>1, <1>2, <1>8, <1>11, <1>17, <1>18, TaskStep

LEMMA CheckActiveStep ==
  ASSUME FetchInv, NEW s \in Stream, CheckActive(s)
  PROVE FetchInv'
<1>1. PICK p : p = page[s] BY Zenon
<1>2. PICK c : c = commands[s] BY Zenon
<1>3. PICK k : k = task[s] BY Zenon
<1>4. PICK f : f = frames[s] BY Zenon
<1>5. StreamOK(p, c, k, f, s \in activeStreams, s \in uploadSenders)
  BY Zenon, <1>1, <1>2, <1>3, <1>4, StreamOf
<1>6. p \in PageRecord /\ c \in CommandRecord /\ k \in TaskRecord /\ f \in Seq(Frame)
  BY Zenon, <1>5 DEF StreamOK
<1>7. /\ ControlOK(p, c, k) /\ UploadOK(p, c, k, s \in uploadSenders) /\ ResponseOK(p, k, f)
      /\ RegistryOK(p, c, k, s \in activeStreams, s \in uploadSenders)
  BY Zenon, <1>5 DEF StreamOK
<1>8. /\ k.at = "streaming" /\ k.sent < k.length
      /\ UNCHANGED <<page, commands, frames, registries, locks>>
  BY Zenon, <1>3 DEF CheckActive
<1>9. PICK a \in {"sending", "finishing"} :
        /\ a = IF s \in activeStreams THEN "sending" ELSE "finishing"
        /\ a = "sending" <=> s \in activeStreams
  BY Zenon
<1>10. PICK r : r = [k EXCEPT !.at = a] BY Zenon
<1>11. Put(task, task', s, r) BY Zenon, <1>3, <1>9, <1>10 DEF CheckActive, FetchInv, Put
<1>12. /\ r \in TaskRecord /\ r.at = a /\ r.queue = k.queue /\ r.taken = k.taken
       /\ r.receiver = k.receiver /\ r.ended = k.ended /\ r.length = k.length /\ r.sent = k.sent
  BY Zenon, <1>6, <1>9, <1>10 DEF TaskRecord
<1>13. k.sent \in Nat /\ k.length \in Nat BY <1>6, FetchAssumption DEF TaskRecord
<1>14. ControlOK(p, c, r) BY Zenon, <1>7, <1>8, <1>9, <1>12, <1>13 DEF ControlOK
<1>15. UploadOK(p, c, r, s \in uploadSenders) BY Zenon, <1>7, <1>12 DEF UploadOK
<1>16. a = "finishing" => p.aborted BY Zenon, <1>7, <1>8, <1>9 DEF RegistryOK
<1>17. RegistryOK(p, c, r, s \in activeStreams, s \in uploadSenders)
  BY Zenon, <1>7, <1>9, <1>12, <1>16 DEF RegistryOK
<1>18. ResponseOK(p, r, f)
  <2>1. FramesOK(p, k, f) => FramesOK(p, r, f) BY Zenon, <1>8, <1>9, <1>12, <1>16 DEF FramesOK
  <2>. QED BY Zenon, <1>7, <1>8, <1>9, <1>12, <2>1 DEF ResponseOK
<1>19. StreamOK(p, c, r, f, s \in activeStreams, s \in uploadSenders)
  BY Zenon, <1>6, <1>12, <1>14, <1>15, <1>17, <1>18 DEF StreamOK
<1>20. Put(frames, frames', s, f) BY Zenon, <1>4, <1>8, Unput
<1>. QED BY Zenon, <1>1, <1>2, <1>8, <1>11, <1>19, <1>20, TaskStep

LEMMA Emitted ==
  ASSUME FetchInv, NEW s \in Stream, NEW h, Emit(s, h)
  PROVE /\ page[s].at = "gone" => Put(frames, frames', s, frames[s])
        /\ page[s].at # "gone" => Put(frames, frames', s, Append(frames[s], h))
BY Zenon DEF Emit, Put, FetchInv

LEMMA AppendIs ==
  ASSUME NEW f \in Seq(Frame), NEW h \in Frame
  PROVE /\ Append(f, h) \in Seq(Frame) /\ Len(f) \in Nat /\ Len(Append(f, h)) = Len(f) + 1
        /\ Append(f, h)[Len(f) + 1] = h
        /\ \A i \in DOMAIN Append(f, h) : /\ i \in Nat /\ 1 <= i /\ i <= Len(f) + 1
                                          /\ i <= Len(f) => i \in DOMAIN f /\ Append(f, h)[i] = f[i]
        /\ \A i \in Nat : 1 <= i /\ i <= Len(f) => Append(f, h)[i] = f[i]
BY SMTT(30)

\* A frame follows the ones the page has not received: data while chunks are sent,
\* an error or the end after the last of them.
LEMMA FramesAdd ==
  ASSUME NEW p \in PageRecord, NEW k \in TaskRecord, NEW r \in TaskRecord,
         NEW f \in Seq(Frame), NEW h \in Frame, FramesOK(p, k, f),
         k.at \in {"streaming", "sending", "finishing"},
         \/ /\ h = "data" /\ k.at = "sending" /\ r.at \in {"streaming", "finishing"}
            /\ r.sent = k.sent + 1 /\ (r.at = "finishing" => p.aborted)
         \/ h = "error" /\ k.at = "sending" /\ r.at = "finishing" /\ r.sent = k.sent
         \/ /\ h = "complete" /\ r.at = "leaving" /\ r.sent = k.sent /\ r.length = k.length
            /\ k.at = "finishing" \/ (k.at = "streaming" /\ k.sent = k.length)
  PROVE FramesOK(p, r, Append(f, h))
<1>1. PICK due : due = HeadsDue(p) + (k.sent - p.got) BY Zenon
<1>2. PICK now : now = HeadsDue(p) + (r.sent - p.got) BY Zenon
<1>3. PICK g : g = Append(f, h) BY Zenon
<1>4. /\ k.sent \in Nat /\ p.got \in Nat /\ r.sent \in Nat
      /\ HeadsDue(p) \in {0, 1}
  BY SMTT(30), FetchAssumption DEF PageRecord, TaskRecord, HeadsDue
<1>5. /\ p.got <= k.sent /\ due <= Len(f)
      /\ \A i \in DOMAIN f : /\ i <= HeadsDue(p) => f[i] = "head"
                             /\ HeadsDue(p) < i /\ i <= due => f[i] = "data"
                             /\ due < i => f[i] \in {"error", "complete"}
      /\ k.at \in {"streaming", "sending"} => Len(f) = due
      /\ k.at = "finishing" /\ ~p.aborted => Len(f) = due + 1 /\ f[due + 1] = "error"
  BY <1>1, Zenon DEF FramesOK
<1>6. due \in Nat /\ now \in Nat /\ HeadsDue(p) <= due /\ (now = due \/ now = due + 1)
      /\ p.got <= r.sent
  <2>1. r.sent = k.sent \/ r.sent = k.sent + 1 BY Zenon
  <2>2. PICK e \in Nat : e = HeadsDue(p) BY Zenon, <1>4
  <2>3. due = e + (k.sent - p.got) /\ now = e + (r.sent - p.got) BY Zenon, <1>1, <1>2, <2>2
  <2>4. due \in Nat /\ e <= due BY SMTT(30), <1>4, <1>5, <2>3
  <2>5. p.got <= r.sent /\ now \in Nat /\ (now = due \/ now = due + 1)
    BY <1>4, <1>5, <2>1, <2>3
  <2>. QED BY Zenon, <2>2, <2>4, <2>5
<1>7. /\ Len(f) \in Nat /\ Len(g) = Len(f) + 1 /\ g[Len(f) + 1] = h
      /\ \A i \in DOMAIN g : /\ i \in Nat /\ 1 <= i /\ i <= Len(f) + 1
                             /\ i <= Len(f) => i \in DOMAIN f /\ g[i] = f[i]
      /\ \A i \in Nat : 1 <= i /\ i <= Len(f) => g[i] = f[i]
  BY Zenon, <1>3, AppendIs
<1>8. /\ h = "data" => now = due + 1 /\ Len(f) = due
      /\ h # "data" => now = due /\ h \in {"error", "complete"}
      /\ r.at = "streaming" => h = "data"
      /\ r.at \in {"streaming", "finishing", "leaving"}
  BY SMTT(30), <1>1, <1>2, <1>4, <1>5
<1>9. ASSUME NEW i \in DOMAIN g
      PROVE /\ i <= HeadsDue(p) => g[i] = "head"
            /\ HeadsDue(p) < i /\ i <= now => g[i] = "data"
            /\ now < i => g[i] \in {"error", "complete"}
  <2>1. i \in Nat /\ 1 <= i /\ i <= Len(f) + 1 BY Zenon, <1>7
  <2>2. CASE i <= Len(f)
    <3>1. i \in DOMAIN f /\ g[i] = f[i] BY Zenon, <1>7, <2>2
    <3>2. /\ i <= HeadsDue(p) => f[i] = "head"
          /\ HeadsDue(p) < i /\ i <= due => f[i] = "data"
          /\ due < i => f[i] \in {"error", "complete"}
      BY Zenon, <1>5, <3>1
    <3>3. now = due \/ i <= due BY Zenon, <1>6, <1>8, <2>1, <2>2
    <3>. QED BY SMTT(30), <1>6, <2>1, <3>1, <3>2, <3>3
  <2>3. CASE i = Len(f) + 1
    <3>1. g[i] = h BY Zenon, <1>7, <2>3
    <3>2. HeadsDue(p) < i /\ due < i BY SMTT(30), <1>4, <1>5, <1>6, <1>7, <2>3
    <3>3. CASE h = "data" BY SMTT(30), <1>4, <1>6, <1>8, <2>1, <2>3, <3>1, <3>2, <3>3
    <3>4. CASE h # "data" BY SMTT(30), <1>4, <1>6, <1>8, <2>1, <2>3, <3>1, <3>2, <3>4
    <3>. QED BY Zenon, <3>3, <3>4
  <2>. QED BY SMTT(30), <1>7, <2>1, <2>2, <2>3
<1>10. now <= Len(g) BY SMTT(30), <1>5, <1>6, <1>7, <1>8
<1>11. r.at \in {"streaming", "sending"} => Len(g) = now BY Zenon, <1>6, <1>7, <1>8
<1>12. r.at = "finishing" /\ ~p.aborted => Len(g) = now + 1 /\ g[now + 1] = "error"
  <2>1. SUFFICES ASSUME r.at = "finishing", ~p.aborted
                 PROVE Len(g) = now + 1 /\ g[now + 1] = "error"
    BY Zenon
  <2>2. h = "error" /\ k.at = "sending" BY Zenon, <2>1
  <2>3. now = due /\ Len(f) = due BY Zenon, <1>5, <1>8, <2>2
  <2>. QED BY Zenon, <1>7, <2>2, <2>3
<1>13. r.at \in {"leaving", "done"} /\ ~p.aborted =>
         \/ r.sent = r.length
         \/ now < Len(g) /\ g[now + 1] = "error"
  <2>1. SUFFICES ASSUME r.at = "leaving", ~p.aborted, r.sent # r.length
                 PROVE now < Len(g) /\ g[now + 1] = "error"
    BY Zenon, <1>8
  <2>2. h = "complete" /\ k.at = "finishing" BY Zenon, <2>1
  <2>3. now = due /\ Len(f) = due + 1 /\ f[due + 1] = "error"
    BY Zenon, <1>5, <1>8, <2>1, <2>2
  <2>4. g[due + 1] = f[due + 1] BY SMTT(30), <1>6, <1>7, <2>3
  <2>. QED BY SMTT(30), <1>6, <1>7, <2>3, <2>4
<1>. QED BY <1>2, <1>3, <1>6, <1>9, <1>10, <1>11, <1>12, <1>13, Zenon DEF FramesOK

LEMMA RespondStep ==
  ASSUME FetchInv, NEW s \in Stream, Respond(s)
  PROVE FetchInv'
<1>1. PICK p : p = page[s] BY Zenon
<1>2. PICK c : c = commands[s] BY Zenon
<1>3. PICK k : k = task[s] BY Zenon
<1>4. PICK f : f = frames[s] BY Zenon
<1>5. StreamOK(p, c, k, f, s \in activeStreams, s \in uploadSenders)
  BY Zenon, <1>1, <1>2, <1>3, <1>4, StreamOf
<1>6. p \in PageRecord /\ c \in CommandRecord /\ k \in TaskRecord /\ f \in Seq(Frame)
  BY Zenon, <1>5 DEF StreamOK
<1>7. /\ ControlOK(p, c, k) /\ UploadOK(p, c, k, s \in uploadSenders) /\ ResponseOK(p, k, f)
      /\ RegistryOK(p, c, k, s \in activeStreams, s \in uploadSenders)
  BY Zenon, <1>5 DEF StreamOK
<1>8. /\ k.at = "handling" /\ Emit(s, "head")
      /\ UNCHANGED <<page, commands, registries, locks>>
  BY Zenon, <1>3 DEF Respond
<1>9. PICK n \in 0 .. MaxChunks :
        task' = [task EXCEPT ![s].at = IF p.at = "gone" THEN "leaving" ELSE "streaming",
                             ![s].length = n]
  BY Zenon, <1>1 DEF Respond
<1>10. PICK a \in {"leaving", "streaming"} : /\ a = IF p.at = "gone" THEN "leaving" ELSE "streaming"
                                             /\ a = "leaving" <=> p.at = "gone"
  BY Zenon
<1>11. PICK r : r = [k EXCEPT !.at = a, !.length = n] BY Zenon
<1>12. Put(task, task', s, r) BY Zenon, <1>3, <1>9, <1>10, <1>11 DEF FetchInv, Put
<1>13. /\ r \in TaskRecord /\ r.at = a /\ r.queue = k.queue /\ r.taken = k.taken
       /\ r.receiver = k.receiver /\ r.ended = k.ended /\ r.length = n /\ r.sent = k.sent
  BY Zenon, <1>6, <1>10, <1>11 DEF TaskRecord
<1>14. c.init = "replied" /\ k.sent = 0 BY Zenon, <1>7, <1>8 DEF ControlOK
<1>15. ControlOK(p, c, r) BY SMTT(30), <1>7, <1>8, <1>10, <1>13, <1>14 DEF ControlOK
<1>16. UploadOK(p, c, r, s \in uploadSenders) BY Zenon, <1>7, <1>13 DEF UploadOK
<1>17. RegistryOK(p, c, r, s \in activeStreams, s \in uploadSenders)
  BY Zenon, <1>7, <1>8, <1>10, <1>13 DEF RegistryOK
<1>18. f = <<>> /\ ~p.head /\ p.got = 0 /\ p.reader = "open"
  BY Zenon, <1>7, <1>8 DEF ResponseOK
<1>19. CASE p.at = "gone"
  <2>1. Put(frames, frames', s, f) BY Zenon, <1>1, <1>4, <1>8, <1>19, Emitted
  <2>2. ResponseOK(p, r, f) BY Zenon, <1>10, <1>13, <1>18, <1>19 DEF ResponseOK
  <2>3. StreamOK(p, c, r, f, s \in activeStreams, s \in uploadSenders)
    BY Zenon, <1>6, <1>13, <1>15, <1>16, <1>17, <2>2 DEF StreamOK
  <2>. QED BY Zenon, <1>1, <1>2, <1>8, <1>12, <2>1, <2>3, TaskStep
<1>20. CASE p.at # "gone"
  <2>1. PICK g : g = <<"head">> BY Zenon
  <2>2. Append(f, "head") = g BY <1>18, <2>1
  <2>3. Put(frames, frames', s, g) BY Zenon, <1>1, <1>4, <1>8, <1>20, <2>2, Emitted
  <2>4. g \in Seq(Frame) /\ Len(g) = 1 /\ DOMAIN g = {1} /\ g[1] = "head" BY <2>1 DEF Frame
  <2>5. HeadsDue(p) = 1 BY Zenon, <1>18 DEF HeadsDue
  <2>6. HeadsDue(p) + (r.sent - p.got) = 1 BY SMTT(30), <1>13, <1>14, <1>18, <2>5
  <2>7. FramesOK(p, r, g)
    BY SMTT(30), <1>10, <1>13, <1>14, <1>18, <1>20, <2>4, <2>5, <2>6 DEF FramesOK
  <2>8. ResponseOK(p, r, g) BY Zenon, <1>10, <1>13, <1>18, <2>7 DEF ResponseOK
  <2>9. StreamOK(p, c, r, g, s \in activeStreams, s \in uploadSenders)
    BY Zenon, <1>6, <1>13, <1>15, <1>16, <1>17, <2>4, <2>8 DEF StreamOK
  <2>. QED BY Zenon, <1>1, <1>2, <1>8, <1>12, <2>3, <2>9, TaskStep
<1>. QED BY Zenon, <1>19, <1>20

\* A task that has sent its head sends a frame.
LEMMA EmitStep ==
  ASSUME FetchInv, NEW s \in Stream, NEW h \in Frame, NEW r \in TaskRecord, Emit(s, h),
         UNCHANGED <<page, commands, registries, locks>>, Put(task, task', s, r),
         task[s].at \in {"streaming", "sending", "finishing"},
         r.at \notin {"none", "handling"}, r.length = task[s].length,
         ControlOK(page[s], commands[s], r),
         UploadOK(page[s], commands[s], r, s \in uploadSenders),
         RegistryOK(page[s], commands[s], r, s \in activeStreams, s \in uploadSenders),
         page[s].at # "gone" /\ FramesOK(page[s], task[s], frames[s]) =>
           FramesOK(page[s], r, Append(frames[s], h))
  PROVE FetchInv'
<1>1. PICK p : p = page[s] BY Zenon
<1>2. PICK c : c = commands[s] BY Zenon
<1>3. PICK k : k = task[s] BY Zenon
<1>4. PICK f : f = frames[s] BY Zenon
<1>5. StreamOK(p, c, k, f, s \in activeStreams, s \in uploadSenders)
  BY Zenon, <1>1, <1>2, <1>3, <1>4, StreamOf
<1>6. p \in PageRecord /\ c \in CommandRecord /\ k \in TaskRecord /\ f \in Seq(Frame)
  BY Zenon, <1>5 DEF StreamOK
<1>7. /\ ControlOK(p, c, k) /\ UploadOK(p, c, k, s \in uploadSenders) /\ ResponseOK(p, k, f)
      /\ RegistryOK(p, c, k, s \in activeStreams, s \in uploadSenders)
  BY Zenon, <1>5 DEF StreamOK
<1>8. k.at \notin {"none", "handling"} BY Zenon, <1>3
<1>9. p.reader = "closed" /\ ~p.aborted => p.got = r.length BY Zenon, <1>3, <1>7 DEF ResponseOK
<1>10. CASE p.at = "gone"
  <2>1. Put(frames, frames', s, f) BY Zenon, <1>1, <1>4, <1>10, Emitted
  <2>2. ResponseOK(p, r, f) BY Zenon, <1>9, <1>10 DEF ResponseOK
  <2>3. StreamOK(p, c, r, f, s \in activeStreams, s \in uploadSenders)
    BY Zenon, <1>1, <1>2, <1>6, <2>2 DEF StreamOK
  <2>. QED BY Zenon, <1>1, <1>2, <2>1, <2>3, TaskStep
<1>11. CASE p.at # "gone"
  <2>1. PICK g : g = Append(f, h) BY Zenon
  <2>2. Put(frames, frames', s, g) BY Zenon, <1>1, <1>4, <1>11, <2>1, Emitted
  <2>3. g \in Seq(Frame) BY Zenon, <1>6, <2>1, AppendIs
  <2>4. p.reader = "open" => FramesOK(p, k, f) BY Zenon, <1>7, <1>8, <1>11 DEF ResponseOK
  <2>5. p.reader = "open" => FramesOK(p, r, g) BY Zenon, <1>1, <1>3, <1>4, <1>11, <2>1, <2>4
  <2>6. ResponseOK(p, r, g) BY Zenon, <1>9, <2>5 DEF ResponseOK
  <2>7. StreamOK(p, c, r, g, s \in activeStreams, s \in uploadSenders)
    BY Zenon, <1>1, <1>2, <1>6, <2>3, <2>6 DEF StreamOK
  <2>. QED BY Zenon, <1>1, <1>2, <2>2, <2>7, TaskStep
<1>. QED BY Zenon, <1>10, <1>11

LEMMA EmitChunkStep ==
  ASSUME FetchInv, NEW s \in Stream, EmitChunk(s)
  PROVE FetchInv'
<1>1. PICK p : p = page[s] BY Zenon
<1>2. PICK c : c = commands[s] BY Zenon
<1>3. PICK k : k = task[s] BY Zenon
<1>4. PICK f : f = frames[s] BY Zenon
<1>5. StreamOK(p, c, k, f, s \in activeStreams, s \in uploadSenders)
  BY Zenon, <1>1, <1>2, <1>3, <1>4, StreamOf
<1>6. p \in PageRecord /\ c \in CommandRecord /\ k \in TaskRecord /\ f \in Seq(Frame)
  BY Zenon, <1>5 DEF StreamOK
<1>7. /\ ControlOK(p, c, k) /\ UploadOK(p, c, k, s \in uploadSenders) /\ ResponseOK(p, k, f)
      /\ RegistryOK(p, c, k, s \in activeStreams, s \in uploadSenders)
  BY Zenon, <1>5 DEF StreamOK
<1>8. k.at = "sending" /\ UNCHANGED <<page, commands, registries, locks>>
  BY Zenon, <1>3 DEF EmitChunk
<1>9. c.init = "replied" /\ k.sent < k.length BY Zenon, <1>7, <1>8 DEF ControlOK
<1>10. k.sent \in Nat /\ k.length \in 0 .. MaxChunks BY <1>6, FetchAssumption DEF TaskRecord
<1>11. k.at \in {"streaming", "sending", "finishing"} BY Zenon, <1>8
<1>12. CASE /\ Emit(s, "data")
            /\ task' = [task EXCEPT ![s].sent = @ + 1, ![s].at =
                          IF page[s].at = "gone" THEN "finishing" ELSE "streaming"]
  <2>1. PICK n \in 0 .. MaxChunks : n = k.sent + 1 /\ n <= k.length
    BY <1>9, <1>10, FetchAssumption
  <2>2. PICK a \in {"finishing", "streaming"} :
          /\ a = IF p.at = "gone" THEN "finishing" ELSE "streaming"
          /\ a = "finishing" <=> p.at = "gone"
    BY Zenon
  <2>3. PICK r : r = [k EXCEPT !.sent = n, !.at = a] BY Zenon
  <2>4. Put(task, task', s, r) BY Zenon, <1>1, <1>3, <1>12, <2>1, <2>2, <2>3 DEF FetchInv, Put
  <2>5. /\ r \in TaskRecord /\ r.at = a /\ r.queue = k.queue /\ r.taken = k.taken
        /\ r.receiver = k.receiver /\ r.ended = k.ended /\ r.length = k.length /\ r.sent = n
    BY Zenon, <1>6, <2>2, <2>3 DEF TaskRecord
  <2>6. ControlOK(p, c, r) BY Zenon, <1>7, <1>9, <2>1, <2>2, <2>5 DEF ControlOK
  <2>7. UploadOK(p, c, r, s \in uploadSenders) BY Zenon, <1>7, <2>5 DEF UploadOK
  <2>8. RegistryOK(p, c, r, s \in activeStreams, s \in uploadSenders)
    BY Zenon, <1>7, <1>8, <2>2, <2>5 DEF RegistryOK
  <2>9. p.at # "gone" /\ FramesOK(p, k, f) => FramesOK(p, r, Append(f, "data"))
    <3>1. SUFFICES ASSUME p.at # "gone", FramesOK(p, k, f) PROVE FramesOK(p, r, Append(f, "data"))
      BY Zenon
    <3>2. r.at = "streaming" /\ r.sent = k.sent + 1 BY Zenon, <2>1, <2>2, <2>5, <3>1
    <3>3. "data" \in Frame BY Zenon DEF Frame
    <3>. QED BY Zenon, <1>6, <1>8, <2>5, <3>1, <3>2, <3>3, FramesAdd
  <2>10. "data" \in Frame /\ r.at \notin {"none", "handling"} BY Zenon, <2>2, <2>5 DEF Frame
  <2>. QED
    BY Zenon, <1>1, <1>2, <1>3, <1>4, <1>8, <1>11, <1>12, <2>4, <2>5, <2>6, <2>7, <2>8, <2>9,
              <2>10, EmitStep
<1>13. CASE Emit(s, "error") /\ task' = [task EXCEPT ![s].at = "finishing"]
  <2>1. PICK r : r = [k EXCEPT !.at = "finishing"] BY Zenon
  <2>2. Put(task, task', s, r) BY Zenon, <1>3, <1>13, <2>1 DEF FetchInv, Put
  <2>3. /\ r \in TaskRecord /\ r.at = "finishing" /\ r.queue = k.queue /\ r.taken = k.taken
        /\ r.receiver = k.receiver /\ r.ended = k.ended /\ r.length = k.length /\ r.sent = k.sent
    BY Zenon, <1>6, <2>1 DEF TaskRecord
  <2>4. ControlOK(p, c, r) BY SMTT(30), <1>7, <1>9, <1>10, <2>3 DEF ControlOK
  <2>5. UploadOK(p, c, r, s \in uploadSenders) BY Zenon, <1>7, <2>3 DEF UploadOK
  <2>6. RegistryOK(p, c, r, s \in activeStreams, s \in uploadSenders)
    BY Zenon, <1>7, <2>3 DEF RegistryOK
  <2>7. "error" \in Frame /\ r.at \notin {"none", "handling"} BY Zenon, <2>3 DEF Frame
  <2>8. FramesOK(p, k, f) => FramesOK(p, r, Append(f, "error"))
    BY Zenon, <1>6, <1>8, <2>3, <2>7, FramesAdd
  <2>. QED
    BY Zenon, <1>1, <1>2, <1>3, <1>4, <1>8, <1>11, <1>13, <2>2, <2>3, <2>4, <2>5, <2>6, <2>7,
       <2>8,
              EmitStep
<1>. QED BY Zenon, <1>12, <1>13 DEF EmitChunk

LEMMA CompleteStep ==
  ASSUME FetchInv, NEW s \in Stream, Complete(s)
  PROVE FetchInv'
<1>1. PICK p : p = page[s] BY Zenon
<1>2. PICK c : c = commands[s] BY Zenon
<1>3. PICK k : k = task[s] BY Zenon
<1>4. PICK f : f = frames[s] BY Zenon
<1>5. StreamOK(p, c, k, f, s \in activeStreams, s \in uploadSenders)
  BY Zenon, <1>1, <1>2, <1>3, <1>4, StreamOf
<1>6. p \in PageRecord /\ c \in CommandRecord /\ k \in TaskRecord /\ f \in Seq(Frame)
  BY Zenon, <1>5 DEF StreamOK
<1>7. /\ ControlOK(p, c, k) /\ UploadOK(p, c, k, s \in uploadSenders) /\ ResponseOK(p, k, f)
      /\ RegistryOK(p, c, k, s \in activeStreams, s \in uploadSenders)
  BY Zenon, <1>5 DEF StreamOK
<1>8. /\ k.at = "finishing" \/ (k.at = "streaming" /\ k.sent = k.length)
      /\ Emit(s, "complete") /\ UNCHANGED <<page, commands, registries, locks>>
  BY Zenon, <1>3 DEF Complete
<1>9. PICK r : r = [k EXCEPT !.at = "leaving"] BY Zenon
<1>10. Put(task, task', s, r) BY Zenon, <1>3, <1>9 DEF Complete, FetchInv, Put
<1>11. /\ r \in TaskRecord /\ r.at = "leaving" /\ r.queue = k.queue /\ r.taken = k.taken
       /\ r.receiver = k.receiver /\ r.ended = k.ended /\ r.length = k.length /\ r.sent = k.sent
  BY Zenon, <1>6, <1>9 DEF TaskRecord
<1>12. ControlOK(p, c, r) BY Zenon, <1>7, <1>8, <1>11 DEF ControlOK
<1>13. UploadOK(p, c, r, s \in uploadSenders) BY Zenon, <1>7, <1>11 DEF UploadOK
<1>14. RegistryOK(p, c, r, s \in activeStreams, s \in uploadSenders)
  BY Zenon, <1>7, <1>11 DEF RegistryOK
<1>15. /\ "complete" \in Frame /\ r.at \notin {"none", "handling"}
       /\ k.at \in {"streaming", "sending", "finishing"}
  BY Zenon, <1>8, <1>11 DEF Frame
<1>16. FramesOK(p, k, f) => FramesOK(p, r, Append(f, "complete"))
  BY Zenon, <1>6, <1>8, <1>11, <1>15, FramesAdd
<1>. QED
  BY Zenon, <1>1, <1>2, <1>3, <1>4, <1>8, <1>10, <1>11, <1>12, <1>13, <1>14, <1>15, <1>16,
     EmitStep

LEMMA FetchQuiet == FetchInv /\ UNCHANGED fetchVars => FetchInv'
BY SMTT(30) DEF FetchInv, fetchVars, LocksOK

LEMMA FetchInvStep == FetchInv /\ [FetchNext]_fetchVars => FetchInv'
<1>. SUFFICES ASSUME FetchInv, FetchNext PROVE FetchInv' BY Zenon, FetchQuiet
<1>1. PICK s \in Stream :
        \/ Fetch(s) \/ Abort(s) \/ InitAnswered(s) \/ UploadNext(s) \/ UploadAnswered(s)
        \/ CancelAnswered(s) \/ Receive(s) \/ Unload(s)
        \/ RegisterSender(s) \/ RegisterActive(s) \/ Build(s)
        \/ UploadLooks(s) \/ UploadSends(s) \/ UploadRemoves(s)
        \/ CancelActive(s) \/ CancelSender(s)
        \/ TakeBody(s) \/ Respond(s) \/ CheckActive(s) \/ EmitChunk(s) \/ Complete(s)
        \/ LeaveActive(s)
  BY Zenon DEF FetchNext
<1>. QED
  BY Zenon, <1>1, FetchBeginStep, AbortStep, InitAnsweredStep, UploadNextStep,
     UploadAnsweredStep,
            CancelAnsweredStep, ReceiveStep, UnloadStep, RegisterSenderStep, RegisterActiveStep,
            BuildStep, UploadLooksStep, UploadSendsStep, UploadRemovesStep, CancelActiveStep,
            CancelSenderStep, TakeBodyStep, RespondStep, CheckActiveStep, EmitChunkStep,
            CompleteStep, LeaveActiveStep

\* The invariant of a fetch: page, commands, task and channel of every stream, and the
\* two locks.
THEOREM FetchInvariant == FetchSpec => []FetchInv
BY FetchInitInv, FetchInvStep, PTL DEF FetchSpec

\* Type correctness of FetchBridge: a lock is held by a command between its two locks.
THEOREM FetchTypeCorrect == FetchSpec => []FetchTypeOK
<1>1. FetchInv => FetchTypeOK
  <2>. SUFFICES ASSUME FetchInv PROVE FetchTypeOK BY Zenon
  <2>1. ASSUME NEW s \in Stream
        PROVE /\ page[s].promise \in {"pending", "resolved", "rejected"}
              /\ page[s].reader \in {"open", "closed", "errored"}
              /\ page[s].left \in 0..MaxChunks /\ page[s].got \in 0..MaxChunks
              /\ task[s].queue \in 0..Capacity
              /\ task[s].sent \in 0..MaxChunks
              /\ frames[s] \in Seq({"head", "data", "error", "complete"})
    <3>1. page[s] \in PageRecord /\ task[s] \in TaskRecord /\ frames[s] \in Seq(Frame)
      BY Zenon, StreamOf DEF StreamOK
    <3>. QED BY Zenon, <3>1 DEF PageRecord, TaskRecord, Frame
  <2>. QED BY Zenon, <2>1 DEF FetchTypeOK, FetchInv, LocksOK
<1>. QED BY <1>1, FetchInvariant, PTL

\* A body whose end is seen has been delivered whole, in both directions, for bodies and
\* channels of every size (init_plugin_stream, upload_plugin_chunk, onmessage).
THEOREM BodiesWhole == FetchSpec => []BodiesAreWhole
<1>1. FetchInv => BodiesAreWhole
  <2>. SUFFICES ASSUME FetchInv, NEW s \in Stream
                PROVE /\ page[s].reader = "closed" /\ ~page[s].aborted =>
                           page[s].got = task[s].length
                      /\ task[s].ended /\ ~page[s].aborted /\ ~page[s].broken =>
                           task[s].taken = page[s].body
    BY Zenon DEF BodiesAreWhole
  <2>. QED BY Zenon, StreamOf DEF StreamOK, UploadOK, ResponseOK
<1>. QED BY <1>1, FetchInvariant, PTL

\* Nothing of a finished stream stays registered, however its end, its upload and its
\* cancellation overlapped (upload_plugin_chunk, cancel_plugin_stream).
THEOREM RegistriesDrain == FetchSpec => []RegistryDrained
<1>1. FetchInv => RegistryDrained
  <2>. SUFFICES ASSUME FetchInv, NEW s \in Stream, page[s].at = "ended", task[s].at = "done",
                       commands[s].cancel \in {"none", "done"}
                PROVE s \notin activeStreams \cup uploadSenders
    BY Zenon DEF RegistryDrained
  <2>1. commands[s].init = "replied" BY Zenon, StreamOf DEF StreamOK, ControlOK
  <2>. QED BY Zenon, <2>1, StreamOf DEF StreamOK, RegistryOK
<1>. QED BY <1>1, FetchInvariant, PTL

-----------------------------------------------------------------------------
(* Filesystems                                                             *)

Pc == {"idle", "catalog", "lock", "locked", "remove", "mark", "import", "project",
       "residency", "open"}

CallType ==
  [op : Operation \cup {"none"}, fs : Fs \cup {None}, list : SUBSET Fs,
   handle : {"none", "cached", "orphan"}, barred : BOOLEAN, pc : Pc]

\* A call knows its filesystem and holds the mutex where the code does.
Holds(t) ==
  LET c == tasks[t] IN
  /\ c.pc # "idle" \/ c.handle # "none" => c.fs \in Fs
  /\ c.pc \in {"locked", "remove", "residency"} => lock = t

\* What a call relies on: an instance being opened is not remembered yet, one that is
\* held is remembered until its filesystem is deleted, and a call about to forget an
\* instance has deleted the filesystem.
Relies(t) ==
  LET c == tasks[t] IN
  /\ c.pc = "residency" => c.fs \notin cached
  /\ c.pc = "remove" => entry[c.fs] = "deleted"
  /\ c.op = "tombstone" /\ c.pc \in {"lock", "locked"} => entry[c.fs] = "deleted"
  /\ c.handle = "cached" => c.fs \in cached
  /\ c.handle = "orphan" => entry[c.fs] = "deleted"

FsInv == TypeOK /\ \A t \in Task : Holds(t) /\ Relies(t)

LEMMA InitInv == Init => FsInv
  BY DEF Init, FsInv, TypeOK, Holds, Relies, Idle, Operation

LEMMA IdleType == Idle \in CallType
  BY Zenon DEF Idle, CallType, Pc, Operation

\* One call changes its place, or ends.
LEMMA GotoType ==
  ASSUME TypeOK, NEW t \in Task, NEW pc \in Pc, Goto(t, pc)
  PROVE  tasks' \in [Task -> CallType]
<1>1. [tasks[t] EXCEPT !.pc = pc] \in CallType  BY DEF TypeOK, CallType, Pc
<1> QED  BY Zenon, <1>1 DEF TypeOK, CallType, Pc, Goto

LEMMA EndType ==
  ASSUME TypeOK, NEW t \in Task, End(t)
  PROVE  tasks' \in [Task -> CallType]
  BY Zenon, IdleType DEF TypeOK, CallType, Pc, End

\* The handles of forgotten instances are kept.
LEMMA OrphanedType ==
  ASSUME TypeOK, NEW F
  PROVE  Orphaned(F) \in [Task -> CallType]
<1>1. ASSUME NEW s \in Task
      PROVE  /\ tasks[s] \in CallType
             /\ [tasks[s] EXCEPT !.handle = "orphan"] \in CallType
  BY DEF TypeOK, CallType, Pc
<1> QED  BY Zenon, <1>1 DEF Orphaned

LEMMA ForgetType ==
  ASSUME TypeOK, NEW t \in Task, NEW F, Forget(t, F)
  PROVE  cached' \subseteq Fs /\ tasks' \in [Task -> CallType]
  BY Zenon, OrphanedType, IdleType DEF TypeOK, Forget

LEMMA TypeFromParts ==
  ASSUME tasks' \in [Task -> CallType],
         entry' \in [Fs -> {"absent", "live", "deleted"}],
         projection' \in [Fs -> {"local", "selected", "evicted"}],
         data' \subseteq Fs, cached' \subseteq Fs, selected' \subseteq Fs, owed' \subseteq Fs,
         lock' \in Task \cup {None}
  PROVE  TypeOK'
  BY Zenon DEF TypeOK, CallType, Pc

LEMMA CallInv ==
  ASSUME FsInv, NEW t \in Task, NEW op \in Operation, NEW f \in Fs, Call(t, op, f)
  PROVE  FsInv'
<1>1. tasks' \in [Task -> CallType]
  BY ZenonT(60) DEF FsInv, TypeOK, CallType, Pc, Operation, Call, Start, Idle
<1>2. TypeOK'
  BY Zenon, <1>1, TypeFromParts DEF FsInv, TypeOK, Holds, Call, Start, Idle
<1>3. ASSUME NEW s \in Task PROVE Holds(s)'
  BY FsNoneAssumption DEF FsInv, TypeOK, Holds, Call, Start, Idle
<1>4. ASSUME NEW s \in Task PROVE Relies(s)'
  BY Zenon, FsNoneAssumption DEF FsInv, TypeOK, Holds, Relies, Call, Start, Idle
<1> QED  BY Zenon, <1>2, <1>3, <1>4 DEF FsInv

LEMMA LockInv ==
  ASSUME FsInv, NEW t \in Task, Lock(t)
  PROVE  FsInv'
<1>1. tasks' \in [Task -> CallType]
  <2>1. Goto(t, "locked")  BY Zenon DEF Lock
  <2> QED  BY Zenon, <2>1, GotoType DEF FsInv, Pc
<1>2. TypeOK'
  BY Zenon, <1>1, TypeFromParts DEF FsInv, TypeOK, Holds, Lock, At
<1>3. ASSUME NEW s \in Task PROVE Holds(s)'
  BY FsNoneAssumption DEF FsInv, TypeOK, Holds, Lock, At, Goto
<1>4. ASSUME NEW s \in Task PROVE Relies(s)'
  BY FsNoneAssumption DEF FsInv, TypeOK, Holds, Relies, Lock, At, Goto
<1> QED  BY Zenon, <1>2, <1>3, <1>4 DEF FsInv

LEMMA CancelInv ==
  ASSUME FsInv, NEW t \in Task, Cancel(t)
  PROVE  FsInv'
<1>1. tasks' \in [Task -> CallType]
  <2>1. End(t)  BY Zenon DEF Cancel
  <2> QED  BY Zenon, <2>1, EndType DEF FsInv
<1>2. TypeOK'
  BY Zenon, <1>1, TypeFromParts DEF FsInv, TypeOK, Holds, Cancel
<1>3. ASSUME NEW s \in Task PROVE Holds(s)'
  BY Zenon, FsNoneAssumption DEF FsInv, TypeOK, Holds, Cancel, End, Idle
<1>4. ASSUME NEW s \in Task PROVE Relies(s)'
  BY Zenon, FsNoneAssumption DEF FsInv, TypeOK, Holds, Relies, Cancel, End, Idle
<1> QED  BY Zenon, <1>2, <1>3, <1>4 DEF FsInv

LEMMA CreateInv ==
  ASSUME FsInv, NEW t \in Task, Create(t)
  PROVE  FsInv'
<1>1. tasks' \in [Task -> CallType]
  <2>1. End(t)  BY Zenon DEF Create
  <2> QED  BY Zenon, <2>1, EndType DEF FsInv
<1>2. TypeOK'
  BY Zenon, <1>1, TypeFromParts DEF FsInv, TypeOK, Holds, Create, At, Entry
<1>3. ASSUME NEW s \in Task PROVE Holds(s)'
  BY Zenon, FsNoneAssumption DEF FsInv, TypeOK, Holds, Create, At, Entry, End, Idle
<1>4. ASSUME NEW s \in Task PROVE Relies(s)'
  BY Zenon, FsNoneAssumption DEF FsInv, TypeOK, Holds, Relies, Create, At, Entry, End, Idle
<1> QED  BY Zenon, <1>2, <1>3, <1>4 DEF FsInv

LEMMA DeleteInv ==
  ASSUME FsInv, NEW t \in Task, Delete(t)
  PROVE  FsInv'
<1>1. tasks' \in [Task -> CallType]
  <2>1. Goto(t, "remove") \/ End(t)  BY Zenon DEF Delete
  <2> QED  BY Zenon, <2>1, GotoType, EndType DEF FsInv, Pc
<1>2. TypeOK'
  BY <1>1, TypeFromParts DEF FsInv, TypeOK, Holds, Delete, At, Entry
<1>3. ASSUME NEW s \in Task PROVE Holds(s)'
  BY FsNoneAssumption DEF FsInv, TypeOK, Holds, Delete, At, Entry, Goto, End, Idle
<1>4. ASSUME NEW s \in Task PROVE Relies(s)'
  BY FsNoneAssumption DEF FsInv, TypeOK, Holds, Relies, Delete, At, Entry, Goto, End, Idle
<1> QED  BY Zenon, <1>2, <1>3, <1>4 DEF FsInv

LEMMA TombstoneInv ==
  ASSUME FsInv, NEW t \in Task, Tombstone(t)
  PROVE  FsInv'
<1>1. tasks' \in [Task -> CallType]
  <2>1. Goto(t, "lock")  BY Zenon DEF Tombstone
  <2> QED  BY Zenon, <2>1, GotoType DEF FsInv, Pc
<1>2. TypeOK'
  BY Zenon, <1>1, TypeFromParts DEF FsInv, TypeOK, Holds, Tombstone, At, Entry
<1>3. ASSUME NEW s \in Task PROVE Holds(s)'
  BY FsNoneAssumption DEF FsInv, TypeOK, Holds, Tombstone, At, Entry, Goto
<1>4. ASSUME NEW s \in Task PROVE Relies(s)'
  BY FsNoneAssumption DEF FsInv, TypeOK, Holds, Relies, Tombstone, At, Entry, Goto
<1> QED  BY Zenon, <1>2, <1>3, <1>4 DEF FsInv

LEMMA RemoveInv ==
  ASSUME FsInv, NEW t \in Task, Remove(t)
  PROVE  FsInv'
<1>1. cached' \subseteq Fs /\ tasks' \in [Task -> CallType]
  <2>1. Forget(t, {tasks[t].fs})  BY Zenon DEF Remove
  <2> QED  BY Zenon, <2>1, ForgetType DEF FsInv
<1>2. TypeOK'
  BY Zenon, <1>1, TypeFromParts DEF FsInv, TypeOK, Holds, Remove, At
<1>3. ASSUME NEW s \in Task PROVE Holds(s)'
  BY FsNoneAssumption DEF FsInv, TypeOK, Holds, Remove, At, Forget, Orphaned, Idle
<1>4. ASSUME NEW s \in Task PROVE Relies(s)'
  BY ZenonT(30), FsNoneAssumption DEF FsInv, TypeOK, Holds, Relies, Remove, At, Forget,
     Orphaned, Idle
<1> QED  BY Zenon, <1>2, <1>3, <1>4 DEF FsInv

LEMMA SnapshotInv ==
  ASSUME FsInv, NEW t \in Task, Snapshot(t)
  PROVE  FsInv'
<1>1. tasks' \in [Task -> CallType]
  <2>1. Entry(t) \in {"absent", "live", "deleted"} => Goto(t, "mark") \/ Goto(t, "import") \/ End(t)
    BY Zenon DEF Snapshot
  <2>2. Entry(t) \in {"absent", "live", "deleted"}
    BY Zenon DEF FsInv, TypeOK, Holds, Entry, Snapshot, At
  <2> QED  BY Zenon, <2>1, <2>2, GotoType, EndType DEF FsInv, Pc
<1>2. TypeOK'
  BY Zenon, <1>1, TypeFromParts DEF FsInv, TypeOK, Holds, Snapshot, At, Entry
<1>3. ASSUME NEW s \in Task PROVE Holds(s)'
  BY FsNoneAssumption DEF FsInv, TypeOK, Holds, Snapshot, At, Entry, Goto, End, Idle
<1>4. ASSUME NEW s \in Task PROVE Relies(s)'
  BY FsNoneAssumption DEF FsInv, TypeOK, Holds, Relies, Snapshot, At, Entry, Goto, End, Idle
<1> QED  BY Zenon, <1>2, <1>3, <1>4 DEF FsInv

LEMMA MarkInv ==
  ASSUME FsInv, NEW t \in Task, Mark(t)
  PROVE  FsInv'
<1>1. tasks' \in [Task -> CallType]
  <2>1. Goto(t, "lock")  BY Zenon DEF Mark
  <2> QED  BY Zenon, <2>1, GotoType DEF FsInv, Pc
<1>2. TypeOK'
  BY Zenon, <1>1, TypeFromParts DEF FsInv, TypeOK, Holds, Mark, At
<1>3. ASSUME NEW s \in Task PROVE Holds(s)'
  BY FsNoneAssumption DEF FsInv, TypeOK, Holds, Mark, At, Goto
<1>4. ASSUME NEW s \in Task PROVE Relies(s)'
  BY FsNoneAssumption DEF FsInv, TypeOK, Holds, Relies, Mark, At, Goto
<1> QED  BY Zenon, <1>2, <1>3, <1>4 DEF FsInv

LEMMA ImportInv ==
  ASSUME FsInv, NEW t \in Task, Import(t)
  PROVE  FsInv'
<1>1. tasks' \in [Task -> CallType]
  <2>1. Goto(t, "project")  BY Zenon DEF Import
  <2> QED  BY Zenon, <2>1, GotoType DEF FsInv, Pc
<1>2. TypeOK'
  BY Zenon, <1>1, TypeFromParts DEF FsInv, TypeOK, Holds, Import, At
<1>3. ASSUME NEW s \in Task PROVE Holds(s)'
  BY FsNoneAssumption DEF FsInv, TypeOK, Holds, Import, At, Goto
<1>4. ASSUME NEW s \in Task PROVE Relies(s)'
  BY FsNoneAssumption DEF FsInv, TypeOK, Holds, Relies, Import, At, Goto
<1> QED  BY Zenon, <1>2, <1>3, <1>4 DEF FsInv

LEMMA ProjectInv ==
  ASSUME FsInv, NEW t \in Task, Project(t)
  PROVE  FsInv'
<1>1. tasks' \in [Task -> CallType]
  <2>1. Goto(t, "lock")  BY Zenon DEF Project
  <2> QED  BY Zenon, <2>1, GotoType DEF FsInv, Pc
<1>2. TypeOK'
  BY Zenon, <1>1, TypeFromParts DEF FsInv, TypeOK, Holds, Project, At
<1>3. ASSUME NEW s \in Task PROVE Holds(s)'
  BY FsNoneAssumption DEF FsInv, TypeOK, Holds, Project, At, Goto
<1>4. ASSUME NEW s \in Task PROVE Relies(s)'
  BY FsNoneAssumption DEF FsInv, TypeOK, Holds, Relies, Project, At, Goto
<1> QED  BY Zenon, <1>2, <1>3, <1>4 DEF FsInv

LEMMA OpenCachedInv ==
  ASSUME FsInv, NEW t \in Task, OpenCached(t)
  PROVE  FsInv'
<1>1. tasks' \in [Task -> CallType]
  <2>1. tasks[t] \in CallType  BY Zenon DEF FsInv, TypeOK, CallType, Pc
  <2>2. [tasks[t] EXCEPT !.pc = "open", !.handle = "cached"] \in CallType
    BY ZenonT(60), <2>1 DEF CallType, Pc
  <2> QED  BY <2>2 DEF FsInv, TypeOK, CallType, Pc, OpenCached
<1>2. TypeOK'
  BY Zenon, <1>1, TypeFromParts DEF FsInv, TypeOK, Holds, OpenCached, At
<1>3. ASSUME NEW s \in Task PROVE Holds(s)'
  BY FsNoneAssumption DEF FsInv, TypeOK, Holds, OpenCached, At
<1>4. ASSUME NEW s \in Task PROVE Relies(s)'
  BY FsNoneAssumption DEF FsInv, TypeOK, Holds, Relies, OpenCached, At
<1> QED  BY Zenon, <1>2, <1>3, <1>4 DEF FsInv

LEMMA OpenFreshInv ==
  ASSUME FsInv, NEW t \in Task, OpenFresh(t)
  PROVE  FsInv'
<1>1. tasks' \in [Task -> CallType]
  <2>1. Goto(t, "residency")  BY Zenon DEF OpenFresh
  <2> QED  BY Zenon, <2>1, GotoType DEF FsInv, Pc
<1>2. TypeOK'
  BY Zenon, <1>1, TypeFromParts DEF FsInv, TypeOK, Holds, OpenFresh, At, Entry
<1>3. ASSUME NEW s \in Task PROVE Holds(s)'
  BY FsNoneAssumption DEF FsInv, TypeOK, Holds, OpenFresh, At, Entry, Goto
<1>4. ASSUME NEW s \in Task PROVE Relies(s)'
  BY FsNoneAssumption DEF FsInv, TypeOK, Holds, Relies, OpenFresh, At, Entry, Goto
<1> QED  BY Zenon, <1>2, <1>3, <1>4 DEF FsInv

LEMMA OpenedInv ==
  ASSUME FsInv, NEW t \in Task, Opened(t)
  PROVE  FsInv'
<1>1. tasks[t].fs \in Fs /\ tasks[t].fs \notin cached /\ lock = t
  BY Zenon DEF FsInv, Holds, Relies, Opened, At
<1>2. tasks' = [tasks EXCEPT ![t].pc = "open", ![t].handle = "cached"]
  <2>1. ASSUME NEW s \in Task PROVE ~(tasks[s].handle = "cached" /\ tasks[s].fs = tasks[t].fs)
    BY Zenon, <1>1 DEF FsInv, Relies
  <2>2. Orphaned({tasks[t].fs}) = tasks  BY Zenon, <2>1 DEF FsInv, TypeOK, Orphaned
  <2> QED  BY Zenon, <2>2 DEF Opened
<1>3. tasks' \in [Task -> CallType]
  <2>1. tasks[t] \in CallType  BY Zenon DEF FsInv, TypeOK, CallType, Pc
  <2>2. [tasks[t] EXCEPT !.pc = "open", !.handle = "cached"] \in CallType
    BY ZenonT(60), <2>1 DEF CallType, Pc
  <2> QED  BY <1>2, <2>2 DEF FsInv, TypeOK, CallType, Pc
<1>4. TypeOK'  BY Zenon, <1>1, <1>3, TypeFromParts DEF FsInv, TypeOK, Opened
<1>5. ASSUME NEW s \in Task PROVE Holds(s)'
  <2>1. CASE s = t
    <3>1. tasks'[t].pc = "open" /\ tasks'[t].fs = tasks[t].fs
      BY <1>2 DEF FsInv, TypeOK
    <3> QED  BY Zenon, <1>1, <2>1, <3>1 DEF Holds
  <2>2. CASE s # t
    <3>1. tasks'[s] = tasks[s] /\ lock # s  BY Zenon, <1>1, <1>2, <2>2 DEF FsInv, TypeOK
    <3> QED  BY Zenon, <3>1 DEF FsInv, Holds
  <2> QED  BY Zenon, <2>1, <2>2
<1>6. ASSUME NEW s \in Task PROVE Relies(s)'
  BY SMTT(30), <1>1, <1>2 DEF FsInv, TypeOK, Holds, Relies, Opened
<1> QED  BY Zenon, <1>4, <1>5, <1>6 DEF FsInv

LEMMA OpenFailsInv ==
  ASSUME FsInv, NEW t \in Task, OpenFails(t)
  PROVE  FsInv'
<1>1. tasks' \in [Task -> CallType]
  <2>1. End(t)  BY Zenon DEF OpenFails
  <2> QED  BY Zenon, <2>1, EndType DEF FsInv
<1>2. TypeOK'
  BY Zenon, <1>1, TypeFromParts DEF FsInv, TypeOK, Holds, OpenFails, At
<1>3. ASSUME NEW s \in Task PROVE Holds(s)'
  BY Zenon, FsNoneAssumption DEF FsInv, TypeOK, Holds, OpenFails, At, End, Idle
<1>4. ASSUME NEW s \in Task PROVE Relies(s)'
  BY Zenon, FsNoneAssumption DEF FsInv, TypeOK, Holds, Relies, OpenFails, At, End, Idle
<1> QED  BY Zenon, <1>2, <1>3, <1>4 DEF FsInv

LEMMA MessageInv ==
  ASSUME FsInv, NEW t \in Task, Message(t)
  PROVE  FsInv'
<1>1. tasks' \in [Task -> CallType]
  <2>1. tasks[t] \in CallType  BY Zenon DEF FsInv, TypeOK, CallType, Pc
  <2>2. [tasks[t] EXCEPT !.pc = "lock", !.barred = Entry(t) = "deleted"] \in CallType
    BY ZenonT(60), <2>1 DEF CallType, Pc
  <2> QED  BY <2>2 DEF FsInv, TypeOK, CallType, Pc, Message
<1>2. TypeOK'
  BY Zenon, <1>1, TypeFromParts DEF FsInv, TypeOK, Holds, Message, At, Entry
<1>3. ASSUME NEW s \in Task PROVE Holds(s)'
  BY FsNoneAssumption DEF FsInv, TypeOK, Holds, Message, At, Entry
<1>4. ASSUME NEW s \in Task PROVE Relies(s)'
  BY FsNoneAssumption DEF FsInv, TypeOK, Holds, Relies, Message, At, Entry
<1> QED  BY Zenon, <1>2, <1>3, <1>4 DEF FsInv

LEMMA CloseInv ==
  ASSUME FsInv, NEW t \in Task, Close(t)
  PROVE  FsInv'
<1>1. tasks' \in [Task -> CallType]
  <2>1. End(t)  BY Zenon DEF Close
  <2> QED  BY Zenon, <2>1, EndType DEF FsInv
<1>2. TypeOK'
  BY Zenon, <1>1, TypeFromParts DEF FsInv, TypeOK, Holds, Close
<1>3. ASSUME NEW s \in Task PROVE Holds(s)'
  BY Zenon, FsNoneAssumption DEF FsInv, TypeOK, Holds, Close, End, Idle
<1>4. ASSUME NEW s \in Task PROVE Relies(s)'
  BY Zenon, FsNoneAssumption DEF FsInv, TypeOK, Holds, Relies, Close, End, Idle
<1> QED  BY Zenon, <1>2, <1>3, <1>4 DEF FsInv

LEMMA ReadSelectedInv ==
  ASSUME FsInv, NEW t \in Task, ReadSelected(t)
  PROVE  FsInv'
<1>1. tasks' \in [Task -> CallType]
  BY DEF FsInv, TypeOK, CallType, Pc, Operation, ReadSelected, At
<1>2. TypeOK'
  BY Zenon, <1>1, TypeFromParts DEF FsInv, TypeOK, Holds, ReadSelected, At
<1>3. ASSUME NEW s \in Task PROVE Holds(s)'
  BY FsNoneAssumption DEF FsInv, TypeOK, Holds, ReadSelected, At
<1>4. ASSUME NEW s \in Task PROVE Relies(s)'
  BY FsNoneAssumption DEF FsInv, TypeOK, Holds, Relies, ReadSelected, At
<1> QED  BY Zenon, <1>2, <1>3, <1>4 DEF FsInv

LEMMA WriteInv ==
  ASSUME FsInv, NEW t \in Task, Write(t)
  PROVE  FsInv'
<1>1. TypeOK'  BY Zenon DEF FsInv, TypeOK, Holds, Write
<1>2. \A s \in Task : Holds(s)' /\ Relies(s)'  BY Zenon DEF FsInv, Holds, Relies, Write
<1> QED  BY Zenon, <1>1, <1>2 DEF FsInv

\* Only copies nobody holds are evicted, so that no handle is orphaned.
LEMMA EvictInv ==
  ASSUME FsInv, NEW t \in Task, Evict(t)
  PROVE  FsInv'
<1>1. PICK gone \in SUBSET Evictable(tasks[t].list),
           dropped \in {{}} \cup {{f} : f \in Evictable(tasks[t].list)} :
        /\ data' = data \ gone
        /\ projection' = [f \in Fs |-> IF f \in gone THEN "evicted" ELSE projection[f]]
        /\ Forget(t, gone \cup dropped)
  BY ZenonT(60) DEF Evict
<1>2. gone \cup dropped \subseteq Evictable(tasks[t].list)  BY Zenon
<1>3. TypeOK'
  <2>1. cached' \subseteq Fs /\ tasks' \in [Task -> CallType]
    BY Zenon, <1>1, ForgetType DEF FsInv
  <2>2. projection' \in [Fs -> {"local", "selected", "evicted"}]
    BY Zenon, <1>1 DEF FsInv, TypeOK
  <2> QED  BY Zenon, <1>1, <2>1, <2>2, TypeFromParts DEF FsInv, TypeOK, Evict
<1>4. ASSUME NEW s \in Task
      PROVE  /\ tasks'[s] = IF s = t THEN Idle ELSE tasks[s]
             /\ s # t /\ tasks[s].handle = "cached" => tasks[s].fs \in cached'
  <2>1. tasks[s].handle = "cached" => tasks[s].fs \notin gone \cup dropped
    BY Zenon, <1>2 DEF FsInv, Relies, Evictable, InUse
  <2> QED  BY Zenon, <1>1, <2>1 DEF FsInv, TypeOK, Relies, Forget, Orphaned
<1>5. tasks[t].pc = "locked" /\ lock = t /\ cached' \subseteq cached
  BY Zenon, <1>1 DEF FsInv, Holds, Evict, At, Forget
<1>6. \A s \in Task : Holds(s)'  BY <1>4, <1>5 DEF FsInv, Holds, Evict, Idle
<1>7. \A s \in Task : Relies(s)'  BY <1>4, <1>5 DEF FsInv, Relies, Evict, Idle
<1> QED  BY Zenon, <1>3, <1>6, <1>7 DEF FsInv

LEMMA SelectInv ==
  ASSUME FsInv, NEW f \in Fs, Select(f)
  PROVE  FsInv'
<1>1. TypeOK'  BY Zenon DEF FsInv, TypeOK, Select
<1>2. \A s \in Task : Holds(s)' /\ Relies(s)'  BY Zenon DEF FsInv, Holds, Relies, Select
<1> QED  BY Zenon, <1>1, <1>2 DEF FsInv

LEMMA RestartInv ==
  ASSUME FsInv, Restart
  PROVE  FsInv'
<1>1. TypeOK'  BY Zenon, IdleType, TypeFromParts DEF FsInv, TypeOK, Restart
<1>2. \A s \in Task : Holds(s)' /\ Relies(s)'  BY Zenon DEF Holds, Relies, Restart, Idle
<1> QED  BY Zenon, <1>1, <1>2 DEF FsInv

LEMMA StutterInv ==
  ASSUME FsInv, UNCHANGED vars
  PROVE  FsInv'
<1>1. TypeOK'  BY Zenon DEF FsInv, TypeOK, vars
<1>2. \A s \in Task : Holds(s)' /\ Relies(s)'  BY Zenon DEF FsInv, Holds, Relies, vars
<1> QED  BY Zenon, <1>1, <1>2 DEF FsInv

\* FsInv is inductive: every step of ScopedFileSystemRuntime, of its sessions and of
\* the eviction tick keeps it.
THEOREM FsInvariance == Spec => []FsInv
<1>1. FsInv /\ [Next]_vars => FsInv'
  <2> SUFFICES ASSUME FsInv, [Next]_vars PROVE FsInv'  BY Zenon
  <2>1. ASSUME NEW t \in Task, NEW op \in Operation, NEW f \in Fs, Call(t, op, f) PROVE FsInv'
    BY Zenon, <2>1, CallInv
  <2>2. ASSUME NEW t \in Task,
               Lock(t) \/ Cancel(t) \/ Step(t) \/ Write(t) \/ Message(t) \/ Close(t)
        PROVE  FsInv'
    <3>1. CASE Lock(t) \/ Cancel(t) \/ Write(t) \/ Message(t) \/ Close(t)
      BY Zenon, <3>1, LockInv, CancelInv, WriteInv, MessageInv, CloseInv
    <3>2. CASE Step(t)
      BY <3>2, CreateInv, DeleteInv, TombstoneInv, RemoveInv, SnapshotInv, MarkInv, ImportInv,
         ProjectInv, OpenCachedInv, OpenFreshInv, OpenedInv, OpenFailsInv, ReadSelectedInv,
         EvictInv DEF Step
    <3> QED  BY Zenon, <2>2, <3>1, <3>2
  <2>3. ASSUME NEW f \in Fs, Select(f) PROVE FsInv'  BY Zenon, <2>3, SelectInv
  <2> QED  BY Zenon, <2>1, <2>2, <2>3, RestartInv, StutterInv DEF Next
<1> QED  BY InitInv, <1>1, PTL DEF Spec

\* For every set of tasks and filesystems the runtime's state keeps its types.
THEOREM FsTypeCorrect == Spec => []TypeOK
<1>1. FsInv => TypeOK  BY Zenon DEF FsInv
<1> QED  BY FsInvariance, <1>1, PTL

\* For every set of tasks and filesystems, no session ever holds an instance the
\* runtime has forgotten unless the filesystem is deleted: no second instance is
\* opened on its files, and no copy is evicted under a session.
THEOREM OneInstanceEach == Spec => []OneInstance
<1>1. FsInv => OneInstance  BY Zenon DEF FsInv, OneInstance, Relies
<1> QED  BY FsInvariance, <1>1, PTL

\* An open that began after the deletion finds the tombstone wherever it stands, so
\* it is never the one that opens the files.
Late(t) ==
  /\ tasks[t].barred => tasks[t].fs \in Fs /\ entry[tasks[t].fs] = "deleted"
  /\ tasks[t].pc = "residency" => ~tasks[t].barred

LateInv == \A t \in Task : Late(t)

\* No catalog write brings a deleted filesystem back.
Tombstoned == \A f \in Fs : entry[f] = "deleted" => entry'[f] = "deleted"

\* What a step makes of a call: it ends, it begins (again), or it goes on, to an open
\* only from the catalog's answer or from the remembered instances.
GoesOn(s) ==
  \/ tasks'[s] = Idle
  \/ /\ tasks'[s].pc \notin {"residency", "open"} /\ tasks'[s].fs \in Fs
     /\ tasks'[s].barred => entry[tasks'[s].fs] = "deleted"
  \/ /\ tasks'[s].fs = tasks[s].fs /\ tasks'[s].barred = tasks[s].barred
     /\ tasks'[s].pc = "residency" => tasks[s].pc = "residency" \/ entry[tasks[s].fs] = "live"
     /\ tasks'[s].pc = "open" =>
          tasks[s].pc \in {"open", "residency"} \/ tasks[s].fs \in cached

\* The step of LateOpensFromMemory.
LateStep ==
  /\ Tombstoned
  /\ \A t \in Task :
       tasks[t].barred /\ tasks[t].pc # "open" /\ tasks'[t].pc = "open" =>
         tasks[t].fs \in cached

LEMMA GoesOnLate ==
  ASSUME LateInv, Tombstoned, \A s \in Task : GoesOn(s)
  PROVE  LateInv' /\ LateStep
<1>1. ASSUME NEW s \in Task PROVE Late(s)'
  <2>1. CASE tasks'[s] = Idle
    <3>1. ~tasks'[s].barred /\ tasks'[s].pc # "residency"  BY <2>1 DEF Idle
    <3> QED  BY Zenon, <3>1 DEF Late
  <2>2. CASE /\ tasks'[s].pc \notin {"residency", "open"} /\ tasks'[s].fs \in Fs
             /\ tasks'[s].barred => entry[tasks'[s].fs] = "deleted"
    BY Zenon, <2>2 DEF Tombstoned, Late
  <2>3. CASE /\ tasks'[s].fs = tasks[s].fs /\ tasks'[s].barred = tasks[s].barred
             /\ tasks'[s].pc = "residency" =>
                  tasks[s].pc = "residency" \/ entry[tasks[s].fs] = "live"
    <3>1. tasks[s].barred => tasks[s].fs \in Fs  BY Zenon DEF LateInv, Late
    <3>2. tasks[s].barred => entry'[tasks[s].fs] = "deleted"
      BY Zenon, <3>1 DEF Tombstoned, LateInv, Late
    <3>3. entry[tasks[s].fs] = "live" => ~tasks[s].barred  BY DEF LateInv, Late
    <3> QED  BY Zenon, <2>3, <3>2, <3>3 DEF LateInv, Late
  <2> QED  BY Zenon, <2>1, <2>2, <2>3 DEF GoesOn
<1>2. ASSUME NEW s \in Task, tasks[s].barred, tasks[s].pc # "open", tasks'[s].pc = "open"
      PROVE  tasks[s].fs \in cached
  <2>1. tasks'[s] # Idle  BY <1>2 DEF Idle
  <2>2. tasks[s].pc # "residency"  BY Zenon, <1>2 DEF LateInv, Late
  <2> QED  BY Zenon, <1>2, <2>1, <2>2 DEF GoesOn
<1> QED  BY Zenon, <1>1, <1>2 DEF LateInv, LateStep

LEMMA SameGoesOn == ASSUME NEW s \in Task, tasks'[s] = tasks[s] PROVE GoesOn(s)
  BY Zenon DEF GoesOn

LEMMA GotoGoesOn ==
  ASSUME FsInv, NEW t \in Task, NEW pc, Goto(t, pc),
         pc # "open", pc = "residency" => Entry(t) = "live"
  PROVE  \A s \in Task : GoesOn(s)
<1>1. /\ tasks'[t].pc = pc /\ tasks'[t].fs = tasks[t].fs /\ tasks'[t].barred = tasks[t].barred
      /\ \A s \in Task \ {t} : tasks'[s] = tasks[s]
  BY DEF FsInv, TypeOK, Goto
<1>2. GoesOn(t)  BY Zenon, <1>1 DEF GoesOn, Entry
<1> QED  BY Zenon, <1>1, <1>2, SameGoesOn

LEMMA EndGoesOn ==
  ASSUME FsInv, NEW t \in Task, End(t) PROVE \A s \in Task : GoesOn(s)
<1>1. tasks'[t] = Idle /\ \A s \in Task \ {t} : tasks'[s] = tasks[s]
  BY Zenon DEF FsInv, TypeOK, End
<1>2. GoesOn(t)  BY Zenon, <1>1 DEF GoesOn
<1> QED  BY Zenon, <1>1, <1>2, SameGoesOn

\* The calls whose instance is forgotten keep their place.
LEMMA OrphanedGoesOn ==
  ASSUME FsInv, NEW F, NEW s \in Task, tasks'[s] = Orphaned(F)[s] PROVE GoesOn(s)
<1>1. /\ tasks'[s].fs = tasks[s].fs /\ tasks'[s].barred = tasks[s].barred
      /\ tasks'[s].pc = tasks[s].pc
  BY DEF FsInv, TypeOK, Orphaned
<1> QED  BY Zenon, <1>1 DEF GoesOn

LEMMA ForgetGoesOn ==
  ASSUME FsInv, NEW t \in Task, NEW F, Forget(t, F) PROVE \A s \in Task : GoesOn(s)
<1>1. tasks'[t] = Idle /\ \A s \in Task \ {t} : tasks'[s] = Orphaned(F)[s]
  BY Zenon DEF Forget, Orphaned
<1>2. GoesOn(t)  BY Zenon, <1>1 DEF GoesOn
<1> QED  BY Zenon, <1>1, <1>2, OrphanedGoesOn

\* A session opens the remembered instance, or the one it just made.
LEMMA OpensGoesOn ==
  ASSUME FsInv, NEW t \in Task, OpenCached(t) \/ Opened(t)
  PROVE  \A s \in Task : GoesOn(s)
<1>1. CASE OpenCached(t)
  <2>1. /\ tasks'[t].fs = tasks[t].fs /\ tasks'[t].barred = tasks[t].barred
        /\ tasks'[t].pc = "open" /\ \A s \in Task \ {t} : tasks'[s] = tasks[s]
    BY <1>1 DEF FsInv, TypeOK, OpenCached
  <2>2. GoesOn(t)  BY Zenon, <1>1, <2>1 DEF GoesOn, OpenCached
  <2> QED  BY Zenon, <2>1, <2>2, SameGoesOn
<1>2. CASE Opened(t)
  <2> DEFINE F == {tasks[t].fs}
  <2>1. Orphaned(F) \in [Task -> CallType]  BY Zenon, OrphanedType DEF FsInv
  <2>2. Orphaned(F)[t].fs = tasks[t].fs /\ Orphaned(F)[t].barred = tasks[t].barred
    BY DEF FsInv, TypeOK, Orphaned
  <2> HIDE DEF F
  <2>3. tasks' = [Orphaned(F) EXCEPT ![t].pc = "open", ![t].handle = "cached"]
    BY Zenon, <1>2 DEF Opened, F
  <2>4. /\ tasks'[t].fs = tasks[t].fs /\ tasks'[t].barred = tasks[t].barred
        /\ tasks'[t].pc = "open" /\ \A s \in Task \ {t} : tasks'[s] = Orphaned(F)[s]
    BY <2>1, <2>2, <2>3 DEF CallType
  <2>5. GoesOn(t)  BY Zenon, <1>2, <2>4 DEF GoesOn, Opened, At
  <2> QED  BY Zenon, <2>4, <2>5, OrphanedGoesOn
<1> QED  BY Zenon, <1>1, <1>2

\* A call begins, a session's next message opens again, a list of selections is read.
LEMMA BeginGoesOn ==
  ASSUME FsInv, NEW t \in Task,
         \/ \E op \in Operation, f \in Fs : Call(t, op, f)
         \/ Message(t)
         \/ ReadSelected(t)
  PROVE  \A s \in Task : GoesOn(s)
<1>1. \A s \in Task \ {t} : tasks'[s] = tasks[s]
  BY Zenon DEF FsInv, TypeOK, Call, Message, ReadSelected
<1>2. ASSUME NEW op \in Operation, NEW f \in Fs, Call(t, op, f) PROVE GoesOn(t)
  <2>1. /\ tasks'[t].pc = Start(op) /\ tasks'[t].fs = f
        /\ tasks'[t].barred = (entry[f] = "deleted")
    BY <1>2 DEF FsInv, TypeOK, Call, Idle
  <2>2. Start(op) \notin {"residency", "open"}  BY DEF Start
  <2> QED  BY Zenon, <2>1, <2>2 DEF GoesOn
<1>3. ASSUME Message(t) PROVE GoesOn(t)
  <2>1. tasks[t].fs \in Fs  BY <1>3 DEF FsInv, Holds, Message, At
  <2>2. /\ tasks'[t].pc \notin {"residency", "open"} /\ tasks'[t].fs = tasks[t].fs
        /\ tasks'[t].barred = (entry[tasks[t].fs] = "deleted")
    BY <1>3 DEF FsInv, TypeOK, Message, Entry
  <2> QED  BY Zenon, <2>1, <2>2 DEF GoesOn
<1>4. ASSUME ReadSelected(t) PROVE GoesOn(t)
  <2>1. /\ tasks'[t].pc \notin {"residency", "open"} /\ tasks'[t].fs = tasks[t].fs
        /\ tasks'[t].barred = tasks[t].barred
    BY <1>4 DEF FsInv, TypeOK, ReadSelected
  <2> QED  BY Zenon, <2>1 DEF GoesOn
<1> QED  BY Zenon, <1>1, <1>2, <1>3, <1>4, SameGoesOn

\* What every step does to the calls.
LEMMA NextGoesOn ==
  ASSUME FsInv, [Next]_vars PROVE \A s \in Task : GoesOn(s)
<1>1. ASSUME NEW t \in Task,
             Lock(t) \/ Tombstone(t) \/ Mark(t) \/ Import(t) \/ Project(t) \/ OpenFresh(t)
      PROVE  \A s \in Task : GoesOn(s)
  BY Zenon, <1>1, GotoGoesOn DEF Lock, Tombstone, Mark, Import, Project, OpenFresh
<1>2. ASSUME NEW t \in Task, Cancel(t) \/ Create(t) \/ OpenFails(t) \/ Close(t)
      PROVE  \A s \in Task : GoesOn(s)
  BY Zenon, <1>2, EndGoesOn DEF Cancel, Create, OpenFails, Close
<1>3. ASSUME NEW t \in Task, Delete(t) PROVE \A s \in Task : GoesOn(s)
  BY Zenon, <1>3, GotoGoesOn, EndGoesOn DEF Delete
<1>4. ASSUME NEW t \in Task, Snapshot(t) PROVE \A s \in Task : GoesOn(s)
  <2>1. Goto(t, "mark") \/ Goto(t, "import") \/ End(t)
    BY <1>4 DEF FsInv, TypeOK, Holds, Snapshot, At, Entry
  <2> QED  BY Zenon, <2>1, GotoGoesOn, EndGoesOn
<1>5. ASSUME NEW t \in Task, Remove(t) \/ Evict(t) PROVE \A s \in Task : GoesOn(s)
  BY Zenon, <1>5, ForgetGoesOn DEF Remove, Evict
<1>6. CASE \/ \E t \in Task : Write(t)
           \/ \E f \in Fs : Select(f)
           \/ UNCHANGED vars
  BY Zenon, <1>6, SameGoesOn DEF Write, Select, vars
<1>7. CASE Restart
  BY Zenon, <1>7 DEF Restart, GoesOn
<1> QED
  BY Zenon, <1>1, <1>2, <1>3, <1>4, <1>5, <1>6, <1>7, OpensGoesOn, BeginGoesOn
     DEF Next, Step

LEMMA NextTombstoned == ASSUME FsInv, [Next]_vars PROVE Tombstoned
<1>1. ASSUME NEW t \in Task, Create(t) PROVE Tombstoned
  BY <1>1 DEF FsInv, TypeOK, Create, Entry, Tombstoned
<1>2. ASSUME NEW t \in Task, Delete(t) \/ Tombstone(t) \/ Import(t) PROVE Tombstoned
  BY <1>2 DEF FsInv, TypeOK, Delete, Tombstone, Import, Tombstoned
<1>3. CASE UNCHANGED entry  BY Zenon, <1>3 DEF Tombstoned
<1> QED
  BY Zenon, <1>1, <1>2, <1>3
     DEF Next, Step, Call, Lock, Cancel, Remove, Snapshot, Mark, Project, OpenCached,
         OpenFresh, Opened, OpenFails, Write, Message, Close, ReadSelected, Evict, Select,
         Restart, vars

\* A deletion is final, and an open that began after it is answered at most with the
\* instance the runtime still remembers: open_resource reads the catalog before it opens
\* the files, and import_snapshot keeps a tombstone.  This is how far the code goes in
\* failing closed, where DeletionBlocksOpens asks for more than it does.
THEOREM LateOpens == Spec => LateOpensFromMemory
<1>1. Init => LateInv
  <2>1. ~Idle.barred /\ Idle.pc # "residency"  BY DEF Idle
  <2> QED  BY Zenon, <2>1 DEF Init, LateInv, Late
<1>2. FsInv /\ LateInv /\ [Next]_vars => LateInv' /\ LateStep
  BY Zenon, NextGoesOn, NextTombstoned, GoesOnLate
<1>3. LateStep => [/\ \A f \in Fs : entry[f] = "deleted" => entry'[f] = "deleted"
                   /\ \A t \in Task :
                        tasks[t].barred /\ tasks[t].pc # "open" /\ tasks'[t].pc = "open" =>
                          tasks[t].fs \in cached]_vars
  BY Zenon DEF LateStep, Tombstoned
<1> QED  BY FsInvariance, <1>1, <1>2, <1>3, PTL DEF Spec, LateOpensFromMemory
===============================================================================
