--------------------------- MODULE SyncClientProofs ---------------------------
(*****************************************************************************)
(* ResourceSync for any devices, links and changes: no stale policy on one   *)
(* side makes a device take, or be given, what the other side's policy       *)
(* excludes, and a deleted resource is not opened again.  ServiceClients for *)
(* any number of clients and applications: the parts of a client agree.      *)
(* They share no variable.                                                   *)
(*****************************************************************************)
EXTENDS ResourceSync, ServiceClients, TLAPS

-------------------------------------------------------------------------------
(* Replication streams                                                      *)

EndType ==
  [pc : {"idle", "auth", "wait", "send", "ready", "recv", "check"},
   deleted : BOOLEAN, local : BOOLEAN, late : BOOLEAN, frame : SUBSET Edit]

FrameType ==
  [kind : {"none", "hello", "ok", "content"}, deleted : BOOLEAN, edits : SUBSET Edit]

\* The two ends of a stream are on the two devices of a link.
LEMMA EndFacts ==
  ASSUME NEW e \in End
  PROVE  /\ Self(e) \in Device /\ Peer(e) \in Device /\ Self(e) # Peer(e)
         /\ Mate(e) \in End /\ Mate(e) # e
         /\ Self(Mate(e)) = Peer(e) /\ Peer(Mate(e)) = Self(e)
<1>1. PICK l \in Link : l[1] < l[2] /\ e[1] = l /\ e[2] \in {"ini", "res"} /\ e = <<l, e[2]>>
  BY DEF End
<1>2. l[1] \in Device /\ l[2] \in Device /\ l[1] \in Nat /\ l[2] \in Nat 
  <2>1. l \in Device \X Device  BY Zenon, SyncAssumption
  <2>2. l[1] \in Device /\ l[2] \in Device  BY Zenon, <2>1
  <2> QED  BY Zenon, <2>2, SyncAssumption
<1>3. Mate(e) \in End /\ Mate(e)[1] = l /\ Mate(e)[2] \in {"ini", "res"} /\ Mate(e)[2] # e[2]
  BY Zenon, <1>1 DEF Mate, End
<1> QED  BY <1>1, <1>2, <1>3 DEF Self, Peer

LEMMA FrameFacts ==
  /\ NoFrame \in FrameType /\ OkFrame \in FrameType
  /\ \A b \in BOOLEAN : Handshake(b) \in FrameType
  /\ \A x \in SUBSET Edit : Content(x) \in FrameType /\ Content(x).edits = x
  /\ NoFrame.edits = {} /\ OkFrame.edits = {} /\ \A b \in BOOLEAN : Handshake(b).edits = {}
  BY Zenon DEF NoFrame, OkFrame, Handshake, Content, FrameType

LEMMA IdleType == Idle \in EndType
  BY Zenon DEF Idle, EndType

LEMMA TypeParts ==
  ASSUME TypeOK
  PROVE  end \in [End -> EndType] /\ inbox \in [End -> FrameType]
  BY Zenon DEF TypeOK, EndType, FrameType

\* What the catalog's methods can leave.
LEMMA CatalogFacts ==
  ASSUME NEW r \in Record
  PROVE  /\ \A result \in RegisterSelected(r) :
              result.record \in Record /\ (r = "deleted" => result.record = "deleted")
         /\ \A result \in ApplyTombstone(r) :
              result.record \in Record /\ (r = "deleted" => result.record = "deleted")
  BY DEF RegisterSelected, ApplyTombstone, Keep, Replace, Record

\* One end of a stream changes, to a state of its type.
Moves(e) == end' \in [End -> EndType] /\ \A f \in End \ {e} : end'[f] = end[f]

LEMMA GotoMoves ==
  ASSUME TypeOK, NEW e \in End, NEW pc \in {"wait", "send", "ready", "recv"}, Goto(e, pc)
  PROVE  /\ Moves(e) /\ end'[e].pc = pc /\ ~end'[e].local
         /\ end'[e].frame = end[e].frame /\ end'[e].late = end[e].late
<1>1. end \in [End -> EndType]  BY Zenon, TypeParts
<1>2. [end[e] EXCEPT !.pc = pc, !.local = FALSE] \in EndType  BY ZenonT(60), <1>1 DEF EndType
<1> QED  BY Zenon, <1>1, <1>2 DEF Goto, Moves, EndType

LEMMA QuitMoves ==
  ASSUME TypeOK, NEW e \in End, Quit(e)
  PROVE  Moves(e) /\ end'[e] = Idle
<1>1. end \in [End -> EndType]  BY Zenon, TypeParts
<1> QED  BY Zenon, <1>1, IdleType DEF Quit, Moves

\* A frame is put on its way to the other end.
LEMMA DeliverFacts ==
  ASSUME TypeOK, NEW e \in End, NEW m \in FrameType, Deliver(e, m)
  PROVE  /\ inbox' \in [End -> FrameType] /\ inbox'[Mate(e)] = m
         /\ \A f \in End \ {Mate(e)} : inbox'[f] = inbox[f]
<1>1. inbox \in [End -> FrameType] /\ Mate(e) \in End  BY Zenon, TypeParts, EndFacts
<1> QED  BY Zenon, <1>1 DEF Deliver

\* A frame is taken by its end.
LEMMA TakenFacts ==
  ASSUME TypeOK, NEW e \in End, inbox' = [inbox EXCEPT ![e] = NoFrame]
  PROVE  /\ inbox' \in [End -> FrameType] /\ inbox'[e] = NoFrame
         /\ \A f \in End \ {e} : inbox'[f] = inbox[f]
<1>1. inbox \in [End -> FrameType]  BY Zenon, TypeParts
<1> QED  BY Zenon, <1>1, FrameFacts

\* The invariant.  written bounds every change in sight, so that a change made now is in
\* no frame; an authorization is not carried over from one wait to the next.
Bounded ==
  /\ \A d \in Device : data[d] \subseteq written
  /\ \A e \in End : end[e].frame \subseteq written /\ inbox[e].edits \subseteq written
  /\ \A p \in untaken \cup ungiven : p[2] \in written
  /\ \A e \in End : end[e].pc \in {"idle", "wait", "recv"} => ~end[e].local

\* A frame that was authorized after it came does not hold what the device must not take.
Taken ==
  \A p \in untaken :
    /\ p[1] \notin view[p[1]] /\ p[2] \notin data[p[1]]
    /\ \A e \in End : Self(e) = p[1] /\ end[e].pc = "check" /\ end[e].local
                      => p[2] \notin end[e].frame

\* No frame on its way to a device, or held by it, has what it must not be given.
Given ==
  \A p \in ungiven :
    /\ \A g \in Device \ {p[1]} : p[1] \notin view[g]
    /\ p[2] \notin data[p[1]]
    /\ \A e \in End : Self(e) = p[1] => p[2] \notin end[e].frame \cup inbox[e].edits

\* A late stream finds the deletion.
Late ==
  \A e \in End : end[e].late =>
    record[Self(e)] = "deleted" /\ end[e].pc \in {"idle", "auth", "wait"}

SyncInv == TypeOK /\ Bounded /\ Taken /\ Given /\ Late

LEMMA InitInv == Init => SyncInv
<1> SUFFICES ASSUME Init PROVE SyncInv  BY Zenon
<1>1. \A e \in End : Self(e) \in Device  BY Zenon, EndFacts
<1>2. TypeOK  BY ZenonT(60), IdleType, FrameFacts DEF Init, TypeOK, EndType, FrameType, Record
<1>3. Bounded /\ Taken /\ Given /\ Late
  BY Zenon, <1>1, FrameFacts DEF Init, Bounded, Taken, Given, Late, Idle
<1> QED  BY Zenon, <1>2, <1>3 DEF SyncInv

\* A step of one end that brings no content but what the end, its device or its inbox
\* had, and that leaves the device's changes, the policy and the history alone.
LEMMA QuietStep ==
  ASSUME SyncInv, NEW e \in End, Moves(e),
         record' \in [Device -> Record],
         \A d \in Device : record[d] = "deleted" => record'[d] = "deleted",
         projection' \in [Device -> {"local", "selected", "evicted"}],
         inbox' \in [End -> FrameType], \A f \in End : inbox'[f].edits \subseteq inbox[f].edits,
         end'[e].frame \subseteq end[e].frame \cup data[Self(e)] \cup inbox[e].edits,
         end'[e].pc \in {"idle", "wait", "recv"} => ~end'[e].local,
         end'[e].pc = "check" /\ end'[e].local => Self(e) \in view[Self(e)],
         end'[e].late => /\ record'[Self(e)] = "deleted"
                         /\ end'[e].pc \in {"idle", "auth", "wait"},
         UNCHANGED <<data, policy, view, calm, history>>
  PROVE  SyncInv'
<1>1. TypeOK'  BY Zenon DEF SyncInv, TypeOK, Moves, EndType, FrameType, history
<1>2. Self(e) \in Device /\ \A f \in End : Self(f) \in Device  BY Zenon, EndFacts
<1>3. \A f \in End \ {e} : end'[f] = end[f]  BY Zenon DEF Moves
<1>4. Bounded'  BY Zenon, <1>2, <1>3 DEF SyncInv, Bounded, history
<1>5. Taken'  BY <1>3 DEF SyncInv, Taken, history
<1>6. Given'  BY <1>3 DEF SyncInv, Given, history
<1>7. Late'  BY Zenon, <1>2, <1>3 DEF SyncInv, Late
<1> QED  BY Zenon, <1>1, <1>4, <1>5, <1>6, <1>7 DEF SyncInv

LEMMA CheckLocalInv ==
  ASSUME SyncInv, NEW e \in End, CheckLocal(e)
  PROVE  SyncInv'
<1>1. TypeOK /\ end[e] \in EndType /\ end \in [End -> EndType] /\ inbox \in [End -> FrameType]
  BY Zenon, TypeParts DEF SyncInv
<1>2. Self(e) \in Device /\ data[Self(e)] \in SUBSET Edit  BY Zenon, <1>1, EndFacts DEF TypeOK
<1>3. PICK x \in SUBSET Edit : /\ x \in {data[Self(e)], end[e].frame}
                               /\ end' = [end EXCEPT ![e].local = TRUE, ![e].frame = x]
  BY Zenon, <1>1, <1>2 DEF CheckLocal, EndType
<1>4. [end[e] EXCEPT !.local = TRUE, !.frame = x] \in EndType  BY ZenonT(60), <1>1 DEF EndType
<1>5. Moves(e)  BY Zenon, <1>1, <1>3, <1>4 DEF Moves
<1>6. /\ end'[e].frame = x /\ end'[e].pc = end[e].pc /\ end'[e].late = end[e].late
  BY Zenon, <1>1, <1>3 DEF EndType
<1> QED  BY Zenon, <1>1, <1>3, <1>5, <1>6, QuietStep DEF CheckLocal, SyncInv, TypeOK, Late

LEMMA BeginInv ==
  ASSUME SyncInv, NEW e \in End, Begin(e)
  PROVE  SyncInv'
<1>1. TypeOK /\ end \in [End -> EndType] /\ inbox \in [End -> FrameType]
  BY Zenon, TypeParts DEF SyncInv
<1> DEFINE b == record[Self(e)] = "deleted"
           new == [Idle EXCEPT !.pc = "auth", !.deleted = b, !.late = b]
<1>2. new \in EndType /\ new.frame = {} /\ new.pc = "auth" /\ ~new.local /\ (new.late <=> b)
  BY ZenonT(60) DEF Idle, EndType
<1>3. end' = [end EXCEPT ![e] = new]  BY Zenon DEF Begin
<1> HIDE DEF new
<1>4. Moves(e) /\ end'[e] = new  BY Zenon, <1>1, <1>2, <1>3 DEF Moves
<1>5. inbox' \in [End -> FrameType] /\ \A f \in End : inbox'[f].edits \subseteq inbox[f].edits
  BY Zenon, <1>1, FrameFacts, EndFacts DEF Begin
<1> QED  BY ZenonT(60), <1>1, <1>2, <1>4, <1>5, QuietStep DEF Begin, TypeOK

LEMMA HelloInv ==
  ASSUME SyncInv, NEW e \in End, Hello(e)
  PROVE  SyncInv'
<1>1. TypeOK /\ end \in [End -> EndType] /\ inbox \in [End -> FrameType] /\ end[e] \in EndType
  BY Zenon, TypeParts DEF SyncInv
<1>2. PICK b \in BOOLEAN :
        /\ end' = [end EXCEPT ![e].pc = "wait", ![e].local = FALSE, ![e].deleted = b]
        /\ Deliver(e, Handshake(b))
  BY Zenon, <1>1 DEF Hello, EndType
<1>3. [end[e] EXCEPT !.pc = "wait", !.local = FALSE, !.deleted = b] \in EndType
  BY ZenonT(60), <1>1 DEF EndType
<1>4. /\ Moves(e) /\ end'[e].frame = end[e].frame /\ end'[e].pc = "wait" /\ ~end'[e].local
      /\ end'[e].late = end[e].late
  BY Zenon, <1>1, <1>2, <1>3 DEF Moves, EndType
<1>5. inbox' \in [End -> FrameType] /\ \A f \in End : inbox'[f].edits \subseteq inbox[f].edits
  BY <1>1, <1>2, FrameFacts, DeliverFacts
<1> QED  BY Zenon, <1>1, <1>4, <1>5, QuietStep DEF Hello, SyncInv, TypeOK, Late

LEMMA AcknowledgedInv ==
  ASSUME SyncInv, NEW e \in End, Acknowledged(e)
  PROVE  SyncInv'
<1>1. TypeOK /\ end \in [End -> EndType] /\ inbox \in [End -> FrameType]
  BY Zenon, TypeParts DEF SyncInv
<1>2. inbox' \in [End -> FrameType] /\ \A f \in End : inbox'[f].edits \subseteq inbox[f].edits
  BY Zenon, <1>1, FrameFacts, TakenFacts DEF Acknowledged
<1>3. CASE Goto(e, "send") /\ record[Self(e)] = "live"
  <2>1. /\ Moves(e) /\ end'[e].pc = "send" /\ end'[e].frame = end[e].frame
        /\ end'[e].late = end[e].late
    BY Zenon, <1>1, <1>3, GotoMoves
  <2>2. ~end'[e].late  BY Zenon, <1>3, <2>1 DEF SyncInv, Late
  <2> QED  BY Zenon, <1>1, <1>2, <2>1, <2>2, QuietStep DEF Acknowledged, TypeOK
<1>4. CASE Quit(e)
  <2>1. Moves(e) /\ end'[e] = Idle  BY Zenon, <1>1, <1>4, QuitMoves
  <2> QED  BY <1>1, <1>2, <2>1, QuietStep DEF Acknowledged, TypeOK, Idle
<1> QED  BY Zenon, <1>3, <1>4 DEF Acknowledged

LEMMA AcceptInv ==
  ASSUME SyncInv, NEW e \in End, Accept(e)
  PROVE  SyncInv'
<1>1. TypeOK /\ end \in [End -> EndType] /\ inbox \in [End -> FrameType] /\ inbox[e] \in FrameType
  BY Zenon, TypeParts DEF SyncInv
<1> DEFINE b == record[Self(e)] = "deleted"
           new == [Idle EXCEPT !.pc = "auth", !.deleted = inbox[e].deleted, !.late = b]
<1>2. new \in EndType /\ new.frame = {} /\ new.pc = "auth" /\ ~new.local /\ (new.late <=> b)
  BY ZenonT(60), <1>1 DEF Idle, EndType, FrameType
<1>3. end' = [end EXCEPT ![e] = new]  BY Zenon DEF Accept
<1> HIDE DEF new
<1>4. Moves(e) /\ end'[e] = new  BY Zenon, <1>1, <1>2, <1>3 DEF Moves
<1>5. inbox' \in [End -> FrameType] /\ \A f \in End : inbox'[f].edits \subseteq inbox[f].edits
  BY Zenon, <1>1, FrameFacts, TakenFacts DEF Accept
<1> QED  BY ZenonT(60), <1>1, <1>2, <1>4, <1>5, QuietStep DEF Accept, TypeOK

LEMMA TombstonedInv ==
  ASSUME SyncInv, NEW e \in End, Tombstoned(e)
  PROVE  SyncInv'
<1>1. TypeOK /\ end \in [End -> EndType] /\ inbox \in [End -> FrameType]
  BY Zenon, TypeParts DEF SyncInv
<1>2. Self(e) \in Device /\ record[Self(e)] \in Record  BY Zenon, <1>1, EndFacts DEF TypeOK
<1>3. PICK result \in ApplyTombstone(record[Self(e)]) :
        /\ record' = [record EXCEPT ![Self(e)] = result.record]
        /\ IF result.ok THEN Deliver(e, OkFrame) ELSE UNCHANGED inbox
  BY ZenonT(60) DEF Tombstoned
<1>4. /\ record' \in [Device -> Record]
      /\ \A d \in Device : record[d] = "deleted" => record'[d] = "deleted"
  BY Zenon, <1>1, <1>2, <1>3, CatalogFacts DEF TypeOK
<1>5. inbox' \in [End -> FrameType] /\ \A f \in End : inbox'[f].edits \subseteq inbox[f].edits
  BY <1>1, <1>3, FrameFacts, DeliverFacts
<1>6. Moves(e) /\ end'[e] = Idle  BY Zenon, <1>1, QuitMoves DEF Tombstoned
<1> QED  BY <1>1, <1>4, <1>5, <1>6, QuietStep DEF Tombstoned, TypeOK, Idle

LEMMA RegisteredInv ==
  ASSUME SyncInv, NEW e \in End, Registered(e)
  PROVE  SyncInv'
<1>1. TypeOK /\ end \in [End -> EndType] /\ inbox \in [End -> FrameType]
  BY Zenon, TypeParts DEF SyncInv
<1>2. Self(e) \in Device /\ record[Self(e)] \in Record  BY Zenon, <1>1, EndFacts DEF TypeOK
<1>3. PICK result \in RegisterSelected(record[Self(e)]) :
        /\ record' = [record EXCEPT ![Self(e)] = result.record]
        /\ projection' = [projection EXCEPT ![Self(e)] =
             IF result.ok /\ result.record = "live" /\ (record[Self(e)] = "absent" \/ @ # "local")
             THEN "selected" ELSE @]
        /\ IF result.ok /\ result.record = "live"
           THEN Deliver(e, OkFrame) /\ Goto(e, "ready")
           ELSE Quit(e) /\ UNCHANGED inbox
  BY ZenonT(60) DEF Registered
<1>4. /\ record' \in [Device -> Record]
      /\ \A d \in Device : record[d] = "deleted" => record'[d] = "deleted"
      /\ record[Self(e)] = "deleted" => result.record = "deleted"
  BY Zenon, <1>1, <1>2, <1>3, CatalogFacts DEF TypeOK
<1>5. projection' \in [Device -> {"local", "selected", "evicted"}]
  BY Zenon, <1>1, <1>2, <1>3 DEF TypeOK
<1>6. CASE Deliver(e, OkFrame) /\ Goto(e, "ready") /\ result.record = "live"
  <2>1. inbox' \in [End -> FrameType] /\ \A f \in End : inbox'[f].edits \subseteq inbox[f].edits
    BY <1>1, <1>6, FrameFacts, DeliverFacts
  <2>2. /\ Moves(e) /\ end'[e].pc = "ready" /\ end'[e].frame = end[e].frame
        /\ end'[e].late = end[e].late
    BY Zenon, <1>1, <1>6, GotoMoves
  <2>3. ~end'[e].late  BY Zenon, <1>4, <1>6, <2>2 DEF SyncInv, Late
  <2> QED  BY Zenon, <1>4, <1>5, <2>1, <2>2, <2>3, QuietStep DEF Registered
<1>7. CASE Quit(e) /\ UNCHANGED inbox
  <2>1. Moves(e) /\ end'[e] = Idle  BY Zenon, <1>1, <1>7, QuitMoves
  <2> QED  BY <1>1, <1>4, <1>5, <1>7, <2>1, QuietStep DEF Registered, Idle
<1> QED  BY Zenon, <1>3, <1>6, <1>7

LEMMA AwaitInv ==
  ASSUME SyncInv, NEW e \in End, Await(e)
  PROVE  SyncInv'
<1>1. TypeOK /\ end \in [End -> EndType] /\ inbox \in [End -> FrameType]
  BY Zenon, TypeParts DEF SyncInv
<1>2. /\ Moves(e) /\ end'[e].pc = "recv" /\ ~end'[e].local /\ end'[e].frame = end[e].frame
      /\ end'[e].late = end[e].late
  BY Zenon, <1>1, GotoMoves DEF Await
<1>3. ~end'[e].late  BY Zenon, <1>2 DEF SyncInv, Late, Await, Pc
<1> QED  BY Zenon, <1>1, <1>2, <1>3, QuietStep DEF Await, TypeOK

LEMMA ReceiveInv ==
  ASSUME SyncInv, NEW e \in End, Receive(e)
  PROVE  SyncInv'
<1>1. TypeOK /\ end \in [End -> EndType] /\ inbox \in [End -> FrameType]
      /\ end[e] \in EndType /\ inbox[e] \in FrameType
  BY Zenon, TypeParts DEF SyncInv
<1>2. [end[e] EXCEPT !.pc = "check", !.frame = inbox[e].edits] \in EndType
  BY ZenonT(60), <1>1 DEF EndType, FrameType
<1>3. /\ Moves(e) /\ end'[e].pc = "check" /\ end'[e].frame = inbox[e].edits
      /\ end'[e].late = end[e].late /\ end'[e].local = end[e].local
  BY Zenon, <1>1, <1>2 DEF Receive, Moves, EndType
<1>4. ~end'[e].late /\ ~end'[e].local  BY Zenon, <1>3 DEF SyncInv, Late, Bounded, Receive, Pc
<1>5. inbox' \in [End -> FrameType] /\ \A f \in End : inbox'[f].edits \subseteq inbox[f].edits
  BY Zenon, <1>1, FrameFacts, TakenFacts DEF Receive
<1> QED  BY Zenon, <1>1, <1>3, <1>4, <1>5, QuietStep DEF Receive, TypeOK

LEMMA QuitInv ==
  ASSUME SyncInv, NEW e \in End, Refused(e) \/ Broken(e) \/ Fail(e)
  PROVE  SyncInv'
<1>1. TypeOK /\ inbox \in [End -> FrameType]  BY Zenon, TypeParts DEF SyncInv
<1>2. Moves(e) /\ end'[e] = Idle  BY Zenon, <1>1, QuitMoves DEF Refused, Broken, Fail
<1> QED  BY <1>1, <1>2, QuietStep DEF Refused, Broken, Fail, TypeOK, Idle

\* A frame goes only to a peer the sender's policy admits.
LEMMA SendInv ==
  ASSUME SyncInv, NEW e \in End, Send(e)
  PROVE  SyncInv'
<1>1. TypeOK /\ end \in [End -> EndType] /\ inbox \in [End -> FrameType] /\ end[e] \in EndType
  BY Zenon, TypeParts DEF SyncInv
<1>2. end[e].frame \in SUBSET Edit  BY Zenon, <1>1 DEF EndType
<1>3. /\ Self(e) \in Device /\ Peer(e) \in Device /\ Self(e) # Peer(e) /\ Mate(e) \in End
      /\ Self(Mate(e)) = Peer(e) /\ \A f \in End : Self(f) \in Device
  BY Zenon, EndFacts
<1>4. /\ inbox' \in [End -> FrameType] /\ inbox'[Mate(e)].edits = end[e].frame
      /\ \A f \in End \ {Mate(e)} : inbox'[f] = inbox[f]
  BY Zenon, <1>1, <1>2, FrameFacts, DeliverFacts DEF Send
<1>5. /\ Moves(e) /\ end'[e].frame \subseteq end[e].frame
      /\ end'[e].pc \in {"idle", "ready"} /\ ~end'[e].local
      /\ end'[e].late => end[e].late
  <2>1. CASE Goto(e, "ready")  BY Zenon, <1>1, <2>1, GotoMoves
  <2>2. CASE Quit(e)  BY <1>1, <2>2, QuitMoves DEF Idle
  <2> QED  BY Zenon, <2>1, <2>2 DEF Send
<1>6. ~end[e].late /\ Peer(e) \in view[Self(e)]
  BY Zenon DEF SyncInv, Late, Send, Pc, Admitted
<1>7. \A f \in End \ {e} : end'[f] = end[f]  BY Zenon, <1>5 DEF Moves
<1>8. TypeOK'  BY Zenon, <1>1, <1>4, <1>5 DEF Send, TypeOK, Moves, EndType, FrameType, history
<1>9. Bounded'  BY Zenon, <1>3, <1>4, <1>5, <1>7 DEF Send, SyncInv, Bounded, history
<1>10. Taken'  BY ZenonT(30), <1>5, <1>7 DEF Send, SyncInv, Taken, history
<1>11. Given'  BY SMTT(30), <1>3, <1>4, <1>5, <1>6, <1>7 DEF Send, SyncInv, Given, history
<1>12. Late'  BY Zenon, <1>5, <1>6, <1>7 DEF Send, SyncInv, Late
<1> QED  BY Zenon, <1>8, <1>9, <1>10, <1>11, <1>12 DEF SyncInv

\* A frame is applied only after the receiver's policy admitted it once it had come.
LEMMA ApplyInv ==
  ASSUME SyncInv, NEW e \in End, Apply(e)
  PROVE  SyncInv'
<1>1. TypeOK /\ end \in [End -> EndType] /\ inbox \in [End -> FrameType] /\ end[e] \in EndType
  BY Zenon, TypeParts DEF SyncInv
<1>2. Self(e) \in Device /\ \A f \in End : Self(f) \in Device  BY Zenon, EndFacts
<1>3. /\ data' \in [Device -> SUBSET Edit] /\ data'[Self(e)] = data[Self(e)] \cup end[e].frame
      /\ \A d \in Device \ {Self(e)} : data'[d] = data[d]
  BY Zenon, <1>1, <1>2 DEF Apply, TypeOK, EndType
<1>4. /\ Moves(e) /\ end'[e].frame \subseteq end[e].frame
      /\ end'[e].pc \in {"idle", "send"} /\ ~end'[e].local
      /\ end'[e].late => end[e].late
  <2>1. CASE Goto(e, "send")  BY Zenon, <1>1, <2>1, GotoMoves
  <2>2. CASE Quit(e)  BY <1>1, <2>2, QuitMoves DEF Idle
  <2> QED  BY Zenon, <2>1, <2>2 DEF Apply
<1>5. ~end[e].late /\ end[e].local /\ end[e].pc = "check"
  BY Zenon DEF SyncInv, Late, Apply, Pc, Admitted
<1>6. \A f \in End \ {e} : end'[f] = end[f]  BY Zenon, <1>4 DEF Moves
<1>7. TypeOK'  BY Zenon, <1>1, <1>3, <1>4 DEF Apply, TypeOK, Moves, EndType, FrameType, history
<1>8. Bounded'  BY Zenon, <1>2, <1>3, <1>4, <1>6 DEF Apply, SyncInv, Bounded, history
<1>9. Taken'
  <2>1. ASSUME NEW p \in untaken PROVE p[2] \notin data'[p[1]]
    BY Zenon, <1>3, <1>5 DEF SyncInv, Taken, TypeOK
  <2> QED  BY <1>4, <1>6, <2>1 DEF Apply, SyncInv, Taken, history
<1>10. Given'
  <2>1. ASSUME NEW p \in ungiven PROVE p[2] \notin data'[p[1]]
    BY Zenon, <1>3 DEF SyncInv, Given, TypeOK
  <2> QED  BY Zenon, <1>4, <1>6, <2>1 DEF Apply, SyncInv, Given, history
<1>11. Late'  BY Zenon, <1>4, <1>5, <1>6 DEF Apply, SyncInv, Late
<1> QED  BY Zenon, <1>7, <1>8, <1>9, <1>10, <1>11 DEF SyncInv

LEMMA CatalogInv ==
  ASSUME SyncInv, NEW d \in Device, Create(d) \/ Delete(d)
  PROVE  SyncInv'
<1>1. /\ record' \in [Device -> Record]
      /\ \A f \in Device : record[f] = "deleted" => record'[f] = "deleted"
  BY Zenon DEF SyncInv, TypeOK, Create, Delete, Record
<1>2. UNCHANGED <<projection, data, policy, view, end, inbox, calm, history>>
  BY Zenon DEF Create, Delete
<1>3. \A e \in End : Self(e) \in Device  BY Zenon, EndFacts
<1>4. TypeOK'  BY Zenon, <1>1, <1>2 DEF SyncInv, TypeOK, history
<1>5. Bounded' /\ Taken' /\ Given'  BY Zenon, <1>2 DEF SyncInv, Bounded, Taken, Given, history
<1>6. Late'  BY Zenon, <1>1, <1>2, <1>3 DEF SyncInv, Late
<1> QED  BY Zenon, <1>4, <1>5, <1>6 DEF SyncInv

\* A change that is made now is in no frame and on no other device.
LEMMA WriteInv ==
  ASSUME SyncInv, NEW d \in Device, NEW x \in Edit, Write(d, x)
  PROVE  SyncInv'
<1>1. TypeOK'  BY Zenon DEF SyncInv, TypeOK, Write
<1>2. \A e \in End : Self(e) \in Device  BY Zenon, EndFacts
<1>3. /\ data'[d] = data[d] \cup {x} /\ \A f \in Device \ {d} : data'[f] = data[f]
      /\ x \notin written /\ written' = written \cup {x}
  BY Zenon DEF SyncInv, TypeOK, Write
<1>4. /\ \A p \in untaken' : p \in untaken \/ (p[2] = x /\ p[1] \in Device \ {d} /\ p[1] \notin view[p[1]])
      /\ \A p \in ungiven' : p \in ungiven \/ (p[2] = x /\ p[1] \in Device \ {d}
                                               /\ \A g \in Device \ {p[1]} : p[1] \notin view[g])
  BY Zenon DEF Write
<1>5. \A p \in untaken \cup ungiven : p[1] \in Device /\ p[2] # x
  BY Zenon, <1>3 DEF SyncInv, TypeOK, Bounded
<1>6. Bounded'  BY Zenon, <1>3, <1>4 DEF Write, SyncInv, Bounded
<1>7. Taken'
  <2>1. ASSUME NEW p \in untaken' PROVE p[2] \notin data'[p[1]]
    BY <1>3, <1>4, <1>5 DEF SyncInv, Taken, Bounded
  <2> QED  BY <1>3, <1>4, <2>1 DEF Write, SyncInv, Taken, Bounded
<1>8. Given'
  <2>1. ASSUME NEW p \in ungiven' PROVE p[2] \notin data'[p[1]]
    BY <1>3, <1>4, <1>5 DEF SyncInv, Given, Bounded
  <2> QED  BY <1>3, <1>4, <2>1 DEF Write, SyncInv, Given, Bounded
<1>9. Late'  BY Zenon DEF Write, SyncInv, Late
<1> QED  BY Zenon, <1>1, <1>6, <1>7, <1>8, <1>9 DEF SyncInv

\* What a device learns lifts the history it contradicts.
LEMMA LearnInv ==
  ASSUME SyncInv, NEW d \in Device, Learn(d)
  PROVE  SyncInv'
<1>1. TypeOK'  BY Zenon DEF SyncInv, TypeOK, Learn
<1>2. /\ view'[d] = policy /\ \A f \in Device \ {d} : view'[f] = view[f]
      /\ \A p \in untaken \cup ungiven : p[1] \in Device
  BY Zenon DEF SyncInv, TypeOK, Learn
<1>3. Bounded'  BY Zenon DEF Learn, SyncInv, Bounded
<1>4. Taken'  BY Zenon, <1>2 DEF Learn, SyncInv, Taken
<1>5. Given'  BY Zenon, <1>2 DEF Learn, SyncInv, Given
<1>6. Late'  BY Zenon DEF Learn, SyncInv, Late
<1> QED  BY Zenon, <1>1, <1>3, <1>4, <1>5, <1>6 DEF SyncInv

LEMMA EvictInv ==
  ASSUME SyncInv, NEW d \in Device, Evict(d)
  PROVE  SyncInv'
<1>1. TypeOK'  BY Zenon DEF SyncInv, TypeOK, Evict, history
<1>2. /\ \A f \in Device : data'[f] \subseteq data[f]
      /\ \A p \in untaken \cup ungiven : p[1] \in Device
  BY Zenon DEF SyncInv, TypeOK, Evict
<1>3. Bounded' /\ Late'  BY Zenon, <1>2 DEF Evict, SyncInv, Bounded, Late, history
<1>4. Taken' /\ Given'  BY Zenon, <1>2 DEF Evict, SyncInv, Taken, Given, history
<1> QED  BY Zenon, <1>1, <1>3, <1>4 DEF SyncInv

LEMMA OtherInv ==
  ASSUME SyncInv,
         \/ Calm \/ UNCHANGED vars
         \/ \E d \in Device : Decide(d)
  PROVE  SyncInv'
<1>1. /\ UNCHANGED <<record, projection, data, view, end, inbox, history>>
      /\ policy' \subseteq Device /\ calm' \in BOOLEAN
  BY ZenonT(60) DEF SyncInv, TypeOK, Calm, Decide, vars
<1>2. TypeOK'  BY Zenon, <1>1 DEF SyncInv, TypeOK, history
<1>3. Bounded' /\ Taken' /\ Given' /\ Late'
  BY Zenon, <1>1 DEF SyncInv, Bounded, Taken, Given, Late, history
<1> QED  BY Zenon, <1>2, <1>3 DEF SyncInv

\* SyncInv is inductive: every step of an end, of the owner and of the policy keeps it.
THEOREM SyncInvariance == Spec => []SyncInv
<1>1. SyncInv /\ [Next]_vars => SyncInv'
  <2> SUFFICES ASSUME SyncInv, [Next]_vars PROVE SyncInv'  BY Zenon
  <2>1. ASSUME NEW e \in End, Progress(e) \/ Fail(e) PROVE SyncInv'
    BY Zenon, <2>1, CheckLocalInv, BeginInv, HelloInv, AcknowledgedInv, AcceptInv,
       TombstonedInv,
       RegisteredInv, SendInv, AwaitInv, ReceiveInv, ApplyInv, QuitInv DEF Progress
  <2>2. CASE Owner  BY Zenon, <2>2, CatalogInv, WriteInv, LearnInv, EvictInv, OtherInv DEF Owner
  <2> QED  BY Zenon, <2>1, <2>2, OtherInv DEF Next
<1> QED  BY InitInv, <1>1, PTL DEF Spec

\* For every set of devices the catalogs, the policy and the streams keep their types.
THEOREM SyncTypeCorrect == Spec => []TypeOK
<1>1. SyncInv => TypeOK  BY Zenon DEF SyncInv
<1> QED  BY SyncInvariance, <1>1, PTL

\* For every set of devices, links and changes: a device that knows it does not select
\* a resource takes nothing written from then on, whatever its peers believe.
THEOREM DeselectedTakesNothing == Spec => []NothingTaken
<1>1. SyncInv => NothingTaken  BY Zenon DEF SyncInv, Taken, NothingTaken
<1> QED  BY SyncInvariance, <1>1, PTL

\* For every set of devices, links and changes: what is written once the others know that
\* a device does not select the resource never reaches it, through any chain of peers.
THEOREM DeselectedGivenNothing == Spec => []NothingGiven
<1>1. SyncInv => NothingGiven  BY Zenon DEF SyncInv, Given, NothingGiven
<1> QED  BY SyncInvariance, <1>1, PTL

\* For every set of devices: no stream that begins after a deletion on its device opens
\* the resource's content there.
THEOREM DeletionClosesStreams == Spec => []DeletedStaysClosed
<1>1. SyncInv => DeletedStaysClosed  BY Zenon DEF SyncInv, Late, DeletedStaysClosed
<1> QED  BY SyncInvariance, <1>1, PTL

---------------------------------------------------------------------------
(* Where deletions come from                                               *)

\* The device that opened the stream of an end.
Source(e) == e[1][1]

\* A tombstone a stream carries, or has carried, is recorded on the device that opened it.
Told == \A e \in End : end[e].deleted \/ inbox[e].deleted => record[Source(e)] = "deleted"

\* Deletions are final.
Final == \A d \in Device : record[d] = "deleted" => record'[d] = "deleted"

\* A device records a deletion only for its owner or from a stream.
Justified ==
  \A d \in Device : record[d] # "deleted" /\ record'[d] = "deleted" =>
    \/ record[d] = "live" /\ UNCHANGED <<end, inbox>>
    \/ \E e \in End : Self(e) = d /\ record[Peer(e)] = "deleted"

LEMMA SourceFacts ==
  ASSUME NEW e \in End
  PROVE  /\ Source(e) \in Device /\ Source(Mate(e)) = Source(e)
         /\ e[2] = "ini" => Self(e) = Source(e)
         /\ e[2] = "res" => Peer(e) = Source(e)
<1>1. e[2] = "ini" => Self(e) = Source(e)  BY Zenon DEF Self, Source
<1>2. e[2] = "res" => Peer(e) = Source(e)  BY Zenon DEF Peer, Source
<1>3. Mate(e)[1] = e[1]  BY Zenon DEF Mate
<1>4. e[2] \in {"ini", "res"}  BY Zenon DEF End
<1> QED  BY Zenon, <1>1, <1>2, <1>3, <1>4, EndFacts DEF Source

\* A step that tells an end nothing but what it or its inbox was told, or its opener has
\* recorded.
LEMMA ToldStep ==
  ASSUME Told, Final,
         \A f \in End : end'[f].deleted \/ inbox'[f].deleted =>
           end[f].deleted \/ inbox[f].deleted \/ record[Source(f)] = "deleted"
  PROVE  Told'
<1>1. \A f \in End : Source(f) \in Device  BY Zenon, SourceFacts
<1> QED  BY Zenon, <1>1 DEF Told, Final, Source

\* What the two ends and the two inboxes of a stream are told by a step of one end.
LEMMA GotoTells ==
  ASSUME TypeOK, NEW e \in End, NEW pc, Goto(e, pc)
  PROVE  \A f \in End : end'[f].deleted = end[f].deleted
<1>1. end \in [End -> EndType]  BY Zenon, TypeParts
<1> QED  BY Zenon, <1>1 DEF Goto, EndType

LEMMA QuitTells ==
  ASSUME TypeOK, NEW e \in End, Quit(e)
  PROVE  \A f \in End : end'[f].deleted => end[f].deleted
<1>1. end \in [End -> EndType]  BY Zenon, TypeParts
<1> QED  BY Zenon, <1>1 DEF Quit, Idle

LEMMA FrameTells ==
  /\ NoFrame.deleted = FALSE /\ OkFrame.deleted = FALSE
  /\ \A b \in BOOLEAN : Handshake(b).deleted = b
  /\ \A x \in SUBSET Edit : Content(x).deleted = FALSE
  BY Zenon DEF NoFrame, OkFrame, Handshake, Content

\* A frame without a tombstone is put on its way or taken.
LEMMA InboxTells ==
  ASSUME TypeOK, NEW e \in End,
         \/ UNCHANGED inbox \/ inbox' = [inbox EXCEPT ![e] = NoFrame]
         \/ Deliver(e, OkFrame) \/ \E x \in SUBSET Edit : Deliver(e, Content(x))
  PROVE  \A f \in End : inbox'[f].deleted => inbox[f].deleted
<1>1. inbox \in [End -> FrameType] /\ Mate(e) \in End  BY Zenon, TypeParts, EndFacts
<1> QED  BY Zenon, <1>1, FrameTells DEF Deliver

LEMMA QuietTells ==
  ASSUME TypeOK, Told, NEW e \in End, UNCHANGED record,
         \/ \E pc : Goto(e, pc)
         \/ Quit(e),
         \/ UNCHANGED inbox \/ inbox' = [inbox EXCEPT ![e] = NoFrame]
         \/ Deliver(e, OkFrame) \/ \E x \in SUBSET Edit : Deliver(e, Content(x))
  PROVE  Told' /\ Final /\ Justified
<1>1. \A f \in End : end'[f].deleted => end[f].deleted  BY Zenon, GotoTells, QuitTells
<1>2. \A f \in End : inbox'[f].deleted => inbox[f].deleted  BY Zenon, InboxTells
<1>3. Final /\ Justified  BY Zenon DEF Final, Justified
<1> QED  BY Zenon, <1>1, <1>2, <1>3, ToldStep

LEMMA BeginTells ==
  ASSUME TypeOK, Told, NEW e \in End, Begin(e) PROVE Told' /\ Final /\ Justified
<1>1. end \in [End -> EndType] /\ inbox \in [End -> FrameType]  BY Zenon, TypeParts
<1>2. Self(e) = Source(e) /\ Mate(e) \in End  BY Zenon, SourceFacts, EndFacts DEF Begin
<1>3. \A f \in End : end'[f].deleted => end[f].deleted \/ record[Source(f)] = "deleted"
  BY Zenon, <1>1, <1>2 DEF Begin, Idle
<1>4. \A f \in End : inbox'[f].deleted => inbox[f].deleted
  BY Zenon, <1>1, <1>2, FrameTells DEF Begin
<1>5. Final /\ Justified  BY Zenon DEF Begin, Final, Justified
<1> QED  BY Zenon, <1>3, <1>4, <1>5, ToldStep

\* The handshake carries what the opener has recorded, now or when it began.
LEMMA HelloTells ==
  ASSUME TypeOK, Told, NEW e \in End, Hello(e) PROVE Told' /\ Final /\ Justified
<1>1. end \in [End -> EndType] /\ inbox \in [End -> FrameType]  BY Zenon, TypeParts
<1>2. Self(e) = Source(e) /\ Mate(e) \in End /\ Source(Mate(e)) = Source(e)
  BY Zenon, SourceFacts, EndFacts DEF Hello
<1>3. PICK b \in BOOLEAN :
        /\ end' = [end EXCEPT ![e].pc = "wait", ![e].local = FALSE, ![e].deleted = b]
        /\ Deliver(e, Handshake(b))
        /\ b => end[e].deleted \/ record[Self(e)] = "deleted"
  BY Zenon, <1>1 DEF Hello, EndType
<1>4. b => record[Source(e)] = "deleted"  BY Zenon, <1>2, <1>3 DEF Told
<1>5. \A f \in End : end'[f].deleted => end[f].deleted \/ record[Source(f)] = "deleted"
  BY Zenon, <1>1, <1>3, <1>4 DEF EndType
<1>6. \A f \in End : inbox'[f].deleted => inbox[f].deleted \/ record[Source(f)] = "deleted"
  BY Zenon, <1>1, <1>2, <1>3, <1>4, FrameTells DEF Deliver
<1>7. Final /\ Justified  BY Zenon DEF Hello, Final, Justified
<1> QED  BY Zenon, <1>5, <1>6, <1>7, ToldStep

LEMMA AcceptTells ==
  ASSUME TypeOK, Told, NEW e \in End, Accept(e) PROVE Told' /\ Final /\ Justified
<1>1. end \in [End -> EndType] /\ inbox \in [End -> FrameType]  BY Zenon, TypeParts
<1>2. \A f \in End : end'[f].deleted => end[f].deleted \/ inbox[f].deleted
  BY Zenon, <1>1 DEF Accept, Idle
<1>3. \A f \in End : inbox'[f].deleted => inbox[f].deleted
  BY Zenon, InboxTells DEF Accept
<1>4. Final /\ Justified  BY Zenon DEF Accept, Final, Justified
<1> QED  BY Zenon, <1>2, <1>3, <1>4, ToldStep

\* The methods of the catalog that a stream calls.
LEMMA RegisterForgets ==
  ASSUME NEW r \in Record, NEW result \in RegisterSelected(r)
  PROVE  result.record = "deleted" <=> r = "deleted"
  BY DEF RegisterSelected, Keep, Replace, Record

LEMMA TombstonedTells ==
  ASSUME TypeOK, Told, NEW e \in End, Tombstoned(e) PROVE Told' /\ Final /\ Justified
<1>1. Self(e) \in Device /\ record \in [Device -> Record]  BY Zenon, EndFacts DEF TypeOK
<1>2. PICK result \in ApplyTombstone(record[Self(e)]) :
        /\ record' = [record EXCEPT ![Self(e)] = result.record]
        /\ IF result.ok THEN Deliver(e, OkFrame) ELSE UNCHANGED inbox
  BY Zenon DEF Tombstoned
<1>3. Final  BY Zenon, <1>1, <1>2, CatalogFacts DEF Final
<1>4. record[Peer(e)] = "deleted"  BY Zenon, SourceFacts DEF Tombstoned, Told
<1>5. Justified  BY Zenon, <1>1, <1>2, <1>4 DEF Justified
<1>6. \A f \in End : inbox'[f].deleted => inbox[f].deleted  BY Zenon, <1>2, InboxTells
<1>7. \A f \in End : end'[f].deleted => end[f].deleted  BY Zenon, QuitTells DEF Tombstoned
<1> QED  BY Zenon, <1>3, <1>5, <1>6, <1>7, ToldStep

LEMMA RegisteredTells ==
  ASSUME TypeOK, Told, NEW e \in End, Registered(e) PROVE Told' /\ Final /\ Justified
<1>1. Self(e) \in Device /\ record \in [Device -> Record]  BY Zenon, EndFacts DEF TypeOK
<1>2. PICK result \in RegisterSelected(record[Self(e)]) :
        /\ record' = [record EXCEPT ![Self(e)] = result.record]
        /\ IF result.ok /\ result.record = "live"
           THEN Deliver(e, OkFrame) /\ Goto(e, "ready")
           ELSE Quit(e) /\ UNCHANGED inbox
  BY Zenon DEF Registered
<1>3. \A d \in Device : record'[d] = "deleted" <=> record[d] = "deleted"
  BY Zenon, <1>1, <1>2, RegisterForgets
<1>4. Final /\ Justified  BY Zenon, <1>3 DEF Final, Justified
<1>5. \A f \in End : inbox'[f].deleted => inbox[f].deleted  BY Zenon, <1>2, InboxTells
<1>6. \A f \in End : end'[f].deleted => end[f].deleted  BY Zenon, <1>2, GotoTells, QuitTells
<1> QED  BY Zenon, <1>4, <1>5, <1>6, ToldStep

\* The other steps of an end change no record and tell nothing new.
LEMMA CheckLocalTells ==
  ASSUME TypeOK, Told, NEW e \in End, CheckLocal(e) PROVE Told' /\ Final /\ Justified
<1>1. end \in [End -> EndType]  BY Zenon, TypeParts
<1>2. \A f \in End : end'[f].deleted = end[f].deleted  BY Zenon, <1>1 DEF CheckLocal, EndType
<1>3. Final /\ Justified  BY Zenon DEF CheckLocal, Final, Justified
<1> QED  BY Zenon, <1>2, <1>3, ToldStep DEF CheckLocal

LEMMA ReceiveTells ==
  ASSUME TypeOK, Told, NEW e \in End, Receive(e) PROVE Told' /\ Final /\ Justified
<1>1. end \in [End -> EndType]  BY Zenon, TypeParts
<1>2. \A f \in End : end'[f].deleted = end[f].deleted  BY Zenon, <1>1 DEF Receive, EndType
<1>3. \A f \in End : inbox'[f].deleted => inbox[f].deleted  BY Zenon, InboxTells DEF Receive
<1>4. Final /\ Justified  BY Zenon DEF Receive, Final, Justified
<1> QED  BY Zenon, <1>2, <1>3, <1>4, ToldStep

LEMMA RoundTells ==
  ASSUME TypeOK, Told, NEW e \in End,
         \/ Acknowledged(e) \/ Send(e) \/ Await(e) \/ Apply(e)
         \/ Refused(e) \/ Broken(e) \/ Fail(e)
  PROVE  Told' /\ Final /\ Justified
<1>1. end[e].frame \in SUBSET Edit  BY Zenon, TypeParts DEF EndType
<1>2. CASE Acknowledged(e)  BY Zenon, <1>2, QuietTells DEF Acknowledged
<1>3. CASE Send(e)  BY Zenon, <1>1, <1>3, QuietTells DEF Send
<1>4. CASE Await(e)  BY Zenon, <1>4, QuietTells DEF Await
<1>5. CASE Apply(e)  BY Zenon, <1>5, QuietTells DEF Apply
<1>6. CASE Refused(e) \/ Broken(e) \/ Fail(e)
  BY Zenon, <1>6, QuietTells DEF Refused, Broken, Fail
<1> QED  BY Zenon, <1>2, <1>3, <1>4, <1>5, <1>6

\* The owner and the policy.
LEMMA OwnerTells ==
  ASSUME TypeOK, Told, Owner \/ Calm \/ UNCHANGED vars
  PROVE  Told' /\ Final /\ Justified
<1>1. UNCHANGED <<end, inbox>>
  BY Zenon DEF Owner, Create, Delete, Decide, Learn, Evict, Write, Calm, vars
<1>2. CASE UNCHANGED record
  BY Zenon, <1>1, <1>2 DEF Told, Final, Justified, Source
<1>3. ASSUME NEW d \in Device, Create(d) PROVE Told' /\ Final /\ Justified
  <2>1. \A f \in Device : record[f] = "absent" /\ record'[f] \in {"absent", "live"}
    BY Zenon, <1>3 DEF Create, TypeOK
  <2>2. Final /\ Justified  BY <2>1 DEF Final, Justified
  <2> QED  BY Zenon, <1>1, <2>2, ToldStep
<1>4. ASSUME NEW d \in Device, Delete(d) PROVE Told' /\ Final /\ Justified
  <2>1. Final /\ Justified  BY Zenon, <1>1, <1>4 DEF Delete, TypeOK, Final, Justified
  <2> QED  BY Zenon, <1>1, <2>1, ToldStep
<1> QED
  BY Zenon, <1>2, <1>3, <1>4 DEF Owner, Decide, Learn, Evict, Write, Calm, vars

LEMMA ToldNext == TypeOK /\ Told /\ [Next]_vars => Told' /\ Final /\ Justified
<1> SUFFICES ASSUME TypeOK, Told, [Next]_vars PROVE Told' /\ Final /\ Justified  BY Zenon
<1>1. ASSUME NEW e \in End, Progress(e) \/ Fail(e) PROVE Told' /\ Final /\ Justified
  BY Zenon, <1>1, CheckLocalTells, BeginTells, HelloTells, AcceptTells, TombstonedTells,
     RegisteredTells, ReceiveTells, RoundTells DEF Progress
<1> QED  BY Zenon, <1>1, OwnerTells DEF Next

\* For every set of devices and links: a recorded deletion is never taken back, and a
\* device comes to record one only when its owner deletes the resource there or when the
\* peer of a stream has recorded it, however the policy, the streams and the failures
\* interleave.
THEOREM DeletionsSourced == Spec => DeletionsHaveSource
<1>1. Init => Told
  <2>1. Idle.deleted = FALSE /\ NoFrame.deleted = FALSE  BY Zenon DEF Idle, NoFrame
  <2>2. ASSUME Init, NEW e \in End PROVE end[e] = Idle /\ inbox[e] = NoFrame
    BY Zenon, <2>2 DEF Init
  <2> QED  BY Zenon, <2>1, <2>2 DEF Told
<1>2. SyncInv => TypeOK  BY Zenon DEF SyncInv
<1>3. Final /\ Justified =>
        \A d \in Device :
          /\ record[d] = "deleted" => record'[d] = "deleted"
          /\ record[d] # "deleted" /\ record'[d] = "deleted" =>
               \/ record[d] = "live" /\ UNCHANGED <<end, inbox>>
               \/ \E e \in End : Self(e) = d /\ record[Peer(e)] = "deleted"
  BY Zenon DEF Final, Justified
<1> QED  BY SyncInvariance, <1>1, <1>2, <1>3, ToldNext, PTL DEF Spec, DeletionsHaveSource

-----------------------------------------------------------------------------
(* Service clients and their keys                                          *)

Finding == {"application", "insertApplication", "insertClient"}
KeyLess == {"master", "index", "insertKey"}
Cleaning == {"verify", "cleanKeys", "cleanClient", "removeFile"}

JobRecord ==
  [op : {"none", "register", "provision"},
   pc : {"idle", "write", "derive"} \cup Finding \cup KeyLess \cup Cleaning,
   client_id : SUBSET ClientId, uri : SUBSET Uri, app : 0 .. MaxApps, client : Nat, index : Nat]

One(S) == \E e : S = {e}

\* Nothing of the client with row i is left.
Gone(i) == i \notin present \cup masters /\ KeysOf(i) = {}

\* create_client, up to the statement that comes next.
CreateOK(x) ==
  /\ x.pc \in Finding \cup {"write"} => x.client = 0 /\ One(x.client_id) /\ One(x.uri)
  /\ x.pc = "insertClient" => /\ x.app # 0
                              /\ \A u \in x.uri : u \in moved \/ apps[u] = x.app
  /\ x.client # 0 =>
       /\ x.client \in DOMAIN clientRows \ created
       /\ x.client_id = {clientRows[x.client].client_id}
       /\ clientRows[x.client].provisioned = (x.op = "provision")
  /\ x.pc \in KeyLess => x.client # 0 /\ KeysOf(x.client) = {}
  /\ x.pc \in {"index", "insertKey", "derive"} => x.client \in masters
  /\ x.pc = "derive" => x.client # 0 /\ KeysOf(x.client) # {}

\* The file and the row that the command knows of are there, and nothing is left of
\* earlier clients with the same id.
ProvisionOK(x) ==
  /\ x.pc # "write" => x.client_id \subseteq files
  /\ x.pc # "removeFile" => (x.client # 0) = (x.client \in present)
  /\ x.pc \in {"cleanKeys", "cleanClient"} => x.client # 0
  /\ x.pc \in {"cleanClient", "removeFile"} => x.client \notin masters /\ KeysOf(x.client) = {}
  /\ x.pc = "removeFile" => x.client \notin present
  /\ x.client = 0 => \A i \in present : clientRows[i].client_id \notin x.client_id
  /\ \A i \in DOMAIN clientRows \ {x.client} :
       clientRows[i].provisioned /\ clientRows[i].client_id \in x.client_id => Gone(i)

JobOK(x) ==
  /\ x \in JobRecord
  /\ x.op = "none" => x = NoJob
  /\ x.op = "register" => x.pc \in Finding \cup KeyLess \cup {"derive"}
  /\ x.op = "provision" => x.pc # "idle" /\ ProvisionOK(x)
  /\ CreateOK(x)

JobsOK ==
  /\ DOMAIN jobs = Job /\ \A j \in Job : JobOK(jobs[j])
  /\ \A i, j \in Job : i # j =>
       /\ jobs[i].op = "provision" => jobs[j] = NoJob
       /\ jobs[i].client = jobs[j].client => jobs[i].client = 0

TablesOK ==
  /\ apps \in [Uri -> 0 .. MaxApps] /\ appCount \in 0 .. MaxApps
  /\ clientRows \in Seq(ClientRow) /\ present \cup masters \cup created \subseteq DOMAIN clientRows
  /\ keyRows \subseteq KeyRow /\ derived \subseteq keyRows
  /\ \A k, l \in keyRows : k.index = l.index => k = l
  /\ \A k \in keyRows : k.client \in DOMAIN clientRows
  /\ files \subseteq ClientId /\ moved \subseteq Uri

ClientsOK ==
  /\ \A i \in DOMAIN clientRows :
       clientRows[i].provisioned /\ clientRows[i].client_id \notin files => Gone(i)
  /\ \A i \in created \cap present :
       i \in masters /\ KeysOf(i) # {} /\ KeysOf(i) \subseteq derived
  /\ \A i \in DOMAIN clientRows :
       clientRows[i].uri \in moved \/ apps[clientRows[i].uri] = clientRows[i].app

ClientInv == TablesOK /\ ClientsOK /\ JobsOK


LEMMA NoJobOK == JobOK(NoJob)
BY SMTT(30), ClientBounds DEF JobOK, NoJob, JobRecord, CreateOK, Finding, KeyLess, Cleaning

LEMMA JobOf ==
  ASSUME ClientInv, NEW j \in Job
  PROVE JobOK(jobs[j]) /\ jobs[j] \in JobRecord /\ CreateOK(jobs[j])
BY Zenon DEF ClientInv, JobsOK, JobOK

LEMMA ClientInitInv == ClientInit => ClientInv
<1>. SUFFICES ASSUME ClientInit PROVE ClientInv BY Zenon
<1>1. TablesOK BY ClientBounds DEF ClientInit, TablesOK
<1>2. ClientsOK BY DEF ClientInit, ClientsOK
<1>3. \A j \in Job : jobs[j] = NoJob BY Zenon DEF ClientInit
<1>4. NoJob.op = "none" /\ NoJob.client = 0 BY Zenon DEF NoJob
<1>5. DOMAIN jobs = Job BY Zenon DEF ClientInit
<1>6. JobsOK BY Zenon, <1>3, <1>4, <1>5, NoJobOK DEF JobsOK
<1>. QED BY <1>1, <1>2, <1>6, Zenon DEF ClientInv

\* What a request has done so far stays true while another one, for the client
\* with row mine, or none, writes.
LEMMA CreateKept ==
  ASSUME NEW x \in JobRecord, CreateOK(x), NEW mine, x.client # 0 => x.client # mine,
         \A i \in DOMAIN clientRows : i \in DOMAIN clientRows' /\ clientRows'[i] = clientRows[i],
         created' \subseteq created \cup {mine}, masters \ {mine} \subseteq masters',
         \A i \in DOMAIN clientRows : i # mine => KeysOf(i)' = KeysOf(i),
         \A u \in Uri : u \in moved' \/ (u \notin moved /\ (apps[u] # 0 => apps'[u] = apps[u]))
  PROVE CreateOK(x)'
<1>1. x.uri \subseteq Uri BY Zenon DEF JobRecord
<1>2. ASSUME x.pc = "insertClient"
      PROVE x.app # 0 /\ \A u \in x.uri : u \in moved' \/ apps'[u] = x.app
  <2>1. x.app # 0 /\ \A u \in x.uri : u \in moved \/ apps[u] = x.app
    BY Zenon, <1>2 DEF CreateOK
  <2>. QED BY Zenon, <1>1, <2>1
<1>3. CASE x.client = 0
  <2>1. x.pc \notin KeyLess \cup {"derive"} BY <1>3, Zenon DEF CreateOK
  <2>2. x.pc \notin {"index", "insertKey", "derive"} BY Zenon, <2>1 DEF KeyLess
  <2>3. x.pc \in Finding \cup {"write"} => One(x.client_id) /\ One(x.uri) BY Zenon DEF CreateOK
  <2>. QED BY <1>2, <1>3, <2>1, <2>2, <2>3, Zenon DEF CreateOK
<1>4. CASE x.client # 0
  <2>1. /\ x.client \in DOMAIN clientRows \ created
        /\ x.client_id = {clientRows[x.client].client_id}
        /\ clientRows[x.client].provisioned = (x.op = "provision")
        /\ x.pc \notin Finding \cup {"write"}
    BY <1>4, Zenon DEF CreateOK
  <2>2. x.pc # "insertClient" BY Zenon, <2>1 DEF Finding
  <2>3. /\ x.client \in DOMAIN clientRows' \ created'
        /\ x.client_id = {clientRows'[x.client].client_id}
        /\ clientRows'[x.client].provisioned = (x.op = "provision")
    BY <1>4, <2>1, Zenon
  <2>4. KeysOf(x.client)' = KeysOf(x.client) /\ (x.client \in masters => x.client \in masters')
    BY <1>4, <2>1, Zenon
  <2>5. /\ x.pc \in KeyLess => KeysOf(x.client) = {}
        /\ x.pc \in {"index", "insertKey", "derive"} => x.client \in masters
        /\ x.pc = "derive" => KeysOf(x.client) # {}
    BY Zenon DEF CreateOK
  <2>. QED BY <1>4, <2>1, <2>2, <2>3, <2>4, <2>5, Zenon DEF CreateOK
<1>. QED BY Zenon, <1>3, <1>4

\* A request that registers a client overlaps with others that do.
LEMMA JobKept ==
  ASSUME NEW x, JobOK(x), x.op # "provision", CreateOK(x)'
  PROVE JobOK(x)'
BY Zenon DEF JobOK

LEMMA JobStep ==
  ASSUME ClientInv, NEW j \in Job, NEW y, Advance(j, y) \/ (jobs' = jobs /\ y = jobs[j]),
         jobs[j].op # "none", JobOK(y)',
         y.op \in {"none", jobs[j].op},
         y.client = 0 \/ y.client = jobs[j].client \/ y.client \notin DOMAIN clientRows,
         \A i \in DOMAIN clientRows : i \in DOMAIN clientRows' /\ clientRows'[i] = clientRows[i],
         created' \subseteq created \cup {jobs[j].client},
         masters \ {jobs[j].client} \subseteq masters',
         \A i \in DOMAIN clientRows : i # jobs[j].client => KeysOf(i)' = KeysOf(i),
         \A u \in Uri : u \in moved' \/ (u \notin moved /\ (apps[u] # 0 => apps'[u] = apps[u]))
  PROVE JobsOK'
<1>0. JobsOK BY Zenon DEF ClientInv
<1>1. /\ DOMAIN jobs' = Job /\ jobs'[j] = y
      /\ \A d \in Job : d # j => jobs'[d] = jobs[d]
  BY Zenon, <1>0 DEF JobsOK, Advance
<1>2. PICK mine : mine = jobs[j].client BY Zenon
<1>3. NoJob.op = "none" /\ NoJob.client = 0 BY Zenon DEF NoJob
<1>4. ASSUME NEW d \in Job, d # j PROVE JobOK(jobs[d])'
  <2>1. PICK x : x = jobs[d] BY Zenon
  <2>2. JobOK(x) /\ x \in JobRecord /\ CreateOK(x) BY <2>1, JobOf, Zenon
  <2>3. x.op # "provision" BY <1>0, <1>3, <1>4, <2>1, Zenon DEF JobsOK
  <2>4. x.client # 0 => x.client # mine BY <1>0, <1>2, <1>4, <2>1, Zenon DEF JobsOK
  <2>5. CreateOK(x)' BY Zenon, <1>2, <2>2, <2>4, CreateKept
  <2>6. JobOK(x)' BY <2>2, <2>3, <2>5, JobKept, Zenon
  <2>. QED BY <1>1, <1>4, <2>1, <2>6, Zenon
<1>5. ASSUME NEW d \in Job, d # j
      PROVE /\ y.op = "provision" => jobs[d] = NoJob
            /\ jobs[d].op # "provision"
            /\ y.client = jobs[d].client => y.client = 0
  <2>1. jobs[d].op # "provision" BY <1>0, <1>3, <1>5, Zenon DEF JobsOK
  <2>2. y.op = "provision" => jobs[d] = NoJob BY <1>0, <1>5, Zenon DEF JobsOK
  <2>3. jobs[d].client = jobs[j].client => jobs[d].client = 0 BY <1>0, <1>5, Zenon DEF JobsOK
  <2>4. jobs[d].client # 0 => jobs[d].client \in DOMAIN clientRows
    BY JobOf, Zenon DEF CreateOK
  <2>. QED BY <2>1, <2>2, <2>3, <2>4, Zenon
<1>6. \A d \in Job : JobOK(jobs[d])' BY <1>1, <1>4, Zenon
<1>7. \A d, e \in Job : d # e =>
        /\ jobs'[d].op = "provision" => jobs'[e] = NoJob
        /\ jobs'[d].client = jobs'[e].client => jobs'[d].client = 0
  <2>. SUFFICES ASSUME NEW d \in Job, NEW e \in Job, d # e
                PROVE /\ jobs'[d].op = "provision" => jobs'[e] = NoJob
                      /\ jobs'[d].client = jobs'[e].client => jobs'[d].client = 0
    BY Zenon
  <2>1. CASE d = j BY <1>1, <1>5, <2>1, Zenon
  <2>2. CASE e = j
    <3>1. jobs[d].op # "provision" /\ (y.client = jobs[d].client => y.client = 0)
      BY <1>5, <2>2, Zenon
    <3>2. jobs'[d] = jobs[d] /\ jobs'[e] = y BY <1>1, <2>2, Zenon
    <3>. QED BY Zenon, <3>1, <3>2
  <2>3. CASE d # j /\ e # j
    <3>1. jobs'[d] = jobs[d] /\ jobs'[e] = jobs[e] BY <1>1, <2>3, Zenon
    <3>2. /\ jobs[d].op = "provision" => jobs[e] = NoJob
          /\ jobs[d].client = jobs[e].client => jobs[d].client = 0
      BY <1>0, Zenon DEF JobsOK
    <3>. QED BY Zenon, <3>1, <3>2
  <2>. QED BY Zenon, <2>1, <2>2, <2>3
<1>. QED BY <1>1, <1>6, <1>7, Zenon DEF JobsOK

LEMMA StoreKept ==
  ASSUME UNCHANGED store
  PROVE /\ TablesOK => TablesOK'
        /\ ClientsOK => ClientsOK'
        /\ \A i : KeysOf(i)' = KeysOf(i)
        /\ \A x : JobOK(x) => JobOK(x)'
<1>1. /\ apps' = apps /\ appCount' = appCount /\ clientRows' = clientRows /\ present' = present
      /\ keyRows' = keyRows /\ masters' = masters /\ derived' = derived /\ files' = files
      /\ created' = created /\ moved' = moved
  BY Zenon DEF store
<1>2. TablesOK => TablesOK' BY <1>1, Zenon DEF TablesOK
<1>3. \A i : KeysOf(i)' = KeysOf(i) BY <1>1, Zenon DEF KeysOf
<1>4. \A i : Gone(i)' = Gone(i) BY Zenon, <1>1, <1>3 DEF Gone
<1>5. ClientsOK => ClientsOK' BY <1>1, <1>3, <1>4, Zenon DEF ClientsOK
<1>6. ASSUME NEW x, JobOK(x) PROVE JobOK(x)'
  <2>1. CreateOK(x)' BY <1>1, <1>3, <1>6, Zenon DEF CreateOK, JobOK
  <2>2. x.op = "provision" => ProvisionOK(x)'
    BY <1>1, <1>3, <1>4, <1>6, Zenon DEF ProvisionOK, JobOK
  <2>. QED BY <1>6, <2>1, <2>2, Zenon DEF JobOK
<1>. QED BY <1>2, <1>3, <1>5, <1>6, Zenon

LEMMA QuietJobStep ==
  ASSUME ClientInv, NEW j \in Job, NEW y, Advance(j, y), jobs[j].op # "none", JobOK(y),
         y.op \in {"none", jobs[j].op}, y.client = 0 \/ y.client = jobs[j].client,
         UNCHANGED store
  PROVE ClientInv'
<1>1. TablesOK' /\ ClientsOK' /\ (\A i : KeysOf(i)' = KeysOf(i)) /\ JobOK(y)'
  BY StoreKept, Zenon DEF ClientInv
<1>2. /\ apps' = apps /\ clientRows' = clientRows /\ masters' = masters
      /\ created' = created /\ moved' = moved
  BY Zenon DEF store
<1>3. JobsOK' BY Zenon, <1>1, <1>2, JobStep
<1>. QED BY <1>1, <1>3, Zenon DEF ClientInv

\* A request ends.
LEMMA CloseStep ==
  ASSUME ClientInv, NEW j \in Job, Close(j), jobs[j].op # "none", UNCHANGED store
  PROVE ClientInv'
<1>1. Advance(j, NoJob) BY Zenon DEF Close, Advance
<1>2. NoJob.op = "none" /\ NoJob.client = 0 BY Zenon DEF NoJob
<1>. QED BY Zenon, <1>1, <1>2, NoJobOK, QuietJobStep

\* A request that is not idle runs an operation.
LEMMA Running ==
  ASSUME NEW x, JobOK(x), x.pc # "idle"
  PROVE x.op \in {"register", "provision"}
<1>1. x.op # "none" BY SMTT(30) DEF JobOK, NoJob
<1>2. x \in JobRecord BY Zenon DEF JobOK
<1>. QED BY Zenon, <1>1, <1>2 DEF JobRecord

LEMMA FailedStep ==
  ASSUME ClientInv, NEW j \in Job, Failed(j), jobs[j].pc \in Finding \cup KeyLess \cup {"derive"},
         UNCHANGED store
  PROVE ClientInv'
<1>1. PICK x : x = jobs[j] BY Zenon
<1>2. JobOK(x) /\ x \in JobRecord /\ CreateOK(x) BY <1>1, JobOf, Zenon
<1>3. x.pc \in Finding \cup KeyLess \cup {"derive"} BY Zenon, <1>1
<1>4. x.pc \notin {"idle", "write"} \cup Cleaning
  BY Zenon, <1>3 DEF Finding, KeyLess, Cleaning
<1>5. x.op \in {"register", "provision"} BY Zenon, <1>2, <1>4, Running
<1>6. CASE Close(j) BY Zenon, <1>1, <1>5, <1>6, CloseStep
<1>7. CASE x.op = "provision" /\ Move(j, "verify")
  <2>1. PICK y : y = [x EXCEPT !.pc = "verify"] BY Zenon
  <2>2. /\ y \in JobRecord /\ y.pc = "verify" /\ y.op = x.op /\ y.client = x.client
        /\ y.client_id = x.client_id
    BY Zenon, <1>2, <2>1 DEF JobRecord, Cleaning
  <2>3. ProvisionOK(x) BY <1>2, <1>7, Zenon DEF JobOK
  <2>4. x.pc \notin {"write", "removeFile", "cleanClient"} BY Zenon, <1>4 DEF Cleaning
  <2>5. /\ x.client_id \subseteq files /\ (x.client # 0) = (x.client \in present)
        /\ x.client = 0 => \A i \in present : clientRows[i].client_id \notin x.client_id
        /\ \A i \in DOMAIN clientRows \ {x.client} :
             clientRows[i].provisioned /\ clientRows[i].client_id \in x.client_id => Gone(i)
    BY Zenon, <2>3, <2>4 DEF ProvisionOK
  <2>6. ProvisionOK(y) BY Zenon, <2>2, <2>5 DEF ProvisionOK
  <2>7. x.client # 0 =>
          /\ x.client \in DOMAIN clientRows \ created
          /\ x.client_id = {clientRows[x.client].client_id}
          /\ clientRows[x.client].provisioned = (x.op = "provision")
    BY <1>2, Zenon DEF CreateOK
  <2>8. CreateOK(y) BY Zenon, <2>2, <2>7 DEF CreateOK, Finding, KeyLess
  <2>9. JobOK(y) BY Zenon, <1>7, <2>2, <2>6, <2>8 DEF JobOK
  <2>10. Advance(j, y) BY <1>1, <1>7, <2>1, Zenon DEF Move
  <2>. QED BY Zenon, <1>1, <1>5, <2>2, <2>9, <2>10, QuietJobStep
<1>. QED BY Zenon, <1>1, <1>6, <1>7 DEF Failed


\* An application changes while no client is provisioned.
LEMMA ApplicationStep ==
  ASSUME ClientInv, ~Provisioning, apps' \in [Uri -> 0 .. MaxApps], appCount' \in 0 .. MaxApps,
         moved' \subseteq Uri,
         \A u \in Uri : u \in moved' \/ (u \notin moved /\ (apps[u] # 0 => apps'[u] = apps[u])),
         UNCHANGED <<clientRows, present, keyRows, masters, derived, files, jobs, created>>
  PROVE ClientInv'
<1>0. TablesOK /\ ClientsOK /\ JobsOK BY Zenon DEF ClientInv
<1>1. TablesOK' BY <1>0, Zenon DEF TablesOK
<1>2. \A i : KeysOf(i)' = KeysOf(i) /\ Gone(i)' = Gone(i) BY Zenon DEF KeysOf, Gone
<1>3. ClientsOK'
  <2>1. ASSUME NEW i \in DOMAIN clientRows
        PROVE clientRows[i].uri \in moved' \/ apps'[clientRows[i].uri] = clientRows[i].app
    <3>1. clientRows[i] \in ClientRow BY SMTT(30), <1>0 DEF TablesOK
    <3>2. clientRows[i].uri \in Uri /\ clientRows[i].app # 0
      BY SMTT(30), <3>1, ClientBounds DEF ClientRow, ApplicationRow
    <3>3. clientRows[i].uri \in moved \/ apps[clientRows[i].uri] = clientRows[i].app
      BY <1>0, Zenon DEF ClientsOK
    <3>. QED BY Zenon, <3>2, <3>3
  <2>. QED BY <1>0, <1>2, <2>1, Zenon DEF ClientsOK
<1>4. ASSUME NEW d \in Job PROVE JobOK(jobs[d])'
  <2>1. PICK x : x = jobs[d] BY Zenon
  <2>2. JobOK(x) /\ x \in JobRecord /\ CreateOK(x) BY <2>1, JobOf, Zenon
  <2>3. x.op # "provision" BY <2>1, Zenon DEF Provisioning
  <2>4. CreateOK(x)' BY Zenon, <1>2, <2>2, CreateKept
  <2>. QED BY <2>1, <2>2, <2>3, <2>4, JobKept, Zenon
<1>5. JobsOK' BY <1>0, <1>4, Zenon DEF JobsOK
<1>. QED BY <1>1, <1>3, <1>5, Zenon DEF ClientInv

LEMMA ApplicationsStep ==
  ASSUME ClientInv,
         \/ \E u \in Named : CreateApplication(u)
         \/ \E u \in Uri : DeleteApplication(u)
         \/ \E u, v \in Uri : UpdateApplication(u, v)
  PROVE ClientInv'
<1>0. /\ apps \in [Uri -> 0 .. MaxApps] /\ appCount \in 0 .. MaxApps /\ moved \subseteq Uri
  BY Zenon DEF ClientInv, TablesOK
<1>1. ASSUME NEW u \in Named, CreateApplication(u) PROVE ClientInv'
  <2>1. u \in Uri /\ appCount + 1 \in 0 .. MaxApps /\ appCount' = appCount + 1
    BY SMTT(30), <1>0, <1>1, NamedAssumption, ClientBounds DEF CreateApplication
  <2>2. /\ apps' \in [Uri -> 0 .. MaxApps] /\ moved' = moved
        /\ \A w \in Uri : apps[w] # 0 => apps'[w] = apps[w]
    BY Zenon, <1>0, <1>1, <2>1 DEF CreateApplication
  <2>. QED BY Zenon, <1>0, <1>1, <2>1, <2>2, ApplicationStep DEF CreateApplication
<1>2. ASSUME NEW u \in Uri, DeleteApplication(u) PROVE ClientInv'
  <2>1. apps' \in [Uri -> 0 .. MaxApps] /\ \A w \in Uri : w # u => apps'[w] = apps[w]
    BY SMTT(30), <1>0, <1>2, ClientBounds DEF DeleteApplication
  <2>. QED BY Zenon, <1>0, <1>2, <2>1, ApplicationStep DEF DeleteApplication, MayMove
<1>3. ASSUME NEW u \in Uri, NEW v \in Uri, UpdateApplication(u, v) PROVE ClientInv'
  <2>1. apps' \in [Uri -> 0 .. MaxApps] /\ \A w \in Uri : w \notin {u, v} => apps'[w] = apps[w]
    BY Zenon, <1>0, <1>3, ClientBounds DEF UpdateApplication
  <2>. QED BY Zenon, <1>0, <1>3, <2>1, ApplicationStep DEF UpdateApplication, MayMove
<1>. QED BY <1>1, <1>2, <1>3, Zenon


\* A request begins.
LEMMA OpenStep ==
  ASSUME ClientInv, NEW j \in Job, NEW y, Open(j, y), ~Provisioning, JobOK(y), y.client = 0,
         y.op = "provision" => \A d \in Job : jobs[d] = NoJob, UNCHANGED store
  PROVE ClientInv'
<1>0. JobsOK BY Zenon DEF ClientInv
<1>1. /\ DOMAIN jobs' = Job /\ jobs'[j] = y
      /\ \A d \in Job : d # j => jobs'[d] = jobs[d]
  BY Zenon, <1>0 DEF JobsOK, Open
<1>2. TablesOK' /\ ClientsOK' /\ \A x : JobOK(x) => JobOK(x)' BY StoreKept, Zenon DEF ClientInv
<1>3. ASSUME NEW d \in Job PROVE JobOK(jobs[d])'
  <2>1. PICK x : x = jobs'[d] BY Zenon
  <2>2. JobOK(x) BY Zenon, <1>0, <1>1, <2>1 DEF JobsOK
  <2>. QED BY <1>2, <2>1, <2>2, Zenon
<1>4. \A d \in Job : jobs[d].op # "provision" BY Zenon DEF Provisioning
<1>5. ASSUME NEW d \in Job, NEW e \in Job, d # e
      PROVE /\ jobs'[d].op = "provision" => jobs'[e] = NoJob
            /\ jobs'[d].client = jobs'[e].client => jobs'[d].client = 0
  <2>1. CASE d = j BY Zenon, <1>1, <1>5, <2>1
  <2>2. CASE e = j
    <3>1. jobs'[d] = jobs[d] /\ jobs'[e] = y BY Zenon, <1>1, <1>5, <2>2
    <3>. QED BY Zenon, <1>4, <3>1
  <2>3. CASE d # j /\ e # j
    <3>1. jobs'[d] = jobs[d] /\ jobs'[e] = jobs[e] BY <1>1, <2>3, Zenon
    <3>2. jobs[d].client = jobs[e].client => jobs[d].client = 0 BY <1>0, <1>5, Zenon DEF JobsOK
    <3>. QED BY Zenon, <1>4, <3>1, <3>2
  <2>. QED BY Zenon, <2>1, <2>2, <2>3
<1>6. JobsOK' BY <1>1, <1>3, <1>5, Zenon DEF JobsOK
<1>. QED BY <1>2, <1>6, Zenon DEF ClientInv

LEMMA RegisterStep ==
  ASSUME ClientInv, NEW j \in Job, NEW cid \in ClientId, NEW u \in Named, RegisterClient(j, cid, u)
  PROVE ClientInv'
<1>1. PICK y : y = [NoJob EXCEPT !.op = "register", !.pc = "application",
                                 !.client_id = {cid}, !.uri = {u}]
  BY Zenon
<1>2. /\ y \in JobRecord /\ y.op = "register" /\ y.pc = "application" /\ y.client = 0
      /\ y.client_id = {cid} /\ y.uri = {u}
  <2>1. u \in Uri /\ 0 \in 0 .. MaxApps BY NamedAssumption, ClientBounds
  <2>2. y = [op |-> "register", pc |-> "application", client_id |-> {cid}, uri |-> {u}, app |-> 0,
             client |-> 0, index |-> 0]
    BY Zenon, <1>1 DEF NoJob
  <2>. QED BY Zenon, <2>1, <2>2 DEF JobRecord, Finding
<1>3. JobOK(y) BY Zenon, <1>2 DEF JobOK, CreateOK, Finding, KeyLess, One
<1>. QED BY Zenon, <1>1, <1>2, <1>3, OpenStep DEF RegisterClient

LEMMA ProvisionStep ==
  ASSUME ClientInv, NEW j \in Job, NEW cid \in ClientId, NEW u \in Named, Provision(j, cid, u)
  PROVE ClientInv'
<1>1. PICK y : y = [NoJob EXCEPT !.op = "provision", !.pc = "write",
                                 !.client_id = {cid}, !.uri = {u}]
  BY Zenon
<1>2. /\ y \in JobRecord /\ y.op = "provision" /\ y.pc = "write" /\ y.client = 0
      /\ y.client_id = {cid} /\ y.uri = {u}
  <2>1. u \in Uri /\ 0 \in 0 .. MaxApps BY NamedAssumption, ClientBounds
  <2>2. y = [op |-> "provision", pc |-> "write", client_id |-> {cid}, uri |-> {u}, app |-> 0,
             client |-> 0, index |-> 0]
    BY Zenon, <1>1 DEF NoJob
  <2>. QED BY Zenon, <2>1, <2>2 DEF JobRecord
<1>3. /\ \A i \in present : clientRows[i].client_id \notin {cid} /\ cid \notin files
      /\ \A i \in Job : jobs[i] = NoJob
  BY Zenon DEF Provision, WithClientId
<1>4. \A i \in DOMAIN clientRows :
        clientRows[i].provisioned /\ clientRows[i].client_id \in {cid} => Gone(i)
  BY Zenon, <1>3 DEF ClientInv, ClientsOK, Provision
<1>5. 0 \notin present
  <2>1. clientRows \in Seq(ClientRow) /\ present \subseteq DOMAIN clientRows
    BY Zenon DEF ClientInv, TablesOK
  <2>. QED BY <2>1
<1>6. ProvisionOK(y) BY SMTT(30), <1>2, <1>3, <1>4, <1>5 DEF ProvisionOK
<1>7. JobOK(y) BY Zenon, <1>2, <1>6 DEF JobOK, CreateOK, Finding, KeyLess, One
<1>8. ~Provisioning BY SMTT(30), <1>3 DEF Provisioning, NoJob
<1>. QED BY Zenon, <1>1, <1>2, <1>3, <1>7, <1>8, OpenStep DEF Provision

LEMMA DieStep ==
  ASSUME ClientInv, Die
  PROVE ClientInv'
<1>1. TablesOK' /\ ClientsOK' /\ (JobOK(NoJob) => JobOK(NoJob)')
  BY StoreKept, Zenon DEF ClientInv, Die
<1>2. DOMAIN jobs' = Job /\ \A j \in Job : jobs'[j] = NoJob BY Zenon DEF Die
<1>3. NoJob.op = "none" /\ NoJob.client = 0 BY Zenon DEF NoJob
<1>4. \A j \in Job : JobOK(jobs[j])' BY <1>1, <1>2, NoJobOK, Zenon
<1>5. JobsOK' BY Zenon, <1>2, <1>3, <1>4 DEF JobsOK
<1>. QED BY <1>1, <1>5, Zenon DEF ClientInv

\* The file is there before anything else of the client.
LEMMA WriteCredentialsStep ==
  ASSUME ClientInv, NEW j \in Job, WriteCredentials(j)
  PROVE ClientInv'
<1>0. TablesOK /\ ClientsOK BY Zenon DEF ClientInv
<1>1. PICK x : x = jobs[j] BY Zenon
<1>2. JobOK(x) /\ x \in JobRecord /\ CreateOK(x) BY <1>1, JobOf, Zenon
<1>3. x.pc = "write" BY <1>1, Zenon DEF WriteCredentials, In
<1>4. x.op = "provision"
  <2>1. x.op \in {"register", "provision"} BY Zenon, <1>2, <1>3, Running
  <2>. QED BY Zenon, <1>2, <1>3, <2>1 DEF JobOK, Finding, KeyLess
<1>5. CASE UNCHANGED files /\ Close(j)
  <2>1. UNCHANGED store BY Zenon, <1>5 DEF WriteCredentials, store
  <2>. QED BY Zenon, <1>1, <1>4, <1>5, <2>1, CloseStep
<1>6. CASE files' = files \cup x.client_id /\ Move(j, "application")
  <2>1. PICK y : y = [x EXCEPT !.pc = "application"] BY Zenon
  <2>2. /\ y \in JobRecord /\ y.pc = "application" /\ y.op = x.op /\ y.client = x.client
        /\ y.client_id = x.client_id /\ y.uri = x.uri
    BY Zenon, <1>2, <2>1 DEF JobRecord, Finding
  <2>3. UNCHANGED <<apps, appCount, clientRows, present, keyRows, masters, derived, created, moved>>
    BY Zenon DEF WriteCredentials
  <2>4. \A i : KeysOf(i)' = KeysOf(i) /\ Gone(i)' = Gone(i) BY Zenon, <2>3 DEF KeysOf, Gone
  <2>5. x.client_id \subseteq ClientId BY Zenon, <1>2 DEF JobRecord
  <2>6. TablesOK' BY <1>0, <1>6, <2>3, <2>5, Zenon DEF TablesOK
  <2>7. ClientsOK' BY <1>0, <1>6, <2>3, <2>4, Zenon DEF ClientsOK
  <2>8. ProvisionOK(x) BY <1>2, <1>4, Zenon DEF JobOK
  <2>9. x.client = 0 /\ One(x.client_id) /\ One(x.uri) BY Zenon, <1>2, <1>3 DEF CreateOK
  <2>10. ProvisionOK(y)' BY Zenon, <1>3, <1>6, <2>2, <2>3, <2>4, <2>8, <2>9 DEF ProvisionOK
  <2>11. CreateOK(y)' BY Zenon, <2>2, <2>9 DEF CreateOK, Finding, KeyLess
  <2>12. JobOK(y)' BY Zenon, <1>4, <2>2, <2>10, <2>11 DEF JobOK
  <2>13. Advance(j, y) BY <1>1, <1>6, <2>1, Zenon DEF Move
  <2>14. JobsOK' BY Zenon, <1>1, <1>4, <2>2, <2>3, <2>4, <2>12, <2>13, JobStep
  <2>. QED BY <2>6, <2>7, <2>14, Zenon DEF ClientInv
<1>. QED BY <1>1, <1>5, <1>6, Zenon DEF WriteCredentials


\* The command goes on in create_client: y after x.
LEMMA ProvisionMoves ==
  ASSUME NEW x, NEW y, ProvisionOK(x), y.client = x.client, y.client_id = x.client_id,
         x.pc \notin {"write", "removeFile"},
         y.pc \notin {"cleanKeys", "cleanClient", "removeFile"}
  PROVE ProvisionOK(y)
<1>1. /\ x.client_id \subseteq files /\ (x.client # 0) = (x.client \in present)
      /\ x.client = 0 => \A i \in present : clientRows[i].client_id \notin x.client_id
      /\ \A i \in DOMAIN clientRows \ {x.client} :
           clientRows[i].provisioned /\ clientRows[i].client_id \in x.client_id => Gone(i)
  BY Zenon DEF ProvisionOK
<1>. QED BY Zenon, <1>1 DEF ProvisionOK

\* It writes what belongs to its own client.
LEMMA ProvisionKept ==
  ASSUME NEW x, ProvisionOK(x), x.pc \notin {"cleanClient", "removeFile"},
         \A i \in DOMAIN clientRows : i # x.client /\ Gone(i) => Gone(i)',
         UNCHANGED <<clientRows, present, files>>
  PROVE ProvisionOK(x)'
<1>1. \A i \in DOMAIN clientRows \ {x.client} :
        clientRows[i].provisioned /\ clientRows[i].client_id \in x.client_id => Gone(i)'
  BY Zenon DEF ProvisionOK
<1>2. /\ x.pc # "write" => x.client_id \subseteq files'
      /\ (x.client # 0) = (x.client \in present')
      /\ x.pc \in {"cleanKeys", "cleanClient"} => x.client # 0
      /\ x.client = 0 => \A i \in present' : clientRows'[i].client_id \notin x.client_id
  BY Zenon DEF ProvisionOK
<1>. QED BY Zenon, <1>1, <1>2 DEF ProvisionOK

\* A request in create_client, its pc in general.
LEMMA Creating ==
  ASSUME NEW x, JobOK(x), x.pc \in Finding \cup KeyLess \cup {"derive"}
  PROVE /\ x \in JobRecord /\ x.op \in {"register", "provision"}
        /\ x.pc \notin {"idle", "write"} \cup Cleaning
        /\ CreateOK(x) /\ (x.op = "provision" => ProvisionOK(x))
<1>1. x.pc \notin {"idle", "write"} \cup Cleaning BY Zenon DEF Finding, KeyLess, Cleaning
<1>2. x.op \in {"register", "provision"} BY Zenon, <1>1, Running
<1>. QED BY <1>1, <1>2, Zenon DEF JobOK

\* It goes on in create_client as well.
LEMMA StillCreating ==
  ASSUME NEW x, NEW y \in JobRecord, JobOK(x), x.pc \in Finding \cup KeyLess \cup {"derive"},
         y.pc \in Finding \cup KeyLess \cup {"derive"}, y.op = x.op, y.client = x.client,
         y.client_id = x.client_id
  PROVE y.op = "provision" => ProvisionOK(y)
<1>1. x.op = "provision" => ProvisionOK(x) BY Creating, Zenon
<1>2. /\ x.pc \notin {"write", "removeFile"}
      /\ y.pc \notin {"cleanKeys", "cleanClient", "removeFile"}
  BY Zenon DEF Finding, KeyLess
<1>. QED BY Zenon, <1>1, <1>2, ProvisionMoves

LEMMA CreatingOK ==
  ASSUME NEW y \in JobRecord, y.op \in {"register", "provision"},
         y.pc \in Finding \cup KeyLess \cup {"derive"}, CreateOK(y),
         y.op = "provision" => ProvisionOK(y)
  PROVE JobOK(y)
<1>1. y.pc # "idle" BY Zenon DEF Finding, KeyLess
<1>. QED BY Zenon, <1>1 DEF JobOK

LEMMA FindApplicationStep ==
  ASSUME ClientInv, NEW j \in Job, FindApplication(j)
  PROVE ClientInv'
<1>1. PICK x : x = jobs[j] BY Zenon
<1>2. JobOK(x) BY <1>1, JobOf, Zenon
<1>3. x.pc = "application" /\ UNCHANGED store BY <1>1, Zenon DEF FindApplication, In
<1>4. x.pc \in Finding \cup KeyLess \cup {"derive"} BY Zenon, <1>3 DEF Finding
<1>5. x \in JobRecord /\ x.op \in {"register", "provision"} /\ CreateOK(x)
  BY <1>2, <1>4, Creating, Zenon
<1>6. x.client = 0 /\ One(x.client_id) /\ One(x.uri)
  BY Zenon, <1>3, <1>5 DEF CreateOK, Finding
<1>7. PICK u \in x.uri :
        IF apps[u] # 0 THEN Advance(j, [x EXCEPT !.pc = "insertClient", !.app = apps[u]])
        ELSE Advance(j, [x EXCEPT !.pc = "insertApplication"])
  BY Zenon, <1>1 DEF FindApplication, Move
<1>8. x.uri = {u} /\ u \in Uri BY Zenon, <1>5, <1>6 DEF One, JobRecord
<1>9. apps[u] \in 0 .. MaxApps BY Zenon, <1>8 DEF ClientInv, TablesOK
<1>10. PICK y : /\ \/ y = [x EXCEPT !.pc = "insertClient", !.app = apps[u]] /\ apps[u] # 0
                   \/ y = [x EXCEPT !.pc = "insertApplication"]
                /\ Advance(j, y)
  BY Zenon, <1>7
<1>11. /\ y \in JobRecord /\ y.op = x.op /\ y.client = x.client /\ y.client_id = x.client_id
       /\ y.uri = x.uri
       /\ y.pc = "insertApplication" \/ (y.pc = "insertClient" /\ y.app = apps[u] /\ y.app # 0)
  BY Zenon, <1>5, <1>9, <1>10 DEF JobRecord, Finding
<1>12. y.pc \in Finding \cup KeyLess \cup {"derive"} BY Zenon, <1>11 DEF Finding
<1>13. CreateOK(y) BY Zenon, <1>6, <1>8, <1>11 DEF CreateOK, KeyLess, Finding
<1>14. JobOK(y) BY Zenon, <1>2, <1>4, <1>5, <1>11, <1>12, <1>13, StillCreating, CreatingOK
<1>. QED BY Zenon, <1>1, <1>3, <1>5, <1>10, <1>11, <1>14, QuietJobStep

LEMMA InsertApplicationStep ==
  ASSUME ClientInv, NEW j \in Job, InsertApplication(j)
  PROVE ClientInv'
<1>0. TablesOK /\ ClientsOK BY Zenon DEF ClientInv
<1>1. PICK x : x = jobs[j] BY Zenon
<1>2. JobOK(x) BY <1>1, JobOf, Zenon
<1>3. /\ x.pc = "insertApplication"
      /\ UNCHANGED <<clientRows, present, keyRows, masters, derived, files, created, moved>>
  BY <1>1, Zenon DEF InsertApplication, In
<1>4. x.pc \in Finding \cup KeyLess \cup {"derive"} BY Zenon, <1>3 DEF Finding
<1>5. x \in JobRecord /\ x.op \in {"register", "provision"} /\ CreateOK(x)
  BY <1>2, <1>4, Creating, Zenon
<1>6. x.client = 0 /\ One(x.client_id) /\ One(x.uri)
  BY Zenon, <1>3, <1>5 DEF CreateOK, Finding
<1>7. CASE Failed(j) /\ UNCHANGED <<apps, appCount>>
  <2>1. UNCHANGED store BY Zenon, <1>3, <1>7 DEF store
  <2>. QED BY Zenon, <1>1, <1>4, <1>7, <2>1, FailedStep
<1>8. CASE \E u \in x.uri :
             /\ apps[u] = 0 /\ appCount < MaxApps
             /\ apps' = [apps EXCEPT ![u] = appCount + 1] /\ appCount' = appCount + 1
             /\ Advance(j, [x EXCEPT !.pc = "insertClient", !.app = appCount + 1])
  <2>1. PICK u \in x.uri :
             /\ apps[u] = 0 /\ appCount < MaxApps
             /\ apps' = [apps EXCEPT ![u] = appCount + 1] /\ appCount' = appCount + 1
             /\ Advance(j, [x EXCEPT !.pc = "insertClient", !.app = appCount + 1])
    BY Zenon, <1>8
  <2>2. x.uri = {u} /\ u \in Uri BY Zenon, <1>5, <1>6 DEF One, JobRecord
  <2>3. /\ apps \in [Uri -> 0 .. MaxApps] /\ appCount \in 0 .. MaxApps
    BY Zenon, <1>0 DEF TablesOK
  <2>4. PICK n \in 1 .. MaxApps : n = appCount + 1 BY <2>1, <2>3, ClientBounds
  <2>5. /\ apps' \in [Uri -> 0 .. MaxApps] /\ appCount' \in 0 .. MaxApps /\ apps'[u] = n
        /\ \A w \in Uri : apps[w] # 0 => apps'[w] = apps[w]
    BY <2>1, <2>2, <2>3, <2>4, ClientBounds
  <2>6. TablesOK' BY <1>0, <1>3, <2>5, Zenon DEF TablesOK
  <2>7. \A i : KeysOf(i)' = KeysOf(i) /\ Gone(i)' = Gone(i) BY Zenon, <1>3 DEF KeysOf, Gone
  <2>8. ClientsOK'
    <3>1. ASSUME NEW i \in DOMAIN clientRows
          PROVE clientRows[i].uri \in moved \/ apps'[clientRows[i].uri] = clientRows[i].app
      <4>1. clientRows[i] \in ClientRow BY SMTT(30), <1>0 DEF TablesOK
      <4>2. clientRows[i].uri \in Uri /\ clientRows[i].app # 0
        BY SMTT(30), <4>1, ClientBounds DEF ClientRow, ApplicationRow
      <4>3. clientRows[i].uri \in moved \/ apps[clientRows[i].uri] = clientRows[i].app
        BY <1>0, Zenon DEF ClientsOK
      <4>. QED BY <2>5, <4>2, <4>3, Zenon
    <3>. QED BY <1>0, <1>3, <2>7, <3>1, Zenon DEF ClientsOK
  <2>9. PICK y : y = [x EXCEPT !.pc = "insertClient", !.app = n] BY Zenon
  <2>10. /\ y \in JobRecord /\ y.op = x.op /\ y.client = x.client /\ y.client_id = x.client_id
         /\ y.uri = x.uri /\ y.pc = "insertClient" /\ y.app = n
    <3>1. n \in 0 .. MaxApps BY <2>4, ClientBounds
    <3>. QED BY Zenon, <1>5, <2>9, <3>1 DEF JobRecord, Finding
  <2>11. y.pc \in Finding \cup KeyLess \cup {"derive"} /\ y.pc \notin {"cleanClient", "removeFile"}
    BY Zenon, <2>10 DEF Finding
  <2>12. CreateOK(y)' BY SMTT(30), <1>6, <2>2, <2>4, <2>5, <2>10 DEF CreateOK, KeyLess, Finding
  <2>13. y.op = "provision" => ProvisionOK(y) BY Zenon, <1>2, <1>4, <2>10, <2>11, StillCreating
  <2>14. y.op = "provision" => ProvisionOK(y)'
    BY Zenon, <1>3, <2>7, <2>11, <2>13, ProvisionKept
  <2>15. y.op \in {"register", "provision"} BY Zenon, <1>5, <2>10
  <2>16. y.pc # "idle" BY Zenon, <2>10
  <2>17. JobOK(y)' BY Zenon, <2>10, <2>11, <2>12, <2>14, <2>15, <2>16 DEF JobOK
  <2>18. Advance(j, y) BY <2>1, <2>4, <2>9, Zenon
  <2>19. \A w \in Uri : w \in moved' \/ (w \notin moved /\ (apps[w] # 0 => apps'[w] = apps[w]))
    BY <1>3, <2>5, Zenon
  <2>20. JobsOK' BY Zenon, <1>1, <1>3, <1>5, <2>7, <2>10, <2>17, <2>18, <2>19, JobStep
  <2>. QED BY <2>6, <2>8, <2>20, Zenon DEF ClientInv
<1>9. PICK u \in x.uri :
        IF apps[u] # 0 THEN Failed(j) /\ UNCHANGED <<apps, appCount>>
        ELSE /\ appCount < MaxApps
             /\ apps' = [apps EXCEPT ![u] = appCount + 1] /\ appCount' = appCount + 1
             /\ Advance(j, [x EXCEPT !.pc = "insertClient", !.app = appCount + 1])
  BY Zenon, <1>1 DEF InsertApplication
<1>. QED BY Zenon, <1>7, <1>8, <1>9

LEMMA RowAdded ==
  ASSUME NEW S, NEW s \in Seq(S), NEW e \in S
  PROVE /\ Append(s, e) \in Seq(S) /\ Len(s) + 1 \in Nat \ {0}
        /\ DOMAIN Append(s, e) = DOMAIN s \cup {Len(s) + 1} /\ Len(s) + 1 \notin DOMAIN s
        /\ Append(s, e)[Len(s) + 1] = e /\ \A i \in DOMAIN s : Append(s, e)[i] = s[i]
BY SMTT(30)

LEMMA InsertClientStep ==
  ASSUME ClientInv, NEW j \in Job, InsertClient(j)
  PROVE ClientInv'
<1>0. TablesOK /\ ClientsOK BY Zenon DEF ClientInv
<1>1. PICK x : x = jobs[j] BY Zenon
<1>2. JobOK(x) BY <1>1, JobOf, Zenon
<1>3. /\ x.pc = "insertClient"
      /\ UNCHANGED <<apps, appCount, keyRows, masters, derived, files, created, moved>>
  BY <1>1, Zenon DEF InsertClient, In
<1>4. x.pc \in Finding \cup KeyLess \cup {"derive"} BY Zenon, <1>3 DEF Finding
<1>5. /\ x \in JobRecord /\ x.op \in {"register", "provision"} /\ CreateOK(x)
      /\ x.op = "provision" => ProvisionOK(x)
  BY <1>2, <1>4, Creating, Zenon
<1>6. x.client = 0 /\ One(x.client_id) /\ One(x.uri)
  BY Zenon, <1>3, <1>5 DEF CreateOK, Finding
<1>7. PICK cid \in x.client_id, u \in x.uri :
        IF WithClientId(cid) # {} THEN Failed(j) /\ UNCHANGED <<clientRows, present>>
        ELSE /\ clientRows' = Append(clientRows, [client_id |-> cid, uri |-> u, app |-> x.app,
                                                  provisioned |-> x.op = "provision"])
             /\ present' = present \cup {Len(clientRows) + 1}
             /\ Advance(j, [x EXCEPT !.pc = "master", !.uri = {}, !.app = 0,
                                     !.client = Len(clientRows) + 1])
  BY Zenon, <1>1 DEF InsertClient
<1>8. CASE WithClientId(cid) # {}
  <2>1. UNCHANGED store BY Zenon, <1>3, <1>7, <1>8 DEF store
  <2>. QED BY Zenon, <1>1, <1>4, <1>7, <1>8, <2>1, FailedStep
<1>9. CASE WithClientId(cid) = {}
  <2>1. PICK row : row = [client_id |-> cid, uri |-> u, app |-> x.app,
                          provisioned |-> x.op = "provision"]
    BY Zenon
  <2>2. PICK n : n = Len(clientRows) + 1 BY Zenon
  <2>3. /\ x.uri = {u} /\ u \in Uri /\ x.client_id = {cid} /\ cid \in ClientId
        /\ x.app \in 0 .. MaxApps
    BY Zenon, <1>5, <1>6 DEF One, JobRecord
  <2>4. x.app # 0 /\ (u \in moved \/ apps[u] = x.app) BY Zenon, <1>3, <1>5 DEF CreateOK
  <2>5. /\ row \in ClientRow /\ row.client_id = cid /\ row.uri = u /\ row.app = x.app
        /\ row.provisioned = (x.op = "provision")
    BY SMTT(30), <2>1, <2>3, <2>4, ClientBounds DEF ClientRow, ApplicationRow
  <2>6. clientRows \in Seq(ClientRow) BY Zenon, <1>0 DEF TablesOK
  <2>7. /\ clientRows' \in Seq(ClientRow) /\ n \in Nat \ {0}
        /\ DOMAIN clientRows' = DOMAIN clientRows \cup {n} /\ n \notin DOMAIN clientRows
        /\ clientRows'[n] = row /\ \A i \in DOMAIN clientRows : clientRows'[i] = clientRows[i]
        /\ present' = present \cup {n}
    BY <1>7, <1>9, <2>1, <2>2, <2>5, <2>6, RowAdded
  <2>8. TablesOK' BY <1>0, <1>3, <2>7, Zenon DEF TablesOK
  <2>9. \A i : KeysOf(i)' = KeysOf(i) BY <1>3, Zenon DEF KeysOf
  <2>10. KeysOf(n) = {} /\ n \notin created BY <1>0, <2>7, ZenonT(30) DEF TablesOK, KeysOf
  <2>11. \A i \in DOMAIN clientRows : Gone(i) => Gone(i)'
    BY <1>3, <2>7, <2>9, Zenon DEF Gone
  <2>12. x.op = "provision" => cid \in files
    BY Zenon, <1>3, <1>5, <2>3 DEF ProvisionOK
  <2>13. ClientsOK'
    <3>1. ASSUME NEW i \in DOMAIN clientRows', clientRows'[i].provisioned,
                 clientRows'[i].client_id \notin files'
          PROVE Gone(i)'
      <4>1. i # n BY <1>3, <2>5, <2>7, <2>12, <3>1, Zenon
      <4>. QED BY <1>0, <1>3, <2>7, <2>11, <3>1, <4>1, Zenon DEF ClientsOK
    <3>2. \A i \in DOMAIN clientRows' :
            clientRows'[i].uri \in moved' \/ apps'[clientRows'[i].uri] = clientRows'[i].app
      BY <1>0, <1>3, <2>4, <2>5, <2>7, Zenon DEF ClientsOK
    <3>3. created' \cap present' = created \cap present BY <1>3, <2>7, <2>10, Zenon
    <3>4. \A i \in created' \cap present' :
            i \in masters' /\ KeysOf(i)' # {} /\ KeysOf(i)' \subseteq derived'
      BY <1>0, <1>3, <2>9, <3>3, Zenon DEF ClientsOK
    <3>. QED BY <3>1, <3>2, <3>4, Zenon DEF ClientsOK
  <2>14. PICK y : y = [x EXCEPT !.pc = "master", !.uri = {}, !.app = 0, !.client = n] BY Zenon
  <2>15. /\ y \in JobRecord /\ y.op = x.op /\ y.client = n /\ y.client_id = {cid}
         /\ y.pc = "master"
    <3>1. 0 \in 0 .. MaxApps /\ n \in Nat BY SMTT(30), <2>7, ClientBounds
    <3>. QED BY Zenon, <1>5, <2>3, <2>14, <3>1 DEF JobRecord, KeyLess
  <2>16. CreateOK(y)'
    <3>1. n # 0 BY Zenon, <2>7
    <3>2. n \in DOMAIN clientRows' \ created' BY <1>3, <2>7, <2>10, Zenon
    <3>3. KeysOf(n)' = {} BY <2>9, <2>10, Zenon
    <3>. QED BY Zenon, <2>5, <2>7, <2>15, <3>1, <3>2, <3>3 DEF CreateOK, KeyLess, Finding
  <2>17. ASSUME y.op = "provision" PROVE ProvisionOK(y)'
    <3>1. n # 0 /\ n \in present' BY Zenon, <2>7
    <3>2. ProvisionOK(x) BY Zenon, <1>5, <2>15, <2>17
    <3>3. ASSUME NEW i \in DOMAIN clientRows' \ {n}, clientRows'[i].provisioned,
                 clientRows'[i].client_id \in {cid}
          PROVE Gone(i)'
      <4>1. i \in DOMAIN clientRows /\ clientRows'[i] = clientRows[i] BY <2>7, Zenon
      <4>2. i # 0 BY SMTT(30), <2>6, <4>1
      <4>3. Gone(i) BY <1>6, <2>3, <3>2, <3>3, <4>1, <4>2, Zenon DEF ProvisionOK
      <4>. QED BY <2>11, <4>1, <4>3, Zenon
    <3>4. {cid} \subseteq files' BY Zenon, <1>3, <2>12, <2>15, <2>17
    <3>. QED BY Zenon, <2>15, <3>1, <3>3, <3>4 DEF ProvisionOK
  <2>18. y.pc \in KeyLess /\ y.pc # "idle" BY Zenon, <2>15 DEF KeyLess
  <2>19. JobOK(y)' BY Zenon, <1>5, <2>15, <2>16, <2>17, <2>18 DEF JobOK
  <2>20. Advance(j, y) BY <1>7, <1>9, <2>2, <2>14, Zenon
  <2>21. y.client \notin DOMAIN clientRows BY <2>7, <2>15, Zenon
  <2>22. JobsOK' BY Zenon, <1>1, <1>3, <1>5, <2>7, <2>9, <2>15, <2>19, <2>20, <2>21, JobStep
  <2>. QED BY <2>8, <2>13, <2>22, Zenon DEF ClientInv
<1>. QED BY Zenon, <1>8, <1>9


\* A request writes keys of its own client.
LEMMA OwnKeys ==
  ASSUME TablesOK, ClientsOK, NEW x, JobOK(x), x.op \in {"register", "provision"}, x.client # 0,
         UNCHANGED <<apps, clientRows, present, files, moved>>,
         masters' \subseteq masters \cup {x.client}, masters \subseteq masters',
         keyRows \subseteq keyRows', \A k \in keyRows' : k \in keyRows \/ k.client = x.client,
         derived \subseteq derived', created' \subseteq created \cup {x.client},
         x.client \in created' => /\ x.client \in masters' /\ KeysOf(x.client)' # {}
                                  /\ KeysOf(x.client)' \subseteq derived'
  PROVE /\ ClientsOK'
        /\ \A i : i # x.client => KeysOf(i)' = KeysOf(i) /\ (Gone(i) => Gone(i)')
<1>1. /\ x.client \in DOMAIN clientRows \ created
      /\ x.client_id = {clientRows[x.client].client_id}
      /\ clientRows[x.client].provisioned = (x.op = "provision")
      /\ x.pc # "write"
  BY Zenon DEF JobOK, CreateOK
<1>2. clientRows[x.client].provisioned => clientRows[x.client].client_id \in files
  <2>1. x.op = "provision" => x.client_id \subseteq files
    BY <1>1, Zenon DEF JobOK, ProvisionOK
  <2>. QED BY Zenon, <1>1, <2>1
<1>3. ASSUME NEW i, i # x.client PROVE KeysOf(i)' = KeysOf(i) /\ (Gone(i) => Gone(i)')
  <2>1. KeysOf(i)' = KeysOf(i) BY <1>3, Zenon DEF KeysOf
  <2>. QED BY <1>3, <2>1, Zenon DEF Gone
<1>4. \A i \in DOMAIN clientRows' :
        clientRows'[i].provisioned /\ clientRows'[i].client_id \notin files' => Gone(i)'
  BY <1>2, <1>3, Zenon DEF ClientsOK
<1>5. ASSUME NEW i \in created' \cap present'
      PROVE i \in masters' /\ KeysOf(i)' # {} /\ KeysOf(i)' \subseteq derived'
  <2>1. CASE i = x.client BY Zenon, <2>1
  <2>2. CASE i # x.client
    <3>1. i \in masters /\ KeysOf(i) # {} /\ KeysOf(i) \subseteq derived
      BY <2>2, Zenon DEF ClientsOK
    <3>. QED BY <1>3, <2>2, <3>1, Zenon
  <2>. QED BY Zenon, <2>1, <2>2
<1>6. \A i \in DOMAIN clientRows' :
        clientRows'[i].uri \in moved' \/ apps'[clientRows'[i].uri] = clientRows'[i].app
  BY Zenon DEF ClientsOK
<1>. QED BY <1>3, <1>4, <1>5, <1>6, Zenon DEF ClientsOK

\* The request that writes them goes on, y after x.
LEMMA OwnStep ==
  ASSUME ClientInv, NEW j \in Job, NEW y \in JobRecord, Advance(j, y),
         jobs[j].pc \in KeyLess, y.pc \in KeyLess \cup {"derive"},
         y.op = jobs[j].op, y.client = jobs[j].client, y.client_id = jobs[j].client_id,
         TablesOK', UNCHANGED <<apps, clientRows, present, files, moved, created>>,
         masters' \subseteq masters \cup {y.client}, masters \subseteq masters', y.client \in masters',
         keyRows \subseteq keyRows', \A k \in keyRows' : k \in keyRows \/ k.client = y.client,
         derived' = derived, y.pc # "derive" => KeysOf(y.client)' = {},
         y.pc = "derive" => KeysOf(y.client)' # {}
  PROVE ClientInv'
<1>0. TablesOK /\ ClientsOK BY Zenon DEF ClientInv
<1>1. PICK x : x = jobs[j] BY Zenon
<1>2. JobOK(x) /\ x.pc \in KeyLess BY <1>1, JobOf, Zenon
<1>3. /\ x \in JobRecord /\ x.op \in {"register", "provision"} /\ CreateOK(x)
      /\ x.pc \notin {"idle", "write"} \cup Cleaning
  BY <1>2, Creating, Zenon
<1>4. /\ x.client # 0 /\ x.client \in DOMAIN clientRows \ created
      /\ x.client_id = {clientRows[x.client].client_id}
      /\ clientRows[x.client].provisioned = (x.op = "provision")
  BY <1>2, <1>3, Zenon DEF CreateOK
<1>5. y.op = x.op /\ y.client = x.client /\ y.client_id = x.client_id BY Zenon, <1>1
<1>6. /\ ClientsOK'
      /\ \A i : i # x.client => KeysOf(i)' = KeysOf(i) /\ (Gone(i) => Gone(i)')
  <2>1. x.client \notin created' BY Zenon, <1>4
  <2>. QED BY ZenonT(30), <1>0, <1>2, <1>3, <1>4, <1>5, <2>1, OwnKeys
<1>7. y.pc \notin Finding \cup {"write"} /\ y.pc \notin {"cleanKeys", "cleanClient", "removeFile"}
      /\ y.pc # "insertClient" /\ y.pc # "idle"
  BY Zenon DEF Finding, KeyLess
<1>8. CreateOK(y)'
  <2>1. y.client # 0 /\ y.client \in DOMAIN clientRows' \ created' BY Zenon, <1>4, <1>5
  <2>2. y.client_id = {clientRows'[y.client].client_id} BY Zenon, <1>4, <1>5
  <2>3. clientRows'[y.client].provisioned = (y.op = "provision") BY Zenon, <1>4, <1>5
  <2>4. y.pc \in KeyLess => y.pc # "derive" BY Zenon DEF KeyLess
  <2>. QED BY <1>7, <2>1, <2>2, <2>3, <2>4, Zenon DEF CreateOK
<1>9. y.op = "provision" => ProvisionOK(y)'
  <2>1. y.op = "provision" => ProvisionOK(y) BY Zenon, <1>2, <1>5, StillCreating
  <2>. QED BY Zenon, <1>5, <1>6, <1>7, <2>1, ProvisionKept
<1>10. y.op \in {"register", "provision"} BY Zenon, <1>3, <1>5
<1>11. JobOK(y)' BY Zenon, <1>7, <1>8, <1>9, <1>10 DEF JobOK
<1>12. JobsOK'
  <2>1. jobs[j].op # "none" /\ y.op = jobs[j].op BY Zenon, <1>1, <1>3
  <2>. QED BY SMTT(30), <1>1, <1>5, <1>6, <1>11, <2>1, JobStep
<1>. QED BY <1>6, <1>12, Zenon DEF ClientInv

LEMMA EnsureMasterKeyStep ==
  ASSUME ClientInv, NEW j \in Job, EnsureMasterKey(j)
  PROVE ClientInv'
<1>1. PICK x : x = jobs[j] BY Zenon
<1>2. JobOK(x) /\ x \in JobRecord /\ CreateOK(x) BY <1>1, JobOf, Zenon
<1>3. /\ x.pc = "master" /\ masters' = masters \cup {x.client}
      /\ UNCHANGED <<apps, appCount, clientRows, present, keyRows, derived, files, created, moved>>
  BY <1>1, Zenon DEF EnsureMasterKey, In
<1>4. PICK y : y = [x EXCEPT !.pc = "index"] BY Zenon
<1>5. /\ y \in JobRecord /\ y.pc = "index" /\ y.op = x.op /\ y.client = x.client
      /\ y.client_id = x.client_id
  BY Zenon, <1>2, <1>4 DEF JobRecord, KeyLess
<1>6. x.pc \in KeyLess /\ y.pc \in KeyLess BY Zenon, <1>3, <1>5 DEF KeyLess
<1>7. x.client # 0 /\ x.client \in DOMAIN clientRows /\ KeysOf(x.client) = {}
  BY <1>2, <1>6, Zenon DEF CreateOK
<1>8. TablesOK' BY <1>3, <1>7, Zenon DEF ClientInv, TablesOK
<1>9. KeysOf(x.client)' = {} BY <1>3, <1>7, Zenon DEF KeysOf
<1>10. Advance(j, y) BY <1>1, <1>4, Zenon DEF EnsureMasterKey, Move
<1>. QED BY Zenon, <1>1, <1>3, <1>5, <1>6, <1>8, <1>9, <1>10, OwnStep

LEMMA ReadIndexStep ==
  ASSUME ClientInv, NEW j \in Job, ReadIndex(j)
  PROVE ClientInv'
<1>1. PICK x : x = jobs[j] BY Zenon
<1>2. JobOK(x) /\ x \in JobRecord /\ CreateOK(x) BY <1>1, JobOf, Zenon
<1>3. PICK n \in 0 .. MaxClients : Advance(j, [x EXCEPT !.pc = "insertKey", !.index = n])
  BY <1>1, Zenon DEF ReadIndex
<1>4. x.pc = "index" /\ UNCHANGED store BY <1>1, Zenon DEF ReadIndex, In
<1>5. n \in Nat BY ClientBounds
<1>6. PICK y : y = [x EXCEPT !.pc = "insertKey", !.index = n] BY Zenon
<1>7. /\ y \in JobRecord /\ y.pc = "insertKey" /\ y.op = x.op /\ y.client = x.client
      /\ y.client_id = x.client_id
  BY Zenon, <1>2, <1>5, <1>6 DEF JobRecord, KeyLess
<1>8. x.pc \in KeyLess /\ y.pc \in KeyLess BY Zenon, <1>4, <1>7 DEF KeyLess
<1>9. x.client # 0 /\ x.client \in masters /\ KeysOf(x.client) = {}
  BY Zenon, <1>2, <1>4, <1>8 DEF CreateOK
<1>10. /\ UNCHANGED <<apps, clientRows, present, files, moved, created>>
       /\ masters' = masters /\ keyRows' = keyRows /\ derived' = derived
  BY Zenon, <1>4 DEF store
<1>11. TablesOK' /\ KeysOf(x.client)' = {} BY <1>4, <1>9, StoreKept, Zenon DEF ClientInv
<1>12. Advance(j, y) BY <1>3, <1>6, Zenon
<1>. QED BY Zenon, <1>1, <1>7, <1>8, <1>9, <1>10, <1>11, <1>12, OwnStep

LEMMA InsertKeyStep ==
  ASSUME ClientInv, NEW j \in Job, InsertKey(j)
  PROVE ClientInv'
<1>1. PICK x : x = jobs[j] BY Zenon
<1>2. JobOK(x) /\ x \in JobRecord /\ CreateOK(x) BY <1>1, JobOf, Zenon
<1>3. /\ x.pc = "insertKey"
      /\ UNCHANGED <<apps, appCount, clientRows, present, masters, derived, files, created, moved>>
  BY <1>1, Zenon DEF InsertKey, In
<1>4. x.pc \in KeyLess BY Zenon, <1>3 DEF KeyLess
<1>5. PICK row : row = [client |-> x.client, index |-> x.index] BY Zenon
<1>6. CASE Failed(j) /\ UNCHANGED keyRows
  <2>1. UNCHANGED store BY Zenon, <1>3, <1>6 DEF store
  <2>. QED BY Zenon, <1>1, <1>4, <1>6, <2>1, FailedStep
<1>7. CASE /\ \A k \in keyRows : k.index # row.index
           /\ keyRows' = keyRows \cup {row} /\ Move(j, "derive")
  <2>1. PICK y : y = [x EXCEPT !.pc = "derive"] BY Zenon
  <2>2. /\ y \in JobRecord /\ y.pc = "derive" /\ y.op = x.op /\ y.client = x.client
        /\ y.client_id = x.client_id
    BY Zenon, <1>2, <2>1 DEF JobRecord
  <2>3. x.client # 0 /\ x.client \in masters /\ x.client \in DOMAIN clientRows
    BY Zenon, <1>2, <1>3, <1>4 DEF CreateOK
  <2>4. row \in KeyRow /\ row.client = x.client BY Zenon, <1>2, <1>5 DEF KeyRow, JobRecord
  <2>5. TablesOK'
    <3>1. TablesOK BY Zenon DEF ClientInv
    <3>2. keyRows' \subseteq KeyRow /\ derived' \subseteq keyRows'
      BY <1>3, <1>7, <2>4, <3>1, Zenon DEF TablesOK
    <3>3. \A k, l \in keyRows' : k.index = l.index => k = l
      BY <1>7, <3>1, Zenon DEF TablesOK
    <3>4. \A k \in keyRows' : k.client \in DOMAIN clientRows'
      BY <1>3, <1>7, <2>3, <2>4, <3>1, Zenon DEF TablesOK
    <3>. QED BY <1>3, <3>1, <3>2, <3>3, <3>4, Zenon DEF TablesOK
  <2>6. KeysOf(x.client)' # {} BY <1>7, <2>4, Zenon DEF KeysOf
  <2>7. \A k \in keyRows' : k \in keyRows \/ k.client = x.client BY <1>7, <2>4, Zenon
  <2>8. Advance(j, y) BY <1>1, <1>7, <2>1, Zenon DEF Move
  <2>. QED BY Zenon, <1>1, <1>3, <1>4, <1>7, <2>2, <2>3, <2>5, <2>6, <2>7, <2>8, OwnStep
<1>. QED BY <1>1, <1>5, <1>6, <1>7, Zenon DEF InsertKey

LEMMA EnsureDerivationPathStep ==
  ASSUME ClientInv, NEW j \in Job, EnsureDerivationPath(j)
  PROVE ClientInv'
<1>0. TablesOK /\ ClientsOK BY Zenon DEF ClientInv
<1>1. PICK x : x = jobs[j] BY Zenon
<1>2. JobOK(x) BY <1>1, JobOf, Zenon
<1>3. /\ x.pc = "derive" /\ Close(j)
      /\ derived' = derived \cup KeysOf(x.client) /\ created' = created \cup {x.client}
      /\ UNCHANGED <<apps, appCount, clientRows, present, keyRows, masters, files, moved>>
  BY <1>1, Zenon DEF EnsureDerivationPath, In
<1>4. x \in JobRecord /\ x.op \in {"register", "provision"} /\ CreateOK(x)
  BY Zenon, <1>2, <1>3, Creating
<1>5. /\ x.client # 0 /\ x.client \in DOMAIN clientRows /\ x.client \in masters
      /\ KeysOf(x.client) # {}
  BY Zenon, <1>3, <1>4 DEF CreateOK
<1>6. KeysOf(x.client)' = KeysOf(x.client) /\ KeysOf(x.client) \subseteq keyRows
  BY <1>3, Zenon DEF KeysOf
<1>7. TablesOK' BY <1>0, <1>3, <1>5, <1>6, Zenon DEF TablesOK
<1>8. ClientsOK' BY Zenon, <1>0, <1>2, <1>3, <1>4, <1>5, <1>6, OwnKeys
<1>9. \A i : KeysOf(i)' = KeysOf(i) BY <1>3, Zenon DEF KeysOf
<1>10. JobOK(NoJob)' BY NoJobOK, PTL
<1>11. NoJob.op = "none" /\ NoJob.client = 0 BY Zenon DEF NoJob
<1>12. Advance(j, NoJob) BY <1>3, Zenon DEF Close, Advance
<1>13. JobsOK' BY Zenon, <1>1, <1>3, <1>4, <1>9, <1>10, <1>11, <1>12, JobStep
<1>. QED BY <1>7, <1>8, <1>13, Zenon DEF ClientInv

LEMMA FailStep ==
  ASSUME ClientInv, NEW j \in Job, FailRequest(j)
  PROVE ClientInv'
<1>1. jobs[j].pc \in Finding \cup KeyLess \cup {"derive"}
  BY Zenon DEF FailRequest, Finding, KeyLess
<1>. QED BY <1>1, FailedStep, Zenon DEF FailRequest


\* A cleanup is of a provisioning.
LEMMA Cleanup ==
  ASSUME NEW x, JobOK(x), x.pc \in Cleaning
  PROVE /\ x \in JobRecord /\ x.op = "provision" /\ ProvisionOK(x) /\ CreateOK(x)
        /\ x.client_id \subseteq files
<1>1. x.pc \notin {"idle", "write"} \cup Finding \cup KeyLess \cup {"derive"}
  BY Zenon DEF Finding, KeyLess, Cleaning
<1>2. x.op = "provision" BY Zenon, <1>1, Running DEF JobOK
<1>. QED BY Zenon, <1>1, <1>2 DEF JobOK, ProvisionOK

\* A cleanup removes what belongs to its own client.
LEMMA OwnCleanup ==
  ASSUME TablesOK, ClientsOK, NEW mine, mine \notin created,
         UNCHANGED <<apps, appCount, clientRows, files, moved, created>>,
         present' \subseteq present,
         masters' \subseteq masters, masters \ {mine} \subseteq masters',
         keyRows' \subseteq keyRows, \A k \in keyRows : k \in keyRows' \/ k.client = mine,
         derived' \subseteq derived, \A k \in derived : k \in derived' \/ k.client = mine,
         derived' \subseteq keyRows'
  PROVE /\ TablesOK' /\ ClientsOK'
        /\ \A i : i # mine => KeysOf(i)' = KeysOf(i)
        /\ \A i : Gone(i) => Gone(i)'
<1>1. TablesOK' BY Zenon DEF TablesOK
<1>2. \A i : i # mine => KeysOf(i)' = KeysOf(i) BY Zenon DEF KeysOf
<1>3. \A i : KeysOf(i)' \subseteq KeysOf(i) BY Zenon DEF KeysOf
<1>4. \A i : Gone(i) => Gone(i)' BY <1>3, Zenon DEF Gone
<1>5. ASSUME NEW i \in created' \cap present'
      PROVE i \in masters' /\ KeysOf(i)' # {} /\ KeysOf(i)' \subseteq derived'
  <2>1. i # mine /\ i \in masters /\ KeysOf(i) # {} /\ KeysOf(i) \subseteq derived
    BY Zenon DEF ClientsOK
  <2>2. KeysOf(i) \subseteq derived' BY <2>1, Zenon DEF KeysOf
  <2>. QED BY <1>2, <2>1, <2>2, Zenon
<1>6. ClientsOK' BY <1>4, <1>5, Zenon DEF ClientsOK
<1>. QED BY Zenon, <1>1, <1>2, <1>4, <1>6

\* It goes on, y after what was there before.
LEMMA CleanupStep ==
  ASSUME ClientInv, NEW j \in Job, NEW y \in JobRecord,
         Advance(j, y) \/ (jobs' = jobs /\ y = jobs[j]),
         jobs[j].pc \in Cleaning, y.pc \in {"cleanKeys", "cleanClient", "removeFile"},
         y.op = jobs[j].op, y.client = jobs[j].client, y.client_id = jobs[j].client_id,
         UNCHANGED <<apps, appCount, clientRows, files, moved, created>>,
         present' \subseteq present,
         masters' \subseteq masters, masters \ {y.client} \subseteq masters',
         keyRows' \subseteq keyRows, \A k \in keyRows : k \in keyRows' \/ k.client = y.client,
         derived' \subseteq derived, \A k \in derived : k \in derived' \/ k.client = y.client,
         derived' \subseteq keyRows',
         y.pc # "removeFile" => y.client # 0 /\ y.client \in present',
         y.pc # "cleanKeys" => y.client \notin masters' /\ KeysOf(y.client)' = {},
         y.pc = "removeFile" => y.client \notin present'
  PROVE ClientInv'
<1>0. TablesOK /\ ClientsOK BY Zenon DEF ClientInv
<1>1. PICK x : x = jobs[j] BY Zenon
<1>2. JobOK(x) /\ x.pc \in Cleaning BY <1>1, JobOf, Zenon
<1>3. /\ x \in JobRecord /\ x.op = "provision" /\ ProvisionOK(x) /\ CreateOK(x)
      /\ x.client_id \subseteq files
  BY <1>2, Cleanup, Zenon
<1>4. y.op = x.op /\ y.client = x.client /\ y.client_id = x.client_id BY Zenon, <1>1
<1>5. x.client # 0 => /\ x.client \in DOMAIN clientRows \ created
                      /\ x.client_id = {clientRows[x.client].client_id}
                      /\ clientRows[x.client].provisioned = (x.op = "provision")
  BY <1>3, Zenon DEF CreateOK
<1>6. x.client \notin created
  <2>1. 0 \notin created
    <3>1. clientRows \in Seq(ClientRow) /\ created \subseteq DOMAIN clientRows
      BY <1>0, Zenon DEF TablesOK
    <3>. QED BY SMTT(30), <3>1
  <2>. QED BY <1>5, <2>1, Zenon
<1>7. /\ TablesOK' /\ ClientsOK'
      /\ \A i : i # x.client => KeysOf(i)' = KeysOf(i)
      /\ \A i : Gone(i) => Gone(i)'
  BY Zenon, <1>0, <1>4, <1>6, OwnCleanup
<1>8. CreateOK(y)'
  <2>1. y.pc \notin Finding \cup {"write", "insertClient", "index", "insertKey", "derive"} \cup KeyLess
    BY Zenon DEF Finding, KeyLess
  <2>2. y.client # 0 => /\ y.client \in DOMAIN clientRows' \ created'
                        /\ y.client_id = {clientRows'[y.client].client_id}
                        /\ clientRows'[y.client].provisioned = (y.op = "provision")
    BY Zenon, <1>4, <1>5
  <2>. QED BY <2>1, <2>2, Zenon DEF CreateOK
<1>9. ProvisionOK(y)'
  <2>1. \A i \in DOMAIN clientRows' \ {y.client} :
          clientRows'[i].provisioned /\ clientRows'[i].client_id \in y.client_id => Gone(i)'
    BY <1>3, <1>4, <1>7, Zenon DEF ProvisionOK
  <2>2. y.client = 0 => \A i \in present' : clientRows'[i].client_id \notin y.client_id
    BY <1>3, <1>4, Zenon DEF ProvisionOK
  <2>3. y.client_id \subseteq files' BY Zenon, <1>3, <1>4
  <2>. QED BY Zenon, <2>1, <2>2, <2>3 DEF ProvisionOK
<1>10. JobOK(y)' BY Zenon, <1>3, <1>4, <1>8, <1>9 DEF JobOK
<1>11. JobsOK' BY Zenon, <1>1, <1>3, <1>4, <1>7, <1>10, JobStep
<1>. QED BY <1>7, <1>11, Zenon DEF ClientInv

LEMMA VerifyCleanupStep ==
  ASSUME ClientInv, NEW j \in Job, VerifyCleanup(j)
  PROVE ClientInv'
<1>0. TablesOK BY Zenon DEF ClientInv
<1>1. PICK x : x = jobs[j] BY Zenon
<1>2. JobOK(x) BY <1>1, JobOf, Zenon
<1>3. x.pc = "verify" /\ UNCHANGED store BY <1>1, Zenon DEF VerifyCleanup, In
<1>4. /\ x \in JobRecord /\ x.op = "provision" /\ ProvisionOK(x) /\ CreateOK(x)
      /\ x.pc \in Cleaning
  BY Zenon, <1>2, <1>3, Cleanup DEF Cleaning
<1>5. PICK cid \in x.client_id :
        Advance(j, [x EXCEPT !.pc = IF WithClientId(cid) = {} THEN "removeFile" ELSE "cleanKeys"])
  BY <1>1, Zenon DEF VerifyCleanup, Move
<1>6. PICK pc : pc = IF WithClientId(cid) = {} THEN "removeFile" ELSE "cleanKeys" BY Zenon
<1>7. PICK y : y = [x EXCEPT !.pc = pc] BY Zenon
<1>8. pc \in {"removeFile", "cleanKeys"} /\ Advance(j, y) BY Zenon, <1>5, <1>6, <1>7
<1>9. /\ y \in JobRecord /\ y.pc = pc /\ y.op = x.op /\ y.client = x.client
      /\ y.client_id = x.client_id
  BY Zenon, <1>4, <1>7, <1>8 DEF JobRecord, Cleaning
<1>10. (x.client # 0) = (x.client \in present) BY Zenon, <1>3, <1>4 DEF ProvisionOK
<1>11. ASSUME x.client # 0 PROVE WithClientId(cid) # {}
  <2>1. x.client_id = {clientRows[x.client].client_id} BY <1>4, <1>11, Zenon DEF CreateOK
  <2>2. x.client \in present /\ clientRows[x.client].client_id = cid
    BY Zenon, <1>10, <1>11, <2>1
  <2>. QED BY <2>2, Zenon DEF WithClientId
<1>12. x.client = 0 => WithClientId(cid) = {} BY <1>4, Zenon DEF ProvisionOK, WithClientId
<1>13. 0 \notin masters /\ KeysOf(0) = {}
  <2>1. 0 \notin DOMAIN clientRows BY SMTT(30), <1>0 DEF TablesOK
  <2>. QED BY <1>0, <2>1, Zenon DEF TablesOK, KeysOf
<1>14. /\ pc = "removeFile" => x.client = 0 /\ x.client \notin present
       /\ pc # "removeFile" => x.client # 0 /\ x.client \in present
  BY Zenon, <1>6, <1>10, <1>11, <1>12
<1>15. /\ UNCHANGED <<apps, appCount, clientRows, files, moved, created>>
       /\ present' = present /\ masters' = masters /\ keyRows' = keyRows /\ derived' = derived
  BY Zenon, <1>3 DEF store
<1>16. pc # "cleanKeys" => y.client \notin masters' /\ KeysOf(y.client)' = {}
  BY Zenon, <1>8, <1>9, <1>13, <1>14, <1>15 DEF KeysOf
<1>17. derived \subseteq keyRows BY <1>0, Zenon DEF TablesOK
<1>18. y.pc \in {"cleanKeys", "cleanClient", "removeFile"} BY Zenon, <1>8, <1>9
<1>. QED BY Zenon, <1>1, <1>4, <1>8, <1>9, <1>14, <1>15, <1>16, <1>17, <1>18, CleanupStep

LEMMA DeleteKeyMaterialStep ==
  ASSUME ClientInv, NEW j \in Job, DeleteKeyMaterial(j)
  PROVE ClientInv'
<1>1. PICK x : x = jobs[j] BY Zenon
<1>2. JobOK(x) BY <1>1, JobOf, Zenon
<1>3. /\ x.pc = "cleanKeys"
      /\ UNCHANGED <<apps, appCount, clientRows, present, files, created, moved>>
  BY <1>1, Zenon DEF DeleteKeyMaterial, In
<1>4. x \in JobRecord /\ ProvisionOK(x) /\ x.pc \in Cleaning
  BY Zenon, <1>2, <1>3, Cleanup DEF Cleaning
<1>5. x.client # 0 /\ x.client \in present BY Zenon, <1>3, <1>4 DEF ProvisionOK
<1>6. derived \subseteq keyRows BY Zenon DEF ClientInv, TablesOK
<1>7. \A k \in KeysOf(x.client) : k.client = x.client BY Zenon DEF KeysOf
<1>8. CASE \E k \in derived \cap KeysOf(x.client) :
             derived' = derived \ {k} /\ UNCHANGED <<masters, keyRows, jobs>>
  <2>1. PICK k \in derived \cap KeysOf(x.client) :
             derived' = derived \ {k} /\ UNCHANGED <<masters, keyRows, jobs>>
    BY Zenon, <1>8
  <2>2. k.client = x.client BY <1>7, Zenon
  <2>3. derived' \subseteq derived /\ (\A l \in derived : l \in derived' \/ l.client = x.client)
    BY <2>1, <2>2, Zenon
  <2>. QED BY Zenon, <1>1, <1>3, <1>4, <1>5, <1>6, <2>1, <2>3, CleanupStep
<1>9. CASE masters' = masters \ {x.client} /\ UNCHANGED <<derived, keyRows, jobs>>
  BY Zenon, <1>1, <1>3, <1>4, <1>5, <1>6, <1>9, CleanupStep
<1>10. CASE /\ derived \cap KeysOf(x.client) = {} /\ x.client \notin masters
            /\ keyRows' = keyRows \ KeysOf(x.client) /\ Move(j, "cleanClient")
            /\ UNCHANGED <<derived, masters>>
  <2>1. PICK y : y = [x EXCEPT !.pc = "cleanClient"] BY Zenon
  <2>2. /\ y \in JobRecord /\ y.pc = "cleanClient" /\ y.op = x.op /\ y.client = x.client
        /\ y.client_id = x.client_id
    BY Zenon, <1>4, <2>1 DEF JobRecord, Cleaning
  <2>3. Advance(j, y) BY <1>1, <1>10, <2>1, Zenon DEF Move
  <2>4. KeysOf(x.client)' = {} BY <1>10, Zenon DEF KeysOf
  <2>5. /\ \A k \in keyRows : k \in keyRows' \/ k.client = x.client
        /\ derived' \subseteq keyRows'
    BY <1>6, <1>7, <1>10, Zenon
  <2>. QED BY Zenon, <1>1, <1>3, <1>4, <1>5, <1>10, <2>2, <2>3, <2>4, <2>5, CleanupStep
<1>. QED BY Zenon, <1>1, <1>8, <1>9, <1>10 DEF DeleteKeyMaterial

LEMMA DeleteProvisionedStep ==
  ASSUME ClientInv, NEW j \in Job, DeleteProvisioned(j)
  PROVE ClientInv'
<1>1. PICK x : x = jobs[j] BY Zenon
<1>2. JobOK(x) BY <1>1, JobOf, Zenon
<1>3. /\ x.pc = "cleanClient" /\ present' = present \ {x.client} /\ Move(j, "removeFile")
      /\ UNCHANGED <<apps, appCount, clientRows, keyRows, masters, derived, files, created, moved>>
  BY <1>1, Zenon DEF DeleteProvisioned, In
<1>4. x \in JobRecord /\ ProvisionOK(x) /\ x.pc \in Cleaning
  BY Zenon, <1>2, <1>3, Cleanup DEF Cleaning
<1>5. x.client \notin masters /\ KeysOf(x.client) = {} BY Zenon, <1>3, <1>4 DEF ProvisionOK
<1>6. derived \subseteq keyRows BY Zenon DEF ClientInv, TablesOK
<1>7. PICK y : y = [x EXCEPT !.pc = "removeFile"] BY Zenon
<1>8. /\ y \in JobRecord /\ y.pc = "removeFile" /\ y.op = x.op /\ y.client = x.client
      /\ y.client_id = x.client_id
  BY Zenon, <1>4, <1>7 DEF JobRecord, Cleaning
<1>9. Advance(j, y) BY <1>1, <1>3, <1>7, Zenon DEF Move
<1>10. KeysOf(x.client)' = {} BY <1>3, <1>5, Zenon DEF KeysOf
<1>. QED BY Zenon, <1>1, <1>3, <1>4, <1>5, <1>6, <1>8, <1>9, <1>10, CleanupStep

\* The file goes last: nothing else of the client is left.
LEMMA RemoveFileStep ==
  ASSUME ClientInv, NEW j \in Job, RemoveFile(j)
  PROVE ClientInv'
<1>0. TablesOK /\ ClientsOK BY Zenon DEF ClientInv
<1>1. PICK x : x = jobs[j] BY Zenon
<1>2. JobOK(x) BY <1>1, JobOf, Zenon
<1>3. /\ x.pc = "removeFile" /\ files' = files \ x.client_id /\ Close(j)
      /\ UNCHANGED <<apps, appCount, clientRows, present, keyRows, masters, derived, created, moved>>
  BY <1>1, Zenon DEF RemoveFile, In
<1>4. x.op = "provision" /\ ProvisionOK(x) BY Zenon, <1>2, <1>3, Cleanup DEF Cleaning
<1>5. Gone(x.client) BY Zenon, <1>3, <1>4 DEF ProvisionOK, Gone
<1>6. \A i : KeysOf(i)' = KeysOf(i) /\ Gone(i)' = Gone(i) BY Zenon, <1>3 DEF KeysOf, Gone
<1>7. TablesOK' BY <1>0, <1>3, Zenon DEF TablesOK
<1>8. ClientsOK'
  <2>1. ASSUME NEW i \in DOMAIN clientRows, clientRows[i].provisioned,
               clientRows[i].client_id \notin files'
        PROVE Gone(i)
    <3>1. CASE clientRows[i].client_id \in x.client_id
      BY <1>4, <1>5, <2>1, <3>1, Zenon DEF ProvisionOK
    <3>2. CASE clientRows[i].client_id \notin x.client_id
      BY <1>0, <1>3, <2>1, <3>2, Zenon DEF ClientsOK
    <3>. QED BY Zenon, <3>1, <3>2
  <2>. QED BY <1>0, <1>3, <1>6, <2>1, Zenon DEF ClientsOK
<1>9. JobOK(NoJob)' BY NoJobOK, PTL
<1>10. NoJob.op = "none" /\ NoJob.client = 0 BY Zenon DEF NoJob
<1>11. Advance(j, NoJob) BY <1>3, Zenon DEF Close, Advance
<1>12. JobsOK' BY Zenon, <1>1, <1>3, <1>4, <1>6, <1>9, <1>10, <1>11, JobStep
<1>. QED BY <1>7, <1>8, <1>12, Zenon DEF ClientInv

LEMMA CleanupFailsStep ==
  ASSUME ClientInv, NEW j \in Job, CleanupFails(j)
  PROVE ClientInv'
<1>1. jobs[j].pc \in Cleaning BY Zenon DEF CleanupFails, Cleaning
<1>2. JobOK(jobs[j]) BY JobOf, Zenon
<1>3. jobs[j].op = "provision" BY <1>1, <1>2, Cleanup, Zenon
<1>. QED BY Zenon, <1>3, CloseStep DEF CleanupFails

LEMMA DeleteClientStep ==
  ASSUME ClientInv, NEW cid, DeleteClient(cid)
  PROVE ClientInv'
<1>0. TablesOK /\ ClientsOK /\ JobsOK BY Zenon DEF ClientInv
<1>1. /\ ~Provisioning /\ present' \subseteq present
      /\ UNCHANGED <<apps, appCount, clientRows, keyRows, masters, derived, files, jobs, created, moved>>
  BY Zenon DEF DeleteClient
<1>2. TablesOK' BY <1>0, <1>1, Zenon DEF TablesOK
<1>3. \A i : KeysOf(i)' = KeysOf(i) /\ (Gone(i) => Gone(i)') BY Zenon, <1>1 DEF KeysOf, Gone
<1>4. ClientsOK'
  <2>1. \A i \in DOMAIN clientRows' :
          clientRows'[i].provisioned /\ clientRows'[i].client_id \notin files' => Gone(i)'
    BY <1>0, <1>1, <1>3, Zenon DEF ClientsOK
  <2>2. \A i \in created' \cap present' :
          i \in masters' /\ KeysOf(i)' # {} /\ KeysOf(i)' \subseteq derived'
    BY <1>0, <1>1, <1>3, Zenon DEF ClientsOK
  <2>. QED BY <1>0, <1>1, <2>1, <2>2, Zenon DEF ClientsOK
<1>5. ASSUME NEW d \in Job PROVE JobOK(jobs[d])'
  <2>1. PICK x : x = jobs[d] BY Zenon
  <2>2. JobOK(x) /\ x \in JobRecord /\ CreateOK(x) BY <2>1, JobOf, Zenon
  <2>3. x.op # "provision" BY <1>1, <2>1, Zenon DEF Provisioning
  <2>4. CreateOK(x)' BY <1>1, <1>3, <2>2, Zenon DEF CreateOK
  <2>. QED BY <1>1, <2>1, <2>2, <2>3, <2>4, JobKept, Zenon
<1>6. JobsOK' BY <1>0, <1>1, <1>5, Zenon DEF JobsOK
<1>. QED BY <1>2, <1>4, <1>6, Zenon DEF ClientInv

LEMMA ClientStep == ClientInv /\ [ClientNext]_clientVars => ClientInv'
<1>. SUFFICES ASSUME ClientInv, [ClientNext]_clientVars PROVE ClientInv' BY Zenon
<1>1. CASE \/ \E u \in Named : CreateApplication(u)
           \/ \E u \in Uri : DeleteApplication(u)
           \/ \E u, v \in Uri : UpdateApplication(u, v)
  BY <1>1, ApplicationsStep, Zenon
<1>2. ASSUME NEW j \in Job,
             \/ \E cid \in ClientId, u \in Named : Provision(j, cid, u) \/ RegisterClient(j, cid, u)
             \/ WriteCredentials(j) \/ FindApplication(j) \/ InsertApplication(j) \/ InsertClient(j)
      PROVE ClientInv'
  BY <1>2, ProvisionStep, RegisterStep, WriteCredentialsStep, FindApplicationStep,
     InsertApplicationStep, InsertClientStep, Zenon
<1>3. ASSUME NEW j \in Job,
             \/ EnsureMasterKey(j) \/ ReadIndex(j) \/ InsertKey(j) \/ EnsureDerivationPath(j)
             \/ FailRequest(j)
      PROVE ClientInv'
  BY Zenon, <1>3, EnsureMasterKeyStep, ReadIndexStep, InsertKeyStep, EnsureDerivationPathStep,
     FailStep,
     Zenon
<1>4. ASSUME NEW j \in Job,
             \/ VerifyCleanup(j) \/ DeleteKeyMaterial(j) \/ DeleteProvisioned(j)
             \/ RemoveFile(j) \/ CleanupFails(j)
      PROVE ClientInv'
  BY <1>4, VerifyCleanupStep, DeleteKeyMaterialStep, DeleteProvisionedStep, RemoveFileStep,
     CleanupFailsStep, Zenon
<1>5. CASE \E cid \in ClientId : DeleteClient(cid) BY <1>5, DeleteClientStep, Zenon
<1>6. CASE Die BY <1>6, DieStep, Zenon
<1>7. CASE UNCHANGED clientVars
  <2>1. UNCHANGED store /\ jobs' = jobs BY Zenon, <1>7 DEF clientVars, store
  <2>2. TablesOK' /\ ClientsOK' /\ \A x : JobOK(x) => JobOK(x)'
    BY <2>1, StoreKept, Zenon DEF ClientInv
  <2>3. \A j \in Job : JobOK(jobs[j])' BY <2>1, <2>2, Zenon DEF ClientInv, JobsOK
  <2>4. JobsOK' BY <2>1, <2>3, Zenon DEF ClientInv, JobsOK
  <2>. QED BY <2>2, <2>4, Zenon DEF ClientInv
<1>. QED BY <1>1, <1>2, <1>3, <1>4, <1>5, <1>6, <1>7, Zenon DEF ClientNext

\* The invariant of service clients, their keys in four tables and the creations and
\* provisionings under way.
THEOREM ClientInvariant == ClientSpec => []ClientInv
BY ClientInitInv, ClientStep, PTL DEF ClientSpec

\* Type correctness of ServiceClients.
THEOREM ClientTypeCorrect == ClientSpec => []ClientTypeOK
<1>1. ClientInv => ClientTypeOK BY Zenon DEF ClientInv, TablesOK, ClientTypeOK
<1>. QED BY <1>1, ClientInvariant, PTL

\* The parts of a client agree, whichever write fails and whenever the process dies: its
\* credentials on disk, its row, its key row and its keyring entries, and the application
\* of its URI (provision_service_client, register_client, KeyService).
THEOREM ClientParts == ClientSpec => []PartsAgree
<1>1. ASSUME TablesOK, ClientsOK PROVE PartsAgree
  <2>1. \A i \in DOMAIN clientRows :
          clientRows[i].provisioned /\ clientRows[i].client_id \notin files =>
            /\ i \notin present \cup masters /\ KeysOf(i) = {}
            /\ \A k \in derived : k.client # i
    BY <1>1, Zenon DEF TablesOK, ClientsOK, Gone, KeysOf
  <2>2. \A i \in present : clientRows[i].provisioned => clientRows[i].client_id \in files
    BY <1>1, <2>1, Zenon DEF TablesOK
  <2>3. \A i, k \in DOMAIN clientRows :
          clientRows[i].uri = clientRows[k].uri /\ clientRows[i].uri \notin moved =>
            clientRows[i].app = clientRows[k].app
    BY <1>1, Zenon DEF ClientsOK
  <2>. QED BY <1>1, <2>1, <2>2, <2>3, Zenon DEF PartsAgree, ClientsOK
<1>2. ClientInv => PartsAgree BY <1>1, Zenon DEF ClientInv
<1>. QED BY <1>2, ClientInvariant, PTL
===============================================================================
