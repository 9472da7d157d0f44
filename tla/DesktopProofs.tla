---------------------------- MODULE DesktopProofs ----------------------------
(*****************************************************************************)
(* The desktop application, for every value of the constants: its first setup *)
(* (InstallationSetup) and its localhost server (DesktopServer).             *)
(*                                                                           *)
(* Setup: whatever a request has behind it stays established, because rows and *)
(* private keys only grow while a request is in flight and neither the port  *)
(* nor the device key changes before the process has ended every request.    *)
(*                                                                           *)
(* Server: the invariant says what a start may find on disk (DiskOK), what has *)
(* been made sure of at each place (EnsuredOK) and when the marker and the   *)
(* served certificate are the authority's (MarkerOK, ServedOK).              *)
(*****************************************************************************)
EXTENDS InstallationSetup, DesktopServer, TLAPS

-----------------------------------------------------------------------------
(* Setup                                                                   *)

Past == (Working \ {"guard"}) \cup {"created"}
Keying == {"master", "index", "store", "derive"}

\* What holds of one request: it runs in a live process with a device key; all
\* device rows are this device's and approved once it is past the guard; what
\* it has behind it is established; and its half-made key is on record.
CallOK(c) ==
  /\ c.at # "idle" =>
       /\ c.user \in User
       /\ identity \in Identity
       /\ app \in {"setup", "closing"}
       /\ ~erased
  /\ c.at = "guard" => c.pc = 1
  /\ c.at \in Past =>
       /\ \A d \in devices : d.approved /\ d.key = identity
       /\ \A i \in 1..Steps : i < c.pc \/ c.at = "created" =>
            Established(ensure_system_baseline(c.user)[i])
  /\ c.at \in Keying =>
       LET s == ensure_system_baseline(c.user)[c.pc] IN
       s.kind = "client" => clients[s.of] = origin
  /\ c.at = "derive" =>
       [of |-> ensure_system_baseline(c.user)[c.pc].of, index |-> c.index] \in keys
  /\ c.at = "refused" => devices # {}

\* The device row is written after what comes before it in the baseline.
DevicesBacked == \A d \in devices : RecordedToDevice(d.owner)

IInv ==
  /\ TypeOK
  /\ \A t \in Task : CallOK(calls[t])
  /\ OneBootstrapDevice
  /\ DevicesBacked
  /\ erased /\ SameDirectory => devices = {}
  /\ app \in {"setup", "router", "closing"} => identity \in Identity

\* Nothing is taken away from a request in flight.
Growth ==
  /\ rows \subseteq rows'
  /\ \A c \in Builtin :
       /\ clients[c] = origin => clients'[c] = origin
       /\ clients[c] # None => clients'[c] # None
  /\ keys \subseteq keys'
  /\ ring \subseteq ring'
  /\ devices \subseteq devices'
  /\ origin' = origin
  /\ identity' = identity
  /\ app' = app \/ app' = "closing"
  /\ erased' => erased

LEMMA PlanType ==
  ASSUME NEW u \in User, NEW i \in 1..Steps
  PROVE  /\ ensure_system_baseline(u)[i] \in Step
         /\ ensure_system_baseline(u)[i].kind = "client" =>
              ensure_system_baseline(u)[i].of \in Builtin
         /\ ensure_system_baseline(u)[i].kind = "device" => i = 8
         /\ ensure_system_baseline(u)[7] = Ensure("user", u)
  BY DEF ensure_system_baseline, Steps, Step, Ensure, Builtin, RowKind

LEMMA EstablishedStays ==
  ASSUME TypeOK, Growth, NEW s \in Step, Established(s),
         s.kind = "client" => s.of \in Builtin
  PROVE  Established(s)'
  BY Zenon DEF TypeOK, Growth, Established, KeysOf, PrivateKey, Step

LEMMA RecordedStays ==
  ASSUME Growth, NEW u \in User, RecordedToDevice(u)
  PROVE  RecordedToDevice(u)'
<1> SUFFICES ASSUME NEW i \in 1..BeforeDevice
             PROVE  Written(ensure_system_baseline(u)[i])'
  BY Zenon DEF RecordedToDevice
<1>1. i \in 1..Steps
  BY DEF BeforeDevice, Steps
<1>2. PICK s : s = ensure_system_baseline(u)[i]
  BY Zenon
<1>3. Written(s) /\ (s.kind = "client" => s.of \in Builtin)
  BY Zenon, <1>1, <1>2, PlanType DEF RecordedToDevice
<1>4. Written(s)'
  BY Zenon, <1>3 DEF Written, Growth, KeysOf
<1> QED BY Zenon, <1>2, <1>4

\* A request that another one's step does not move keeps its invariant.
LEMMA CallStays ==
  ASSUME TypeOK, Growth, NEW c \in Call, CallOK(c),
         \A d \in devices' : d \in devices \/ (d.approved /\ d.key = identity)
  PROVE  CallOK(c)'
<1>1. CASE c.at = "idle"
  BY Zenon, <1>1 DEF CallOK, Past, Keying, Working
<1>2. CASE c.at # "idle"
  <2> c.user \in User /\ c.pc \in 1..Steps
    BY Zenon, <1>2 DEF CallOK, Call
  <2>1. ASSUME NEW i \in 1..Steps, Established(ensure_system_baseline(c.user)[i])
        PROVE  Established(ensure_system_baseline(c.user)[i])'
    <3> DEFINE s == ensure_system_baseline(c.user)[i]
    <3>1. s \in Step /\ (s.kind = "client" => s.of \in Builtin)
      BY Zenon, PlanType
    <3> HIDE DEF s
    <3>2. Established(s)
      BY Zenon, <2>1 DEF s
    <3>3. Established(s)'
      BY Zenon, <3>1, <3>2, EstablishedStays
    <3> QED BY Zenon, <3>3 DEF s
  <2>2. /\ c.user \in User
        /\ identity' \in Identity
        /\ app' \in {"setup", "closing"}
        /\ ~erased'
    BY Zenon, <1>2 DEF CallOK, Growth
  <2>3. c.at \in Past =>
          /\ \A d \in devices' : d.approved /\ d.key = identity'
          /\ \A i \in 1..Steps : i < c.pc \/ c.at = "created" =>
               Established(ensure_system_baseline(c.user)[i])'
    BY Zenon, <2>1 DEF CallOK, Growth
  <2>4. c.at \in Keying =>
          LET s == ensure_system_baseline(c.user)[c.pc] IN
          s.kind = "client" => clients'[s.of] = origin'
    BY Zenon, PlanType DEF CallOK, Growth
  <2>5. c.at = "derive" =>
          [of |-> ensure_system_baseline(c.user)[c.pc].of, index |-> c.index] \in keys'
    BY Zenon DEF CallOK, Growth
  <2>6. c.at = "refused" => devices' # {}
    BY Zenon DEF CallOK, Growth
  <2> QED BY Zenon, <2>2, <2>3, <2>4, <2>5, <2>6 DEF CallOK
<1> QED BY Zenon, <1>1, <1>2

\* One request moves, the others stay.
LEMMA OneMoves ==
  ASSUME IInv, Growth, TypeOK', NEW t \in Task, NEW c \in Call,
         calls[t].at # "idle" \/ (app = "setup" /\ ~erased'),
         calls' = [calls EXCEPT ![t] = c], CallOK(c)', OneBootstrapDevice', DevicesBacked',
         \A d \in devices' : d \in devices \/ (d.approved /\ d.key = identity)
  PROVE  IInv'
<1>1. ASSUME NEW s \in Task PROVE CallOK(calls[s])'
  <2>1. CASE s = t
    BY Zenon, <2>1 DEF IInv, TypeOK
  <2>2. CASE s # t
    <3>1. PICK b \in Call : b = calls[s]
      BY Zenon DEF IInv, TypeOK
    <3>2. CallOK(b)
      BY Zenon, <3>1 DEF IInv
    <3>3. CallOK(b)'
      BY Zenon, <3>2, CallStays DEF IInv
    <3>4. calls'[s] = b
      BY Zenon, <2>2, <3>1 DEF IInv, TypeOK
    <3> QED BY Zenon, <3>3, <3>4 DEF CallOK
  <2> QED BY Zenon, <2>1, <2>2
<1>2. ~erased' /\ identity' \in Identity
  BY ZenonT(60) DEF IInv, CallOK, Growth
<1> QED BY Zenon, <1>1, <1>2 DEF IInv

\* A request that goes on with the same ensure call, or ends without success.
LEMMA SameCall ==
  ASSUME TypeOK, Growth, NEW b \in Call, NEW c \in Call, CallOK(b),
         b.at \in Past \ {"created"},
         c.user = b.user, c.pc = b.pc,
         c.at \notin {"idle", "guard", "created", "refused"},
         c.at \in Keying =>
           LET s == ensure_system_baseline(c.user)[c.pc] IN
           s.kind = "client" => clients'[s.of] = origin,
         c.at = "derive" =>
           [of |-> ensure_system_baseline(c.user)[c.pc].of, index |-> c.index] \in keys',
         \A d \in devices' : d \in devices \/ (d.approved /\ d.key = identity)
  PROVE  CallOK(c)'
<1>1. CallOK(b)'
  BY Zenon, CallStays
<1>2. b.at # "idle"
  BY Zenon DEF Past, Working
<1> QED BY Zenon, <1>1, <1>2 DEF CallOK, Growth

\* A request whose current ensure call is established moves to the next one.
LEMMA NextCall ==
  ASSUME TypeOK, Growth, NEW b \in Call, CallOK(b),
         b.at \in Past \ {"created"},
         Established(ensure_system_baseline(b.user)[b.pc])',
         \A d \in devices' : d \in devices \/ (d.approved /\ d.key = identity)
  PROVE  Advanced(b) \in Call /\ CallOK(Advanced(b))'
<1>1. CallOK(b)' /\ b.at # "idle"
  BY Zenon, CallStays DEF Past, Working
<1>2. b.pc \in 1..Steps /\ Steps \in Nat
  BY Zenon DEF Call, Steps
<1>3. CASE b.pc = Steps
  <2>1. PICK c : c = [b EXCEPT !.at = "created"]
    BY Zenon
  <2>2. /\ c \in Call /\ c.at = "created" /\ c.user = b.user /\ c.pc = b.pc
        /\ c = Advanced(b)
    BY Zenon, <1>3, <2>1 DEF Call, Answered, Advanced
  <2>3. \A i \in 1..Steps : Established(ensure_system_baseline(b.user)[i])'
    BY <1>1, <1>2, <1>3 DEF CallOK, Past
  <2>4. CallOK(c)'
    BY Zenon, <1>1, <2>2, <2>3 DEF CallOK, Keying
  <2> QED BY Zenon, <2>2, <2>4
<1>4. CASE b.pc # Steps
  <2>1. PICK c : c = [b EXCEPT !.pc = @ + 1, !.at = "look"]
    BY Zenon
  <2>a. b.pc + 1 \in 1..Steps
    BY <1>2, <1>4
  <2>b. c = [at |-> "look", pc |-> b.pc + 1, user |-> b.user, index |-> b.index]
    BY ZenonT(60), <2>1 DEF Call
  <2>2. /\ c \in Call /\ c.at = "look" /\ c.user = b.user /\ c.pc = b.pc + 1
        /\ c = Advanced(b)
    <3>1. c \in Call
      BY Zenon, <2>a, <2>b DEF Call, Working
    <3>2. c = Advanced(b)
      BY Zenon, <1>4, <2>1 DEF Advanced
    <3> QED BY <2>b, <3>1, <3>2
  <2>3. \A i \in 1..Steps : i < c.pc => Established(ensure_system_baseline(b.user)[i])'
    BY <1>1, <1>2, <2>2 DEF CallOK, Past
  <2>4. CallOK(c)'
    BY Zenon, <1>1, <2>2, <2>3 DEF CallOK, Keying
  <2> QED BY Zenon, <2>2, <2>4
<1> QED BY Zenon, <1>3, <1>4

\* TypeOK without the requests.
DataOK ==
  /\ app \in {"down", "setup", "router", "closing", "erasing"}
  /\ identity \in Identity \cup {None}
  /\ origin \in Origin
  /\ tables \in BOOLEAN
  /\ rows \subseteq {s \in Step : s.kind \in RowKind}
  /\ clients \in [Builtin -> Origin \cup {None}]
  /\ keys \subseteq [of : Builtin \cup User, index : Nat]
  /\ devices \subseteq [key : Identity, owner : User, approved : BOOLEAN]
  /\ ring \subseteq [origin : Origin, of : Builtin \cup User, path : Nat \cup {Master}]
  /\ erased \in BOOLEAN
  /\ disturbed \subseteq Task

\* Devices are left alone or gain this device's approved row.
DevicesKept ==
  /\ \A d \in devices' : d \in devices \/ (d.approved /\ d.key = identity)
  /\ OneBootstrapDevice'
  /\ DevicesBacked'

LEMMA DevicesUnchanged ==
  ASSUME IInv, Growth, devices' = devices
  PROVE  DevicesKept
<1>1. OneBootstrapDevice'
  BY Zenon DEF IInv, OneBootstrapDevice, Growth
<1>2. ASSUME NEW d \in devices PROVE RecordedToDevice(d.owner)'
  <2>1. PICK u \in User : u = d.owner
    BY Zenon DEF IInv, TypeOK
  <2>2. RecordedToDevice(u)'
    BY Zenon, <2>1, RecordedStays DEF IInv, DevicesBacked
  <2> QED BY Zenon, <2>1, <2>2
<1> QED BY Zenon, <1>1, <1>2 DEF DevicesKept, DevicesBacked

LEMMA MoveTo ==
  ASSUME IInv, Growth, DataOK', DevicesKept, NEW t \in Task, NEW c \in Call,
         calls[t].at # "idle" \/ (app = "setup" /\ ~erased'),
         calls' = [calls EXCEPT ![t] = c], CallOK(c)'
  PROVE  IInv'
<1>1. TypeOK'
  BY Zenon DEF IInv, TypeOK, DataOK
<1> QED BY ZenonT(60), <1>1, OneMoves DEF DevicesKept

LEMMA GotoStep ==
  ASSUME IInv, Growth, DataOK', DevicesKept, NEW t \in Task,
         NEW p \in (Working \cup Answered) \ {"guard", "created", "refused"}, Goto(t, p),
         calls[t].at \in Past \ {"created"},
         p \in Keying => (Current(t).kind = "client" => clients'[Current(t).of] = origin),
         p = "derive" => [of |-> Current(t).of, index |-> calls[t].index] \in keys'
  PROVE  IInv'
<1>1. PICK b \in Call : b = calls[t]
  BY Zenon DEF IInv, TypeOK
<1>2. PICK c : c = [b EXCEPT !.at = p]
  BY Zenon
<1>3. /\ c \in Call /\ c.at = p /\ c.user = b.user /\ c.pc = b.pc /\ c.index = b.index
      /\ calls' = [calls EXCEPT ![t] = c]
  BY Zenon, <1>1, <1>2 DEF Goto, Call, IInv, TypeOK
<1>4. CallOK(b) /\ Current(t) = ensure_system_baseline(b.user)[b.pc]
  BY Zenon, <1>1 DEF IInv, Current
<1>5. p # "idle" /\ calls[t].at # "idle"
  BY Zenon DEF Working, Answered, Past
<1>6. CallOK(c)'
  <2>1. c.at \in Keying =>
          LET s == ensure_system_baseline(c.user)[c.pc] IN
          s.kind = "client" => clients'[s.of] = origin
    BY Zenon, <1>3, <1>4
  <2>2. c.at = "derive" =>
          [of |-> ensure_system_baseline(c.user)[c.pc].of, index |-> c.index] \in keys'
    BY Zenon, <1>1, <1>3, <1>4
  <2> QED BY Zenon, <1>1, <1>3, <1>4, <1>5, <2>1, <2>2, SameCall DEF IInv, DevicesKept
<1> QED BY ZenonT(60), <1>3, <1>5, <1>6, MoveTo

LEMMA AdvanceStep ==
  ASSUME IInv, Growth, DataOK', DevicesKept, NEW t \in Task, Advance(t),
         calls[t].at \in Past \ {"created"},
         NEW s, s = Current(t), Established(s)'
  PROVE  IInv'
<1>1. PICK b \in Call : b = calls[t]
  BY Zenon DEF IInv, TypeOK
<1>2. CallOK(b) /\ s = ensure_system_baseline(b.user)[b.pc]
  BY Zenon, <1>1 DEF IInv, Current
<1>3. Established(ensure_system_baseline(b.user)[b.pc])'
  BY Zenon, <1>2
<1>4. PICK c : c = Advanced(b)
  BY Zenon
<1>5. c \in Call /\ CallOK(c)'
  BY Zenon, <1>1, <1>2, <1>3, <1>4, NextCall DEF IInv, DevicesKept
<1>6. calls' = [calls EXCEPT ![t] = c]
  BY Zenon, <1>1, <1>4 DEF Advance
<1>7. calls[t].at # "idle"
  BY Zenon DEF Past, Working
<1> QED BY ZenonT(60), <1>5, <1>6, <1>7, MoveTo

LEMMA CurrentType ==
  ASSUME IInv, NEW t \in Task, calls[t].at # "idle"
  PROVE  /\ calls[t].user \in User /\ calls[t].pc \in 1..Steps /\ calls[t].index \in Nat
         /\ Current(t) \in Step
         /\ Current(t).kind = "client" => Current(t).of \in Builtin
         /\ Current(t).kind = "device" => calls[t].pc = 8
  BY ZenonT(60), PlanType DEF IInv, CallOK, TypeOK, Call, Current

LEMMA DataTyped == TypeOK => DataOK
  BY Zenon DEF TypeOK, DataOK

LEMMA PlacesDiffer ==
  /\ {"look", "update", "insert", "master", "index", "store", "derive"}
       \subseteq Past \ {"created"}
  /\ Working \ {"guard"} \subseteq Past \ {"created"}
  /\ "idle" \notin Past
  BY Zenon DEF Past, Working

LEMMA RowForms ==
  ASSUME NEW t \in Task, EnsureRow(t)
  PROVE  \E kind \in RowKind : Look(t, kind) \/ Insert(t, kind) \/ Seen(t, kind)
  BY Zenon DEF EnsureRow, RowKind, ensure_application, create_application,
         ensure_admin_user, create_user_with_password, ensure_role, create_role,
         ensure_permission, create_permission, ensure_role_permission,
         add_permission_to_role, ensure_user_role, add_role_to_user

LEMMA RowSteps ==
  ASSUME IInv, NEW t \in Task, EnsureRow(t)
  PROVE  IInv'
<1>a. PICK kind \in RowKind : Look(t, kind) \/ Insert(t, kind) \/ Seen(t, kind)
  BY Zenon, RowForms
<1>1. /\ calls[t].at \in Past \ {"created"}
      /\ calls[t].at # "idle"
      /\ Current(t).kind \in RowKind
  BY Zenon, <1>a, PlacesDiffer DEF Look, Insert, Seen, At
<1>2. PICK s \in Step : s = Current(t)
  BY Zenon, <1>1, CurrentType
<1>3. s.kind \in RowKind /\ s.kind \notin {"client", "key", "device"}
  BY Zenon, <1>1, <1>2 DEF RowKind
<1>4. Growth /\ devices' = devices
  BY <1>a DEF Look, Insert, Seen, Growth, db
<1>5. DataOK'
  BY Zenon, <1>a, <1>2, <1>3, DataTyped DEF IInv, DataOK, Look, Insert, Seen, db
<1>6. DevicesKept
  BY Zenon, <1>4, DevicesUnchanged
<1>7. CASE Advance(t) /\ s \in rows'
  <2>1. Established(s)'
    BY Zenon, <1>3, <1>7 DEF Established
  <2> QED BY Zenon, <1>1, <1>2, <1>4, <1>5, <1>6, <1>7, <2>1, AdvanceStep
<1>8. CASE \E p \in {"insert", "failed"} : Goto(t, p)
  BY ZenonT(60), <1>1, <1>4, <1>5, <1>6, <1>8, GotoStep DEF Working, Answered, Keying
<1> QED BY Zenon, <1>a, <1>2, <1>7, <1>8 DEF Look, Insert, Seen, db

LEMMA ClientSteps ==
  ASSUME IInv, NEW t \in Task,
         \/ ensure_client(t) \/ update_client(t)
         \/ create_client(t) \/ ensure_entity_master_key(t)
  PROVE  IInv'
<1>1. /\ calls[t].at \in Past \ {"created"}
      /\ calls[t].at # "idle"
      /\ Current(t).kind = "client"
  BY Zenon, PlacesDiffer DEF ensure_client, update_client, create_client,
                      ensure_entity_master_key, At
<1>2. PICK s \in Step : s = Current(t)
  BY Zenon, <1>1, CurrentType
<1>3. s.kind = "client" /\ s.of \in Builtin
  BY Zenon, <1>1, <1>2, CurrentType
<1>a. origin \in Origin /\ clients \in [Builtin -> Origin \cup {None}] /\ None \notin Origin
  BY Zenon, SetupAssumption DEF IInv, TypeOK
<1>4. Growth /\ devices' = devices
  BY <1>2, <1>3, <1>a DEF ensure_client, update_client, create_client,
                      ensure_entity_master_key, Growth, db
<1>5. DataOK'
  BY SMTT(30), <1>2, <1>3, <1>a, DataTyped DEF IInv, DataOK, ensure_client, update_client,
     create_client,
                      ensure_entity_master_key, PrivateKey, db
<1>6. DevicesKept
  BY Zenon, <1>4, DevicesUnchanged
<1>7. CASE Advance(t) /\ clients'[s.of] = origin'
  <2>1. Established(s)'
    BY Zenon, <1>3, <1>7 DEF Established, RowKind
  <2> QED BY Zenon, <1>1, <1>2, <1>4, <1>5, <1>6, <1>7, <2>1, AdvanceStep
<1>8. CASE \E p \in {"insert", "update", "failed"} : Goto(t, p)
  BY ZenonT(60), <1>1, <1>4, <1>5, <1>6, <1>8, GotoStep DEF Working, Answered, Keying
<1>9. CASE \E p \in {"master", "index"} : Goto(t, p) /\ clients'[s.of] = origin
  BY ZenonT(60), <1>1, <1>2, <1>4, <1>5, <1>6, <1>9, GotoStep DEF Working, Answered, Keying
<1>10. CASE ensure_client(t)
  BY Zenon, <1>2, <1>7, <1>8, <1>10 DEF ensure_client, db
<1>11. CASE update_client(t)
  BY Zenon, <1>2, <1>3, <1>a, <1>7, <1>11 DEF update_client
<1>12. CASE create_client(t)
  BY Zenon, <1>2, <1>3, <1>a, <1>8, <1>9, <1>12 DEF create_client
<1>13. CASE ensure_entity_master_key(t)
  <2>1. clients[s.of] = origin
    BY Zenon, <1>2, <1>3, <1>13 DEF IInv, CallOK, ensure_entity_master_key, At, Keying, Current
  <2> QED BY Zenon, <1>9, <1>13, <2>1 DEF ensure_entity_master_key, db
<1> QED BY Zenon, <1>10, <1>11, <1>12, <1>13

LEMMA KeySteps ==
  ASSUME IInv, NEW t \in Task,
         \/ ensure_active_key(t) \/ read_index(t)
         \/ insert_key(t) \/ ensure_derivation_path(t)
  PROVE  IInv'
<1>1. /\ calls[t].at \in Past \ {"created"}
      /\ calls[t].at # "idle"
      /\ Current(t).kind \in {"client", "key"}
  BY Zenon, PlacesDiffer DEF ensure_active_key, read_index, insert_key,
                      ensure_derivation_path, At
<1>2. PICK s \in Step : s = Current(t)
  BY Zenon, <1>1, CurrentType
<1>3. s.kind \in {"client", "key"} /\ s.kind \notin RowKind /\ s.of \in Builtin \cup User
  BY Zenon, <1>1, <1>2 DEF RowKind, Step
<1>a. /\ origin \in Origin
      /\ keys \subseteq [of : Builtin \cup User, index : Nat]
      /\ calls[t].index \in Nat
      /\ calls[t].at \in Keying /\ s.kind = "client" => clients[s.of] = origin
      /\ calls[t].at = "derive" => [of |-> s.of, index |-> calls[t].index] \in keys
  BY Zenon, <1>1, <1>2, CurrentType DEF IInv, TypeOK, CallOK, Current
<1>4. Growth /\ devices' = devices /\ clients' = clients
  <2>1. CASE ensure_active_key(t)
    BY Zenon, <2>1 DEF ensure_active_key, Growth, db
  <2>2. CASE read_index(t)
    BY Zenon, <2>2 DEF read_index, Growth, db
  <2>3. CASE insert_key(t)
    BY Zenon, <2>3 DEF insert_key, Growth
  <2>4. CASE ensure_derivation_path(t)
    BY Zenon, <2>4 DEF ensure_derivation_path, Growth, db
  <2> QED BY Zenon, <2>1, <2>2, <2>3, <2>4
<1>5. DataOK'
  <2>1. CASE ensure_active_key(t)
    BY SMTT(30), <1>2, <1>3, <1>a, <2>1, DataTyped
       DEF IInv, DataOK, ensure_active_key, PrivateKey, KeysOf,
           find_active_entity_root_key, db
  <2>2. CASE read_index(t)
    BY Zenon, <2>2, DataTyped DEF IInv, DataOK, read_index, db
  <2>3. CASE insert_key(t)
    BY SMTT(30), <1>2, <1>3, <1>a, <2>3, DataTyped DEF IInv, DataOK, insert_key, db
  <2>4. CASE ensure_derivation_path(t)
    BY SMTT(30), <1>2, <1>3, <1>a, <2>4, DataTyped
       DEF IInv, DataOK, ensure_derivation_path, PrivateKey, db
  <2> QED BY Zenon, <2>1, <2>2, <2>3, <2>4
<1>6. DevicesKept
  BY Zenon, <1>4, DevicesUnchanged
<1>7. CASE /\ Advance(t)
           /\ s.kind = "client" => clients[s.of] = origin
           /\ \E k \in keys : k.of = s.of /\ PrivateKey(origin, s.of, k.index) \in ring'
           /\ keys' = keys /\ origin' = origin
  <2>1. Established(s)'
    BY Zenon, <1>3, <1>4, <1>7 DEF Established, KeysOf, PrivateKey
  <2> QED BY Zenon, <1>1, <1>2, <1>4, <1>5, <1>6, <1>7, <2>1, AdvanceStep
<1>8. CASE \E p \in {"index", "failed", "derive"} :
             /\ Goto(t, p)
             /\ p = "index" => s.kind = "key"
             /\ p = "derive" => /\ s.kind = "client" => clients[s.of] = origin
                                /\ [of |-> s.of, index |-> calls[t].index] \in keys'
  BY Zenon, <1>1, <1>2, <1>4, <1>5, <1>6, <1>8, GotoStep DEF Working, Answered, Keying
<1>10. CASE ensure_active_key(t)
  <2>1. s.kind = "key"
    BY Zenon, <1>2, <1>10 DEF ensure_active_key, At
  <2>2. CASE KeysOf(s.of) = {}
    BY Zenon, <1>2, <1>8, <1>10, <2>1, <2>2 DEF ensure_active_key
  <2>3. CASE KeysOf(s.of) # {}
    BY Zenon, <1>2, <1>7, <1>10, <2>1, <2>3
       DEF ensure_active_key, find_active_entity_root_key, KeysOf, db
  <2> QED BY Zenon, <2>2, <2>3
<1>11. CASE read_index(t)
  <2>1. PICK i \in derivation_index :
          calls' = [calls EXCEPT ![t] = [@ EXCEPT !.at = "store", !.index = i]]
    BY Zenon, <1>11 DEF read_index
  <2>2. i \in Nat
    BY SMTT(30), <1>a DEF derivation_index, UsedIndex
  <2>3. PICK b \in Call : b = calls[t]
    BY Zenon DEF IInv, TypeOK
  <2>4. PICK c : c = [b EXCEPT !.at = "store", !.index = i]
    BY Zenon
  <2>5. c = [at |-> "store", pc |-> b.pc, user |-> b.user, index |-> i]
    BY ZenonT(60), <2>4 DEF Call
  <2>6. c \in Call /\ calls' = [calls EXCEPT ![t] = c]
    BY ZenonT(60), <2>1, <2>2, <2>3, <2>4, <2>5 DEF Call, Working
  <2>7. CallOK(b) /\ s = ensure_system_baseline(b.user)[b.pc] /\ b.at = "index"
    BY Zenon, <1>2, <1>11, <2>3 DEF IInv, Current, read_index, At
  <2>8. CallOK(c)'
    <3>1. c.at \in Keying =>
            LET r == ensure_system_baseline(c.user)[c.pc] IN
            r.kind = "client" => clients'[r.of] = origin
      BY Zenon, <1>4, <2>5, <2>7 DEF CallOK, Keying
    <3>2. /\ b.at \in Past \ {"created"} /\ c.user = b.user /\ c.pc = b.pc
          /\ c.at \notin {"idle", "guard", "created", "refused", "derive"}
      BY Zenon, <1>1, <2>3, <2>5
    <3> QED BY ZenonT(60), <1>4, <1>6, <2>6, <2>7, <3>1, <3>2, SameCall DEF IInv, DevicesKept
  <2> QED BY ZenonT(60), <1>1, <1>4, <1>5, <1>6, <2>6, <2>8, MoveTo
<1>12. CASE insert_key(t)
  <2>1. calls[t].at \in Keying
    BY Zenon, <1>12 DEF insert_key, At, Keying
  <2> QED BY Zenon, <1>2, <1>8, <1>12, <1>a, <2>1 DEF insert_key
<1>13. CASE ensure_derivation_path(t)
  <2>1. calls[t].at = "derive" /\ calls[t].at \in Keying
    BY Zenon, <1>13 DEF ensure_derivation_path, At, Keying
  <2>2. PICK k \in keys : k = [of |-> s.of, index |-> calls[t].index]
    BY Zenon, <1>a, <2>1
  <2>3. k.of = s.of /\ PrivateKey(origin, s.of, k.index) \in ring'
    BY Zenon, <1>2, <1>13, <2>2 DEF ensure_derivation_path
  <2> QED BY Zenon, <1>7, <1>13, <1>a, <2>1, <2>3 DEF ensure_derivation_path, db
<1> QED BY Zenon, <1>10, <1>11, <1>12, <1>13

LEMMA DeviceSteps ==
  ASSUME IInv, NEW t \in Task, ensure_bootstrap_device(t) \/ create_device(t)
  PROVE  IInv'
<1>1. /\ calls[t].at \in Past \ {"created"}
      /\ calls[t].at # "idle"
      /\ Current(t).kind = "device"
  BY Zenon, PlacesDiffer DEF ensure_bootstrap_device, create_device, At
<1>2. PICK s \in Step : s = Current(t)
  BY Zenon, <1>1, CurrentType
<1>3. s.kind = "device" /\ s.kind \notin RowKind
  BY Zenon, <1>1, <1>2 DEF RowKind
<1>4. /\ calls[t].user \in User /\ calls[t].pc = 8 /\ identity \in Identity
      /\ \A d \in devices : d.approved /\ d.key = identity
  BY ZenonT(60), <1>1, CurrentType DEF IInv, CallOK, Past
<1>5. Ensure("user", calls[t].user) \in rows
  <2>1. Established(ensure_system_baseline(calls[t].user)[7])
    <3>1. 7 \in 1..Steps /\ 7 < calls[t].pc
      BY <1>4 DEF Steps
    <3>2. PICK c : c = calls[t]
      BY Zenon
    <3>3. CallOK(c)
      BY Zenon, <3>2 DEF IInv
    <3> QED BY Zenon, <1>1, <3>1, <3>2, <3>3 DEF CallOK
  <2>2. ensure_system_baseline(calls[t].user)[7] = Ensure("user", calls[t].user)
    BY <1>4, PlanType DEF Steps
  <2> QED BY SMTT(30), <2>1, <2>2 DEF Established, Ensure, RowKind
<1>8. RecordedToDevice(calls[t].user)
  <2> SUFFICES ASSUME NEW i \in 1..BeforeDevice
               PROVE  Written(ensure_system_baseline(calls[t].user)[i])
    BY Zenon DEF RecordedToDevice
  <2>1. PICK c : c = calls[t]
    BY Zenon
  <2>2. CallOK(c) /\ c.at \in Past
    BY Zenon, <1>1, <2>1 DEF IInv
  <2>3. i \in 1..Steps /\ i < c.pc
    BY <1>4, <2>1 DEF BeforeDevice, Steps
  <2>4. PICK r : r = ensure_system_baseline(c.user)[i]
    BY Zenon
  <2>5. Established(r) /\ (r.kind = "client" => r.of \in Builtin)
    BY Zenon, <1>4, <2>1, <2>2, <2>3, <2>4, PlanType DEF CallOK
  <2>6. origin # None
    BY Zenon, SetupAssumption DEF IInv, TypeOK
  <2>7. Written(r)
    BY Zenon, <2>5, <2>6 DEF Established, Written
  <2> QED BY Zenon, <2>1, <2>4, <2>7
<1>6. CASE ensure_bootstrap_device(t)
  <2>1. Growth /\ devices' = devices /\ DataOK'
    BY Zenon, <1>6, DataTyped DEF IInv, DataOK, ensure_bootstrap_device, Growth, db
  <2>2. DevicesKept
    BY Zenon, <2>1, DevicesUnchanged
  <2>3. CASE devices = {}
    BY ZenonT(60), <1>1, <1>6, <2>1, <2>2, <2>3, GotoStep
       DEF ensure_bootstrap_device, Working, Answered, Keying
  <2>4. CASE devices # {}
    <3>1. Established(s)'
      BY Zenon, <1>3, <1>4, <2>1, <2>4 DEF Established, Growth
    <3> QED BY Zenon, <1>1, <1>2, <1>6, <2>1, <2>2, <2>4, <3>1, AdvanceStep
            DEF ensure_bootstrap_device
  <2> QED BY Zenon, <2>3, <2>4
<1>7. CASE create_device(t)
  <2>1. CASE \E d \in devices : d.key = identity
    <3>1. Growth /\ devices' = devices /\ DataOK' /\ Goto(t, "failed")
      BY Zenon, <1>7, <2>1, DataTyped DEF IInv, DataOK, create_device, Growth
    <3>2. DevicesKept
      BY Zenon, <3>1, DevicesUnchanged
    <3> QED BY Zenon, <1>1, <3>1, <3>2, GotoStep DEF Answered, Keying
  <2>2. CASE ~\E d \in devices : d.key = identity
    <3>1. devices = {}
      BY Zenon, <1>4, <2>2
    <3>2. PICK e : e = [key |-> identity, owner |-> calls[t].user, approved |-> TRUE]
      BY Zenon
    <3>3. devices' = {e} /\ Advance(t)
      BY ZenonT(60), <1>7, <2>2, <3>1, <3>2 DEF create_device
    <3>4. Growth /\ DataOK'
      BY <1>4, <1>7, <3>1, <3>2, <3>3, DataTyped DEF IInv, DataOK, create_device, Growth
    <3>5. DevicesKept
      <4>1. rows' = rows /\ identity' = identity
        BY Zenon, <1>7 DEF create_device
      <4>2. e.approved /\ e.key = identity /\ e.owner = calls[t].user
        BY Zenon, <3>2
      <4>3. OneBootstrapDevice'
        <5>1. \A d, f \in devices' : d = f
          BY Zenon, <3>3
        <5>2. \A d \in devices' : d = e
          BY Zenon, <3>3
        <5>3. Ensure("user", e.owner) \in rows'
          BY Zenon, <1>5, <4>1, <4>2
        <5>4. \A d \in devices' : Ensure("user", d.owner) \in rows'
          BY Zenon, <5>2, <5>3
        <5> QED BY Zenon, <5>1, <5>4 DEF OneBootstrapDevice, Ensure
      <4>4. PICK u \in User : u = calls[t].user /\ e.owner = u
        BY Zenon, <1>4, <4>2
      <4>5. RecordedToDevice(u)'
        BY Zenon, <1>8, <3>4, <4>4, RecordedStays
      <4>6. \A d \in devices' : d.owner = u
        BY Zenon, <3>3, <4>4
      <4>7. DevicesBacked'
        BY Zenon, <4>5, <4>6 DEF DevicesBacked
      <4> QED BY Zenon, <3>3, <4>2, <4>3, <4>7 DEF DevicesKept
    <3>6. Established(s)'
      BY Zenon, <1>3, <3>2, <3>3, <3>4 DEF Established, Growth
    <3> QED BY Zenon, <1>1, <1>2, <3>3, <3>4, <3>5, <3>6, AdvanceStep
  <2> QED BY Zenon, <2>1, <2>2
<1> QED BY Zenon, <1>6, <1>7

LEMMA OtherSteps ==
  ASSUME IInv, NEW t \in Task, has_any(t) \/ Fail(t) \/ Answer(t)
  PROVE  IInv'
<1>1. Growth /\ devices' = devices /\ DataOK' /\ calls[t].at # "idle"
  BY DataTyped DEF IInv, DataOK, has_any, Fail, Answer, Growth, db, Working, Answered
<1>2. DevicesKept
  BY Zenon, <1>1, DevicesUnchanged
<1>3. PICK b \in Call : b = calls[t]
  BY Zenon DEF IInv, TypeOK
<1>4. CallOK(b) /\ b.user \in User /\ b.pc \in 1..Steps
  BY Zenon, <1>1, <1>3, CurrentType DEF IInv
<1>5. CASE Answer(t)
  <2>1. PICK c : c = Idle
    BY Zenon
  <2>2. c \in Call /\ CallOK(c)' /\ calls' = [calls EXCEPT ![t] = c]
    BY SMTT(30), <1>5, <2>1 DEF Answer, Idle, Call, CallOK, Past, Keying, Working, Steps
  <2> QED BY ZenonT(60), <1>1, <1>2, <2>2, MoveTo
<1>6. ASSUME NEW p \in {"look", "refused", "failed"}, Goto(t, p),
             p = "look" => b.at = "guard" /\ devices = {} /\ b.pc = 1,
             p = "refused" => devices # {}
      PROVE  IInv'
  <2>1. PICK c : c = [b EXCEPT !.at = p]
    BY Zenon
  <2>2. /\ c \in Call /\ c.at = p /\ c.user = b.user /\ c.pc = b.pc
        /\ calls' = [calls EXCEPT ![t] = c]
    BY Zenon, <1>3, <1>6, <2>1 DEF Goto, Call, Working, Answered
  <2>3. /\ identity' \in Identity
        /\ app' \in {"setup", "closing"}
        /\ ~erased'
    BY Zenon, <1>1, <1>3, <1>4 DEF CallOK, Growth
  <2>4. CallOK(c)'
    BY SMTT(30), <1>1, <1>4, <1>6, <2>2, <2>3 DEF CallOK, Past, Keying, Working
  <2> QED BY ZenonT(60), <1>1, <1>2, <2>2, <2>4, MoveTo
<1>7. CASE has_any(t)
  <2>1. CASE devices = {}
    \* A request at the guard is at its first call.
    BY ZenonT(60), <1>3, <1>6, <1>7, <2>1 DEF has_any, IInv, CallOK
  <2>2. CASE devices # {}
    BY Zenon, <1>6, <1>7, <2>2 DEF has_any
  <2> QED BY Zenon, <2>1, <2>2
<1>8. CASE Fail(t)
  BY Zenon, <1>6, <1>8 DEF Fail
<1> QED BY Zenon, <1>5, <1>7, <1>8

LEMMA CreateStep ==
  ASSUME IInv, NEW t \in Task, NEW u \in User, create_system(t, u)
  PROVE  IInv'
<1>1. Growth /\ devices' = devices /\ DataOK' /\ app = "setup" /\ ~erased'
  BY ZenonT(60), DataTyped DEF IInv, DataOK, create_system, Growth
<1>2. DevicesKept
  BY Zenon, <1>1, DevicesUnchanged
<1>3. PICK c : c = [at |-> "guard", pc |-> 1, user |-> u, index |-> 0]
  BY Zenon
<1>4. c \in Call /\ calls' = [calls EXCEPT ![t] = c]
  BY <1>3 DEF create_system, Call, Working, Steps
<1>5. CallOK(c)'
  BY Zenon, <1>1, <1>3 DEF CallOK, IInv, Growth, Past, Keying, Working, create_system
<1> QED BY ZenonT(60), <1>1, <1>2, <1>4, <1>5, MoveTo

LEMMA BackedKept ==
  ASSUME DevicesBacked, UNCHANGED <<rows, clients, keys>>,
         \A d \in devices' : \E e \in devices : e.owner = d.owner
  PROVE  DevicesBacked'
<1> SUFFICES ASSUME NEW d \in devices' PROVE RecordedToDevice(d.owner)'
  BY Zenon DEF DevicesBacked
<1>1. PICK u : u = d.owner
  BY Zenon
<1>2. RecordedToDevice(u)
  BY Zenon, <1>1 DEF DevicesBacked
<1>3. RecordedToDevice(u)'
  BY Zenon, <1>2 DEF RecordedToDevice, Written, KeysOf
<1> QED BY Zenon, <1>1, <1>3

LEMMA ProcessSteps ==
  ASSUME IInv, run \/ Exit \/ reset_device \/ Erase
  PROVE  IInv'
<1>1. CASE run
  <2>1. \A t \in Task : calls[t].at = "idle"
    BY ZenonT(60), <1>1 DEF IInv, CallOK, run
  <2>2. TypeOK'
    BY Zenon, <1>1 DEF IInv, TypeOK, run, db
  <2>3. \A t \in Task : CallOK(calls[t])'
    BY Zenon, <1>1, <2>1 DEF CallOK, run, Past, Keying, Working
  <2>4. DevicesBacked'
    BY Zenon, <1>1, BackedKept DEF IInv, run, db
  <2> QED BY Zenon, <1>1, <2>2, <2>3, <2>4, SetupAssumption
          DEF IInv, TypeOK, run, OneBootstrapDevice, db
<1>2. CASE Exit
  <2>1. TypeOK'
    BY <1>2 DEF IInv, TypeOK, Exit, db, Idle, Call, Steps
  <2>2. \A t \in Task : CallOK(calls[t])'
    BY Zenon, <1>2 DEF CallOK, Exit, Idle, Past, Keying, Working
  <2>3. DevicesBacked'
    BY Zenon, <1>2, BackedKept DEF IInv, Exit, db
  <2> QED BY Zenon, <1>2, <2>1, <2>2, <2>3 DEF IInv, Exit, OneBootstrapDevice, db
<1>3. CASE reset_device /\ devices' = devices
  <2>1. Growth
    BY Zenon, <1>3 DEF reset_device, Growth
  <2>2. TypeOK'
    BY Zenon, <1>3 DEF IInv, TypeOK, reset_device
  <2>3. ASSUME NEW t \in Task PROVE CallOK(calls[t])'
    <3>1. PICK c \in Call : c = calls[t] /\ c = calls'[t]
      BY Zenon, <1>3 DEF IInv, TypeOK, reset_device
    <3>2. CallOK(c)
      BY ZenonT(60), <3>1 DEF IInv
    <3>3. CallOK(c)'
      BY Zenon, <1>3, <2>1, <3>2, CallStays DEF IInv
    <3> QED BY Zenon, <3>1, <3>3 DEF CallOK
  <2>4. DevicesBacked'
    BY Zenon, <1>3, BackedKept DEF IInv, reset_device
  <2> QED BY Zenon, <1>3, <2>2, <2>3, <2>4 DEF IInv, reset_device, OneBootstrapDevice
<1>4. CASE reset_device /\ app = "router" /\
           devices' = {IF d.key = identity THEN [d EXCEPT !.approved = FALSE] ELSE d :
                         d \in devices}
  <2>1. \A t \in Task : calls[t].at = "idle"
    BY ZenonT(60), <1>4 DEF IInv, CallOK
  <2>2. ASSUME NEW d \in devices
        PROVE  /\ [d EXCEPT !.approved = FALSE]
                    \in [key : Identity, owner : User, approved : BOOLEAN]
               /\ [d EXCEPT !.approved = FALSE].owner = d.owner
    BY ZenonT(60) DEF IInv, TypeOK
  <2>3. TypeOK'
    <3>1. devices' \subseteq [key : Identity, owner : User, approved : BOOLEAN]
      BY <1>4, <2>2 DEF IInv, TypeOK
    <3> QED BY Zenon, <1>4, <3>1 DEF IInv, TypeOK, reset_device
  <2>4. \A t \in Task : CallOK(calls[t])'
    BY Zenon, <1>4, <2>1 DEF CallOK, reset_device, Past, Keying, Working
  <2>5. OneBootstrapDevice'
    BY <1>4, <2>2 DEF IInv, OneBootstrapDevice, reset_device
  <2>6. (erased /\ SameDirectory => devices = {})'
    BY Zenon, <1>4 DEF IInv, reset_device
  <2>7. (app \in {"setup", "router", "closing"} => identity \in Identity)'
    BY Zenon, <1>4 DEF IInv, reset_device
  <2>8. DevicesBacked'
    <3>1. \A d \in devices' : \E e \in devices : e.owner = d.owner
      BY Zenon, <1>4, <2>2
    <3> QED BY Zenon, <1>4, <3>1, BackedKept DEF IInv, reset_device
  <2> QED BY Zenon, <2>3, <2>4, <2>5, <2>6, <2>7, <2>8 DEF IInv
<1>5. CASE delete_device_identity
  <2>1. TypeOK'
    BY Zenon, <1>5 DEF IInv, TypeOK, delete_device_identity, db
  <2>2. \A t \in Task : CallOK(calls[t])'
    BY Zenon, <1>5 DEF CallOK, delete_device_identity, Past, Keying, Working
  <2>3. DevicesBacked'
    BY Zenon, <1>5, BackedKept DEF IInv, delete_device_identity, db
  <2> QED BY Zenon, <1>5, <2>1, <2>2, <2>3
          DEF IInv, delete_device_identity, OneBootstrapDevice, db
<1>6. CASE remove_local_reset_data
  <2>1. \A t \in Task : calls[t].at = "idle"
    BY ZenonT(60), <1>6 DEF IInv, CallOK, remove_local_reset_data
  <2>2. TypeOK'
    BY ZenonT(60), <1>6 DEF IInv, TypeOK, remove_local_reset_data, db
  <2>3. \A t \in Task : CallOK(calls[t])'
    BY Zenon, <1>6, <2>1 DEF CallOK, remove_local_reset_data, Past, Keying, Working
  <2>4. DevicesBacked'
    <3>1. CASE SameDirectory
      BY Zenon, <1>6, <3>1 DEF remove_local_reset_data, DevicesBacked
    <3>2. CASE ~SameDirectory
      BY Zenon, <1>6, <3>2, BackedKept DEF IInv, remove_local_reset_data, db
    <3> QED BY Zenon, <3>1, <3>2
  <2> QED BY <1>6, <2>2, <2>3, <2>4 DEF IInv, remove_local_reset_data, OneBootstrapDevice, db
<1> QED BY Zenon, <1>1, <1>2, <1>3, <1>4, <1>5, <1>6 DEF reset_device, Erase

\* The inductive invariant of the setup machine.
THEOREM SetupInvariance == Spec => []IInv
<1>1. Init => IInv
  <2> SUFFICES ASSUME Init PROVE IInv
    BY Zenon
  <2>1. TypeOK
    <3>1. Idle \in Call
      BY DEF Idle, Call, Steps
    <3> QED BY ZenonT(60), <3>1 DEF Init, TypeOK
  <2>2. \A t \in Task : CallOK(calls[t])
    BY Zenon DEF Init, CallOK, Idle, Past, Keying, Working
  <2> QED BY Zenon, <2>1, <2>2 DEF Init, IInv, OneBootstrapDevice, DevicesBacked
<1>2. IInv /\ [Next]_vars => IInv'
  <2> SUFFICES ASSUME IInv, [Next]_vars PROVE IInv'
    BY Zenon
  <2>1. CASE UNCHANGED vars
    <3>1. \A t \in Task : CallOK(calls[t])'
      BY ZenonT(30), <2>1 DEF IInv, CallOK, vars, db, Established, KeysOf
    <3>2. TypeOK'
      BY Zenon, <2>1 DEF IInv, TypeOK, vars, db
    <3>3. DevicesBacked'
      BY Zenon, <2>1, BackedKept DEF IInv, vars, db
    <3> QED BY Zenon, <2>1, <3>1, <3>2, <3>3 DEF IInv, vars, db, OneBootstrapDevice
  <2>2. ASSUME NEW t \in Task, NEW u \in User, create_system(t, u) PROVE IInv'
    BY Zenon, <2>2, CreateStep
  <2>3. ASSUME NEW t \in Task, Progress(t) \/ Fail(t) PROVE IInv'
    BY Zenon, <2>3, RowSteps, ClientSteps, KeySteps, DeviceSteps, OtherSteps DEF Progress
  <2>4. CASE run \/ Exit \/ reset_device \/ Erase
    BY Zenon, <2>4, ProcessSteps
  <2> QED BY Zenon, <2>1, <2>2, <2>3, <2>4 DEF Next
<1> QED BY <1>1, <1>2, PTL DEF Spec

\* Type correctness of the setup machine.
THEOREM SetupTypeCorrect == Spec => []TypeOK
<1>1. IInv => TypeOK
  BY Zenon DEF IInv
<1> QED BY <1>1, SetupInvariance, PTL

\* Whatever earlier attempts, crashes and a second request leave behind, a
\* request answered with 204 has established the whole baseline.
THEOREM CreatedComplete == Spec => []CreatedIsComplete
<1>1. IInv => CreatedIsComplete
  BY ZenonT(60) DEF IInv, CallOK, Past, CreatedIsComplete, Complete
<1> QED BY <1>1, SetupInvariance, PTL

\* Overlapping requests never write two bootstrap devices, and the one written
\* belongs to a recorded administrator.
THEOREM BootstrapDeviceUnique == Spec => []OneBootstrapDevice
<1>1. IInv => OneBootstrapDevice
  BY Zenon DEF IInv
<1> QED BY <1>1, SetupInvariance, PTL

\* Where the database lies in the directory that reset clears, a finished reset
\* leaves the installation stage behind.
THEOREM ResetClears == SameDirectory => (Spec => []ResetReturnsToSetup)
<1> SUFFICES ASSUME SameDirectory PROVE Spec => []ResetReturnsToSetup
  BY Zenon
<1>1. IInv => ResetReturnsToSetup
  BY Zenon DEF IInv, ResetReturnsToSetup, Stage
<1> QED BY <1>1, SetupInvariance, PTL

----------------------------------------------------------------------------
(* A request nothing disturbs is the only one in flight, so what it has     *)
(* looked up is still so when it writes.                                    *)

\* The write a request is about to make meets no unique index.
Clear(c) ==
  LET s == ensure_system_baseline(c.user)[c.pc] IN
  /\ c.at # "failed"
  /\ c.at = "insert" =>
       /\ s.kind \in RowKind => s \notin rows
       /\ s.kind = "client" => clients[s.of] = None
       /\ s.kind = "device" => devices = {}
  /\ c.at = "store" => c.index \notin UsedIndex

Undisturbed ==
  \A t \in Task \ disturbed : calls[t].at # "idle" =>
    /\ \A s \in Task \ {t} : calls[s].at = "idle"
    /\ Clear(calls[t])

LEMMA SoleMoves ==
  ASSUME Undisturbed, NEW t \in Task, calls[t].at # "idle",
         \A s \in Task \ {t} : calls'[s] = calls[s],
         disturbed \ {t} \subseteq disturbed',
         t \notin disturbed' /\ calls'[t].at # "idle" =>
           t \notin disturbed /\ Clear(calls[t])'
  PROVE  Undisturbed'
<1> SUFFICES ASSUME NEW r \in Task, r \notin disturbed', calls'[r].at # "idle"
             PROVE  /\ \A s \in Task \ {r} : calls'[s].at = "idle"
                    /\ Clear(calls[r])'
  BY Zenon DEF Undisturbed
<1>1. CASE r = t
  BY Zenon, <1>1 DEF Undisturbed
<1>2. CASE r # t
  BY Zenon, <1>2 DEF Undisturbed
<1> QED BY Zenon, <1>1, <1>2

\* The next ensure call begins with a lookup.
LEMMA AdvanceClear ==
  ASSUME TypeOK, Undisturbed, NEW t \in Task, Advance(t), calls[t].at # "idle",
         disturbed' = disturbed
  PROVE  Undisturbed'
<1>1. PICK b \in Call : b = calls[t]
  BY Zenon DEF TypeOK
<1>2. PICK c : c = Advanced(b)
  BY Zenon
<1>3. c.at \in {"look", "created"}
  <2>1. CASE b.pc = Steps
    BY Zenon, <1>2, <2>1 DEF Advanced, Call
  <2>2. CASE b.pc # Steps
    <3>1. c = [at |-> "look", pc |-> b.pc + 1, user |-> b.user, index |-> b.index]
      BY ZenonT(60), <1>2, <2>2 DEF Advanced, Call
    <3> QED BY Zenon, <3>1
  <2> QED BY Zenon, <2>1, <2>2
<1>4. calls'[t] = c /\ \A s \in Task \ {t} : calls'[s] = calls[s]
  BY Zenon, <1>1, <1>2 DEF Advance, TypeOK
<1>5. Clear(c)'
  BY Zenon, <1>3 DEF Clear
<1>6. Clear(calls[t])'
  BY Zenon, <1>4, <1>5 DEF Clear
<1> QED BY Zenon, <1>4, <1>6, SoleMoves

LEMMA GotoClear ==
  ASSUME TypeOK, Undisturbed, NEW t \in Task, NEW p, Goto(t, p), calls[t].at # "idle",
         disturbed' = disturbed,
         Clear(calls[t]) =>
           /\ p \notin {"failed", "store"}
           /\ p = "insert" =>
                /\ Current(t).kind \in RowKind => Current(t) \notin rows'
                /\ Current(t).kind = "client" => clients'[Current(t).of] = None
                /\ Current(t).kind = "device" => devices' = {}
  PROVE  Undisturbed'
<1>1. PICK b \in Call : b = calls[t]
  BY Zenon DEF TypeOK
<1>2. PICK c : c = [b EXCEPT !.at = p]
  BY Zenon
<1>3. c.at = p /\ c.user = b.user /\ c.pc = b.pc
  BY Zenon, <1>2 DEF Call
<1>4. calls'[t] = c /\ \A s \in Task \ {t} : calls'[s] = calls[s]
  BY Zenon, <1>1, <1>2 DEF Goto, TypeOK
<1>5. Current(t) = ensure_system_baseline(c.user)[c.pc]
  BY Zenon, <1>1, <1>3 DEF Current
<1>6. Clear(calls[t]) => Clear(c)'
  BY Zenon, <1>3, <1>5 DEF Clear
<1>7. t \notin disturbed => Clear(calls[t])
  BY Zenon DEF Undisturbed
<1>8. t \notin disturbed => Clear(calls[t])'
  BY Zenon, <1>4, <1>6, <1>7 DEF Clear
<1> QED BY Zenon, <1>4, <1>8, SoleMoves

LEMMA RowsClear ==
  ASSUME IInv, Undisturbed, NEW t \in Task, EnsureRow(t)
  PROVE  Undisturbed'
<1>1. PICK kind \in RowKind : Look(t, kind) \/ Insert(t, kind) \/ Seen(t, kind)
  BY Zenon, RowForms
<1>2. TypeOK /\ calls[t].at # "idle" /\ disturbed' = disturbed /\ Current(t).kind \in RowKind
  BY Zenon, <1>1 DEF IInv, Look, Insert, Seen, At
<1>3. Current(t).kind \notin {"client", "device"}
  BY Zenon, <1>2 DEF RowKind
<1>4. CASE Advance(t)
  BY Zenon, <1>2, <1>4, AdvanceClear
<1>5. CASE Goto(t, "insert") /\ Current(t) \notin rows /\ rows' = rows
  BY Zenon, <1>2, <1>3, <1>5, GotoClear
<1>6. CASE Goto(t, "failed") /\ calls[t].at = "insert" /\ Current(t) \in rows
  BY Zenon, <1>2, <1>6, GotoClear DEF Clear, Current
<1> QED BY Zenon, <1>1, <1>4, <1>5, <1>6 DEF Look, Insert, Seen, At, db

LEMMA ClientsClear ==
  ASSUME IInv, Undisturbed, NEW t \in Task,
         \/ ensure_client(t) \/ update_client(t)
         \/ create_client(t) \/ ensure_entity_master_key(t)
  PROVE  Undisturbed'
<1>1. TypeOK /\ calls[t].at # "idle" /\ disturbed' = disturbed /\ Current(t).kind = "client"
  BY Zenon DEF IInv, ensure_client, update_client, create_client, ensure_entity_master_key, At
<1>2. Current(t).kind \notin RowKind \cup {"device"}
  BY Zenon, <1>1 DEF RowKind
<1>3. CASE Advance(t)
  BY Zenon, <1>1, <1>3, AdvanceClear
<1>4. CASE \E p \in {"update", "master", "index"} : Goto(t, p)
  BY Zenon, <1>1, <1>4, GotoClear
<1>5. CASE Goto(t, "insert") /\ clients' = clients /\ clients[Current(t).of] = None
  BY Zenon, <1>1, <1>2, <1>5, GotoClear
<1>6. CASE Goto(t, "failed") /\ calls[t].at = "insert" /\ clients[Current(t).of] # None
  BY Zenon, <1>1, <1>6, GotoClear DEF Clear, Current
<1> QED BY Zenon, <1>3, <1>4, <1>5, <1>6
        DEF ensure_client, update_client, create_client, ensure_entity_master_key, At, db

LEMMA KeysClear ==
  ASSUME IInv, Undisturbed, NEW t \in Task,
         \/ ensure_active_key(t) \/ read_index(t)
         \/ insert_key(t) \/ ensure_derivation_path(t)
  PROVE  Undisturbed'
<1>1. TypeOK /\ calls[t].at # "idle" /\ disturbed' = disturbed
  BY Zenon DEF IInv, ensure_active_key, read_index, insert_key, ensure_derivation_path, At
<1>2. CASE Advance(t)
  BY Zenon, <1>1, <1>2, AdvanceClear
<1>3. CASE \E p \in {"index", "derive"} : Goto(t, p)
  BY Zenon, <1>1, <1>3, GotoClear
<1>4. CASE Goto(t, "failed") /\ calls[t].at = "store" /\ calls[t].index \in UsedIndex
  BY Zenon, <1>1, <1>4, GotoClear DEF Clear
<1>5. CASE read_index(t)
  <2>1. PICK i \in derivation_index :
          calls' = [calls EXCEPT ![t] = [@ EXCEPT !.at = "store", !.index = i]]
    BY Zenon, <1>5 DEF read_index
  <2>2. UsedIndex \subseteq Nat /\ i \notin UsedIndex
    BY <2>1 DEF IInv, TypeOK, derivation_index, UsedIndex
  <2>3. PICK b \in Call : b = calls[t]
    BY Zenon DEF IInv, TypeOK
  <2>4. PICK c : c = [b EXCEPT !.at = "store", !.index = i]
    BY Zenon
  <2>5. c = [at |-> "store", pc |-> b.pc, user |-> b.user, index |-> i]
    BY ZenonT(60), <2>4 DEF Call
  <2>6. calls' = [calls EXCEPT ![t] = c]
    BY ZenonT(60), <2>1, <2>3, <2>4
  <2>7. calls'[t] = c /\ \A s \in Task \ {t} : calls'[s] = calls[s]
    BY Zenon, <2>6 DEF IInv, TypeOK
  <2>8. UsedIndex' = UsedIndex
    BY ZenonT(60), <1>5 DEF read_index, db, UsedIndex
  <2>9. Clear(calls[t])'
    BY SMTT(30), <2>2, <2>5, <2>7, <2>8 DEF Clear
  <2> QED BY Zenon, <1>1, <2>7, <2>9, SoleMoves
<1> QED BY Zenon, <1>2, <1>3, <1>4, <1>5
        DEF ensure_active_key, insert_key, ensure_derivation_path, At

LEMMA DevicesClear ==
  ASSUME IInv, Undisturbed, NEW t \in Task, ensure_bootstrap_device(t) \/ create_device(t)
  PROVE  Undisturbed'
<1>1. TypeOK /\ calls[t].at # "idle" /\ disturbed' = disturbed /\ Current(t).kind = "device"
  BY Zenon DEF IInv, ensure_bootstrap_device, create_device, At
<1>2. Current(t).kind \notin RowKind \cup {"client"}
  BY Zenon, <1>1 DEF RowKind
<1>3. CASE Advance(t)
  BY Zenon, <1>1, <1>3, AdvanceClear
<1>4. CASE Goto(t, "insert") /\ devices = {} /\ devices' = devices
  BY Zenon, <1>1, <1>2, <1>4, GotoClear
<1>5. CASE Goto(t, "failed") /\ calls[t].at = "insert" /\ devices # {}
  BY Zenon, <1>1, <1>5, GotoClear DEF Clear, Current
<1> QED BY Zenon, <1>3, <1>4, <1>5 DEF ensure_bootstrap_device, create_device, At, db

LEMMA OthersClear ==
  ASSUME IInv, Undisturbed, NEW t \in Task, has_any(t) \/ Fail(t) \/ Answer(t)
  PROVE  Undisturbed'
<1>1. TypeOK /\ calls[t].at # "idle"
  BY Zenon DEF IInv, has_any, Fail, Answer, Working, Answered
<1>2. CASE has_any(t)
  BY Zenon, <1>1, <1>2, GotoClear DEF has_any
<1>3. CASE Fail(t)
  <2>1. t \in disturbed' /\ disturbed \subseteq disturbed' /\ \A s \in Task \ {t} : calls'[s] = calls[s]
    BY Zenon, <1>1, <1>3 DEF Fail, Goto, TypeOK
  <2> QED BY Zenon, <1>1, <2>1, SoleMoves
<1>4. CASE Answer(t)
  <2>1. /\ calls'[t].at = "idle" /\ disturbed \ {t} \subseteq disturbed'
        /\ \A s \in Task \ {t} : calls'[s] = calls[s]
    BY Zenon, <1>1, <1>4 DEF Answer, Idle, TypeOK
  <2> QED BY Zenon, <1>1, <2>1, SoleMoves
<1> QED BY Zenon, <1>2, <1>3, <1>4

LEMMA CreateClear ==
  ASSUME IInv, Undisturbed, NEW t \in Task, NEW u \in User, create_system(t, u)
  PROVE  Undisturbed'
<1>1. /\ calls'[t].at = "guard"
      /\ \A s \in Task \ {t} : calls'[s] = calls[s]
  BY Zenon DEF create_system, IInv, TypeOK
<1>2. Clear(calls[t])'
  BY Zenon, <1>1 DEF Clear
<1>3. CASE \A s \in Task : calls[s].at = "idle"
  BY Zenon, <1>1, <1>2, <1>3 DEF Undisturbed
<1>4. CASE ~\A s \in Task : calls[s].at = "idle"
  <2>1. disturbed' = {s \in Task : calls[s].at # "idle"} \cup {t}
    BY Zenon, <1>4 DEF create_system
  <2>2. \A r \in Task \ disturbed' : calls'[r].at = "idle"
    BY Zenon, <1>1, <2>1
  <2> QED BY Zenon, <2>2 DEF Undisturbed
<1> QED BY Zenon, <1>3, <1>4

LEMMA ProcessClear ==
  ASSUME IInv, Undisturbed, run \/ Exit \/ reset_device \/ Erase
  PROVE  Undisturbed'
<1>1. CASE \A t \in Task : calls'[t].at = "idle"
  BY Zenon, <1>1 DEF Undisturbed
<1>2. CASE \E t \in Task : calls'[t].at # "idle"
  <2>1. ~Exit
    BY <1>2 DEF Exit, Idle
  <2>2. calls' = calls
    BY Zenon, <2>1 DEF run, reset_device, Erase, delete_device_identity, remove_local_reset_data
  <2>3. app \in {"setup", "closing"} /\ \E t \in Task : calls[t].at # "idle"
    BY ZenonT(60), <1>2, <2>2 DEF IInv, CallOK
  <2>4. reset_device /\ app = "setup"
    BY Zenon, <2>1, <2>3 DEF run, reset_device, Erase, delete_device_identity,
                      remove_local_reset_data
  <2>5. /\ rows' = rows /\ clients' = clients /\ keys' = keys /\ devices' = devices
        /\ disturbed' = disturbed
    BY Zenon, <2>4 DEF reset_device
  <2> QED BY Zenon, <2>2, <2>5 DEF Undisturbed, Clear, UsedIndex
<1> QED BY Zenon, <1>1, <1>2

\* Whatever earlier attempts, by whichever administrators, have left, a request
\* that meets no error and no other request is never answered with a failure,
\* and one is refused only where the baseline has come as far as the device row.
THEOREM RetriesDecided == Spec => []RetryOutcome
<1>1. Init => Undisturbed
  BY DEF Init, Undisturbed, Idle
<1>2. IInv /\ Undisturbed /\ [Next]_vars => Undisturbed'
  <2> SUFFICES ASSUME IInv, Undisturbed, [Next]_vars PROVE Undisturbed'
    BY Zenon
  <2>1. CASE UNCHANGED vars
    BY Zenon, <2>1 DEF Undisturbed, Clear, UsedIndex, vars, db
  <2>2. ASSUME NEW t \in Task, NEW u \in User, create_system(t, u) PROVE Undisturbed'
    BY Zenon, <2>2, CreateClear
  <2>3. ASSUME NEW t \in Task, Progress(t) \/ Fail(t) PROVE Undisturbed'
    BY Zenon, <2>3, RowsClear, ClientsClear, KeysClear, DevicesClear, OthersClear DEF Progress
  <2>4. CASE run \/ Exit \/ reset_device \/ Erase
    BY Zenon, <2>4, ProcessClear
  <2> QED BY Zenon, <2>1, <2>2, <2>3, <2>4 DEF Next
<1>3. IInv /\ Undisturbed => RetryOutcome
  BY ZenonT(60) DEF Undisturbed, Clear, RetryOutcome, IInv, CallOK, DevicesBacked
<1> QED BY <1>1, <1>2, <1>3, SetupInvariance, PTL DEF Spec

-----------------------------------------------------------------------------
(* The localhost server                                                    *)

\* A file was written to its end.
Whole(f) == disk[f].is = "whole"

\* Places in ensure_localhost_certificate, from the first check of each file on.
Trusting == {"trust", "install", "writeMarker"}
Certifying == {"certificate", "writeDer", "writeKey", "writePem"} \cup Trusting
Certified == {"writeCaDer"} \cup Certifying
Authorized == {"caCertificate", "writeCaPem"} \cup Certified
Ensuring == {"caKey", "writeCaKey"} \cup Authorized
Unmarked == Ensuring \ {"writeMarker"}

Start == [round : {1, 2}, router : {"normal", "setup"}, ca : 0 .. MaxPairs,
          pair : 0 .. MaxPairs, new : BOOLEAN]

Started ==
  /\ at \in Ensuring \cup {"down", "serve", "verify", "invalidate", "window", "failed"}
  /\ start \in Start
  /\ at \in {"down", "serve", "invalidate"} => start.round = 1
  /\ fault \in BOOLEAN /\ distrusted \in BOOLEAN

\* What every start finds, whatever ended the starts before it.
DiskOK ==
  /\ DOMAIN disk = File
  /\ Whole("caPem") => Whole("caKey") /\ disk["caPem"].value = disk["caKey"].value
  /\ Whole("der") => Whole("caKey") /\ disk["der"].value.ca = disk["caKey"].value
  /\ Exists("pem") => Whole("der") /\ Whole("key") /\ disk["der"].value.pair = disk["key"].value
  /\ Exists("marker") => Whole("caKey") /\ Exists("caPem") /\ Exists("caDer")

\* What has been made sure of where the process is.
EnsuredOK ==
  /\ at = "writeCaKey" => disk["caKey"] = Absent /\ start.ca \in Pair
  /\ at \in Authorized => Whole("caKey") /\ start.ca = disk["caKey"].value
  /\ at \in Certified => Exists("caPem")
  /\ at \in Certifying => Exists("caDer")
  /\ at \in {"writeDer", "writeKey", "writePem"} => disk["pem"] = Absent /\ start.pair \in Pair
  /\ at \in {"writeKey", "writePem"} => Whole("der") /\ disk["der"].value.pair = start.pair
  /\ at = "writePem" => Whole("key") /\ disk["key"].value = start.pair
  /\ at \in Trusting \cup {"serve"} => Exists("pem")

\* The marker is looked for after everything that sets new, and is gone in round two.
MarkerOK ==
  /\ at = "install" => disk["marker"] = Absent
  /\ (at \in Unmarked /\ (start.new \/ start.round = 2)) => disk["marker"] = Absent
  /\ (Exists("marker") \/ at = "writeMarker") =>
       distrusted \/ disk["caKey"].value \in trusted \cup browsers

\* From the first check of the server on, it serves what the authority on disk signed.
ServedOK ==
  /\ (at \in {"verify", "invalidate"} \/ (start.round = 2 /\ at \in Ensuring)) =>
       /\ Whole("caKey") /\ Exists("pem")
       /\ serving.is = "whole" /\ serving.value.ca = disk["caKey"].value
  /\ (start.round = 2 /\ at \in {"writeMarker", "verify"}) =>
       fault \/ disk["caKey"].value \in trusted

PairsOK ==
  start.round = 1 =>
    /\ at = "caKey" => pairs + 2 =< MaxPairs
    /\ at \in {"writeCaKey", "caCertificate", "writeCaPem", "writeCaDer", "certificate"} =>
         pairs + 1 =< MaxPairs

ClosingOK ==
  /\ open \in Nat
  /\ at # "window" => open = 0 /\ \A c \in Closer : closers[c] = "idle"
  /\ \A c \in Closer : closers[c] \in {"drain", "done"} => serving = Closed
  /\ serving = Closed => open = 0 \/ \E c \in Closer : closers[c] = "drain"
  /\ ExitAfterDrain

DesktopInv ==
  /\ DesktopTypeOK /\ Started /\ DiskOK /\ EnsuredOK /\ MarkerOK /\ ServedOK /\ PairsOK
  /\ FailureHasCause /\ ClosingOK

FilesOK ==
  /\ \A f \in {"caKey", "caPem", "caDer", "key", "pem"} : disk[f] \in Contents(Pair)
  /\ disk["der"] \in Contents(Certificate)
  /\ disk["marker"] \in Contents({0})

RestOK ==
  /\ trusted \subseteq Pair /\ browsers \subseteq Pair
  /\ pairs \in 0 .. MaxPairs
  /\ serving \in Contents(Certificate) \cup {Closed}
  /\ closers \in [Closer -> {"idle", "lock", "drain", "done"}]

LEMMA TypeParts == Started => (DesktopTypeOK <=> FilesOK /\ RestOK)
BY Zenon DEF Started, Start, DesktopTypeOK, FilesOK, RestOK

LEMMA FreshIs == Fresh \in Start /\ Fresh.round = 1
<1>1. 0 \in 0 .. MaxPairs BY DesktopAssumption
<1>. QED BY <1>1, Zenon DEF Fresh, Start

LEMMA FileIs ==
  /\ Absent.is = "absent" /\ Torn.is = "torn" /\ Closed.is = "closed"
  /\ \A x : Holding(x).is = "whole" /\ Holding(x).value = x
BY Zenon DEF Absent, Torn, Closed, Holding

LEMMA FilesDiffer ==
  /\ Absent # Torn /\ Closed # Absent /\ Closed # Torn
  /\ \A x : Holding(x) # Absent /\ Holding(x) # Torn /\ Holding(x) # Closed
BY Zenon, FileIs

LEMMA ContentsAre ==
  ASSUME NEW S, NEW v \in Contents(S)
  PROVE v = Absent \/ v = Torn \/ (v.is = "whole" /\ v.value \in S /\ v # Absent /\ v # Torn)
BY FileIs DEF Contents

LEMMA ContentsHave ==
  ASSUME NEW S
  PROVE Absent \in Contents(S) /\ Torn \in Contents(S) /\ \A x \in S : Holding(x) \in Contents(S)
BY Zenon DEF Contents

LEMMA WholeExists ==
  ASSUME NEW f, Whole(f)
  PROVE Exists(f) /\ disk[f] # Torn
BY Zenon, FileIs DEF Whole, Exists

LEMMA DesktopInitInv == DesktopInit => DesktopInv
<1>. SUFFICES ASSUME DesktopInit PROVE DesktopInv BY Zenon
<1>1. /\ DOMAIN disk = File /\ \A f \in File : disk[f] = Absent /\ ~Whole(f) /\ ~Exists(f)
  BY Zenon, FileIs DEF DesktopInit, Whole, Exists
<1>2. at = "down" /\ start = Fresh /\ pairs = 0 /\ serving = Absent /\ open = 0
      /\ trusted = {} /\ browsers = {}
      /\ fault = FALSE /\ distrusted = FALSE /\ closers = [c \in Closer |-> "idle"]
  BY Zenon DEF DesktopInit
<1>3. Started BY Zenon, <1>2, FreshIs DEF Started
<1>4. FilesOK BY Zenon, <1>1, ContentsHave DEF FilesOK, File
<1>5. RestOK BY <1>2, DesktopAssumption, ContentsHave DEF RestOK
<1>6. DesktopTypeOK BY <1>3, <1>4, <1>5, TypeParts, Zenon
<1>7. DiskOK BY Zenon, <1>1 DEF DiskOK, File
<1>8. EnsuredOK BY Zenon, <1>2 DEF EnsuredOK, Authorized, Certified, Certifying, Trusting
<1>9. MarkerOK
  BY Zenon, <1>1, <1>2 DEF MarkerOK, File, Unmarked, Ensuring, Authorized, Certified,
        Certifying, Trusting
<1>10. ServedOK
  BY Zenon, <1>2 DEF ServedOK, Ensuring, Authorized, Certified, Certifying, Trusting
<1>11. PairsOK BY Zenon, <1>2 DEF PairsOK
<1>12. FailureHasCause BY Zenon, <1>2 DEF FailureHasCause
<1>13. ClosingOK BY Zenon, <1>2, FilesDiffer DEF ClosingOK, ExitAfterDrain
<1>. QED BY <1>3, <1>6, <1>7, <1>8, <1>9, <1>10, <1>11, <1>12, <1>13, Zenon DEF DesktopInv

-----------------------------------------------------------------------------
(* What steps of several kinds have in common *)

\* Nothing but an open window can be closed.
LEMMA ClosingKept ==
  ASSUME ClosingOK, at # "window", UNCHANGED running
  PROVE ClosingOK'
<1>1. serving' = serving /\ open' = open /\ closers' = closers BY Zenon DEF running
<1>2. open = 0 /\ \A c \in Closer : closers[c] = "idle" BY Zenon DEF ClosingOK
<1>. QED BY Zenon, <1>1, <1>2 DEF ClosingOK, ExitAfterDrain

LEMMA ClosingGone ==
  ASSUME Gone PROVE ClosingOK'
BY Zenon, FilesDiffer DEF Gone, ClosingOK, ExitAfterDrain

LEMMA DiskKept == ASSUME DiskOK, disk' = disk PROVE DiskOK'
BY Zenon DEF DiskOK, Whole, Exists

LEMMA FilesKept == ASSUME FilesOK, disk' = disk PROVE FilesOK'
BY Zenon DEF FilesOK

\* The process is down: nothing is under way.
LEMMA DownOK ==
  ASSUME Gone, fault' = FALSE, distrusted' \in BOOLEAN
  PROVE Started' /\ EnsuredOK' /\ ServedOK' /\ PairsOK' /\ FailureHasCause'
<1>1. at' = "down" /\ start' = Fresh BY Zenon DEF Gone
<1>2. Started' BY Zenon, <1>1, FreshIs DEF Started
<1>3. EnsuredOK' BY Zenon, <1>1 DEF EnsuredOK, Authorized, Certified, Certifying, Trusting
<1>4. ServedOK'
  BY Zenon, <1>1 DEF ServedOK, Ensuring, Authorized, Certified, Certifying, Trusting
<1>5. PairsOK' BY Zenon, <1>1 DEF PairsOK
<1>6. FailureHasCause' BY Zenon, <1>1 DEF FailureHasCause
<1>. QED BY Zenon, <1>2, <1>3, <1>4, <1>5, <1>6

\* The process writes file f: where it is, what it writes and where it goes.
Writing(f, v, next) ==
  \/ at = "writeCaKey" /\ f = "caKey" /\ v = start.ca /\ next = "caCertificate"
  \/ at = "writeCaPem" /\ f = "caPem" /\ v = start.ca /\ next = "writeCaDer"
  \/ at = "writeCaDer" /\ f = "caDer" /\ v = start.ca /\ next = "certificate"
  \/ at = "writeDer" /\ f = "der" /\ v = [pair |-> start.pair, ca |-> start.ca]
       /\ next = "writeKey"
  \/ at = "writeKey" /\ f = "key" /\ v = start.pair /\ next = "writePem"
  \/ at = "writePem" /\ f = "pem" /\ v = start.pair /\ next = "trust"
  \/ at = "writeMarker" /\ f = "marker" /\ v = 0 /\ next = AfterEnsure

LEMMA WritesAre ==
  ASSUME at \in DOMAIN Writes
  PROVE Writing(Writes[at].file, Writes[at].value, Writes[at].next)
<1>1. at \in {"writeCaKey", "writeCaPem", "writeCaDer", "writeDer", "writeKey", "writePem",
              "writeMarker"}
  BY Zenon DEF Writes
<1>2. CASE at = "writeCaKey" BY Zenon, <1>2 DEF Writes, Writing
<1>3. CASE at = "writeCaPem" BY Zenon, <1>3 DEF Writes, Writing
<1>4. CASE at = "writeCaDer" BY Zenon, <1>4 DEF Writes, Writing
<1>5. CASE at = "writeDer" BY Zenon, <1>5 DEF Writes, Writing
<1>6. CASE at = "writeKey" BY Zenon, <1>6 DEF Writes, Writing
<1>7. CASE at = "writePem" BY Zenon, <1>7 DEF Writes, Writing
<1>8. CASE at = "writeMarker" BY Zenon, <1>8 DEF Writes, Writing
<1>. QED BY Zenon, <1>1, <1>2, <1>3, <1>4, <1>5, <1>6, <1>7, <1>8

\* A write to file f leaves the other files alone.
LEMMA OneFile ==
  ASSUME DiskOK, NEW f \in File, NEW x, disk' = [disk EXCEPT ![f] = x]
  PROVE /\ DOMAIN disk' = File /\ disk'[f] = x
        /\ \A g \in File : g # f => disk'[g] = disk[g] /\ Whole(g)' = Whole(g)
                                    /\ Exists(g)' = Exists(g)
BY Zenon DEF DiskOK, Whole, Exists

LEMMA InvParts ==
  ASSUME DesktopInv
  PROVE FilesOK /\ RestOK /\ Started /\ DiskOK /\ EnsuredOK /\ MarkerOK /\ ServedOK /\ PairsOK
        /\ FailureHasCause /\ ClosingOK
BY TypeParts, Zenon DEF DesktopInv

LEMMA InvOf ==
  ASSUME FilesOK', RestOK', Started', DiskOK', EnsuredOK', MarkerOK', ServedOK', PairsOK',
         FailureHasCause', ClosingOK'
  PROVE DesktopInv'
<1>1. DesktopTypeOK' BY Zenon DEF Started, Start, DesktopTypeOK, FilesOK, RestOK
<1>. QED BY <1>1, Zenon DEF DesktopInv

-----------------------------------------------------------------------------
(* The start *)

LEMMA LaunchStep ==
  ASSUME DesktopInv, Launch PROVE DesktopInv'
<1>0. FilesOK /\ RestOK /\ Started /\ DiskOK /\ MarkerOK /\ ClosingOK BY InvParts, Zenon
<1>1. /\ at = "down" /\ at' = "caKey" /\ pairs + 2 =< MaxPairs /\ fault' = FALSE
      /\ disk' = disk /\ trusted' = trusted /\ browsers' = browsers /\ pairs' = pairs
      /\ UNCHANGED running /\ distrusted' = distrusted
  BY Zenon DEF Launch, stores
<1>2. PICK r \in {"normal", "setup"} : start' = [Fresh EXCEPT !.router = r] BY Zenon DEF Launch
<1>3. start' \in Start BY Zenon, <1>2, FreshIs DEF Start
<1>4. start'.round = 1 /\ start'.new = FALSE BY Zenon, <1>2 DEF Fresh
<1>5. Started'
  BY Zenon, <1>0, <1>1, <1>3 DEF Started, Ensuring, Authorized, Certified, Certifying, Trusting
<1>6. FilesOK' /\ DiskOK' BY <1>0, <1>1, DiskKept, FilesKept, Zenon
<1>7. RestOK' BY Zenon, <1>0, <1>1 DEF RestOK, running
<1>8. EnsuredOK' BY Zenon, <1>1 DEF EnsuredOK, Authorized, Certified, Certifying, Trusting
<1>9. MarkerOK' BY <1>0, <1>1, <1>4 DEF MarkerOK, Exists
<1>10. ServedOK' BY <1>1, <1>4 DEF ServedOK
<1>11. PairsOK' BY Zenon, <1>1 DEF PairsOK
<1>12. FailureHasCause' BY Zenon, <1>1 DEF FailureHasCause
<1>13. ClosingOK' BY Zenon, <1>0, <1>1, ClosingKept
<1>. QED BY <1>5, <1>6, <1>7, <1>8, <1>9, <1>10, <1>11, <1>12, <1>13, InvOf, Zenon

LEMMA LoadOrCreateCaStep ==
  ASSUME DesktopInv, LoadOrCreateCa PROVE DesktopInv'
<1>0. FilesOK /\ RestOK /\ Started /\ DiskOK /\ MarkerOK /\ ServedOK /\ PairsOK /\ ClosingOK
  BY InvParts, Zenon
<1>1. /\ at = "caKey"
      /\ disk' = disk /\ trusted' = trusted /\ browsers' = browsers
      /\ UNCHANGED running /\ distrusted' = distrusted /\ fault' = fault
  BY Zenon DEF LoadOrCreateCa, stores, history
<1>2. start \in Start BY Zenon, <1>0 DEF Started
<1>3. FilesOK' /\ DiskOK' /\ ClosingOK' BY Zenon, <1>0, <1>1, DiskKept, FilesKept, ClosingKept
<1>4. serving' = serving /\ closers' = closers BY Zenon, <1>1 DEF running
<1>5. CASE disk["caKey"] = Torn
  <2>1. at' = "failed" /\ start' = start /\ pairs' = pairs
    BY Zenon, <1>5, FilesDiffer DEF LoadOrCreateCa, Exists
  <2>2. Started' BY Zenon, <1>0, <1>1, <2>1 DEF Started
  <2>3. RestOK' BY Zenon, <1>0, <1>1, <1>4, <2>1 DEF RestOK
  <2>4. EnsuredOK' BY Zenon, <2>1 DEF EnsuredOK, Authorized, Certified, Certifying, Trusting
  <2>5. MarkerOK'
    BY Zenon, <1>0, <1>1, <2>1 DEF MarkerOK, Exists, Unmarked, Ensuring, Authorized, Certified,
       Certifying, Trusting
  <2>6. ServedOK'
    BY Zenon, <2>1 DEF ServedOK, Ensuring, Authorized, Certified, Certifying, Trusting
  <2>7. PairsOK' BY Zenon, <2>1 DEF PairsOK
  <2>8. FailureHasCause' BY Zenon, <1>1, <1>5 DEF FailureHasCause
  <2>. QED BY <1>3, <2>2, <2>3, <2>4, <2>5, <2>6, <2>7, <2>8, InvOf, Zenon
<1>6. CASE Exists("caKey") /\ disk["caKey"] # Torn
  <2>1. at' = "caCertificate" /\ start' = [start EXCEPT !.ca = disk["caKey"].value]
        /\ pairs' = pairs
    BY Zenon, <1>6 DEF LoadOrCreateCa
  <2>2. Whole("caKey") /\ disk["caKey"].value \in Pair
    BY Zenon, <1>0, <1>6, ContentsAre DEF FilesOK, Exists, Whole
  <2>3. start' \in Start BY <1>2, <2>1, <2>2 DEF Start, Pair
  <2>4. start'.ca = disk["caKey"].value /\ start'.round = start.round /\ start'.new = start.new
    BY Zenon, <1>2, <2>1 DEF Start
  <2>5. Started'
    BY Zenon, <1>0, <1>1, <2>1, <2>3 DEF Started, Ensuring, Authorized, Certified, Certifying,
       Trusting
  <2>6. RestOK' BY Zenon, <1>0, <1>1, <1>4, <2>1 DEF RestOK
  <2>7. EnsuredOK'
    BY Zenon, <1>1, <2>1, <2>2, <2>4
    DEF EnsuredOK, Whole, Authorized, Certified, Certifying, Trusting
  <2>8. MarkerOK'
    BY Zenon, <1>0, <1>1, <2>1, <2>4 DEF MarkerOK, Exists, Unmarked, Ensuring, Authorized,
       Certified,
       Certifying, Trusting
  <2>9. ServedOK'
    BY Zenon, <1>0, <1>1, <1>4, <2>1, <2>4 DEF ServedOK, Whole, Exists, Ensuring, Authorized,
       Certified, Certifying, Trusting
  <2>10. PairsOK' BY <1>0, <1>1, <2>1, <2>4, DesktopAssumption DEF PairsOK, RestOK
  <2>11. FailureHasCause' BY Zenon, <2>1 DEF FailureHasCause
  <2>. QED BY <1>3, <2>5, <2>6, <2>7, <2>8, <2>9, <2>10, <2>11, InvOf, Zenon
<1>7. CASE ~Exists("caKey")
  <2>1. at' = "writeCaKey" /\ start' = [start EXCEPT !.ca = pairs + 1, !.new = TRUE]
        /\ pairs' = pairs + 1
    BY Zenon, <1>7 DEF LoadOrCreateCa
  <2>2. disk["caKey"] = Absent /\ ~Whole("caKey") BY Zenon, <1>7, FileIs DEF Exists, Whole
  <2>3. start.round = 1
    BY Zenon, <1>0, <1>1, <1>2, <2>2 DEF ServedOK, Start, Ensuring, Authorized, Certified,
       Certifying,
       Trusting
  <2>4. pairs + 2 =< MaxPairs /\ pairs \in Nat /\ MaxPairs \in Nat
    BY <1>0, <1>1, <2>3, DesktopAssumption DEF PairsOK, RestOK
  <2>5. pairs + 1 \in 0 .. MaxPairs /\ pairs + 1 \in Pair /\ pairs + 1 + 1 =< MaxPairs
    BY <2>4 DEF Pair
  <2>6. start' \in Start
    <3>1. TRUE \in BOOLEAN BY Zenon
    <3>. QED BY <1>2, <2>1, <2>5, Zenon DEF Start
  <2>7. start'.ca = pairs + 1 /\ start'.round = 1
    BY Zenon, <1>2, <2>1, <2>3 DEF Start
  <2>8. Started'
    BY Zenon, <1>0, <1>1, <2>1, <2>6 DEF Started, Ensuring, Authorized, Certified, Certifying,
       Trusting
  <2>9. RestOK' BY Zenon, <1>0, <1>1, <1>4, <2>1, <2>5 DEF RestOK
  <2>10. EnsuredOK'
    BY Zenon, <1>1, <2>1, <2>2, <2>5, <2>7 DEF EnsuredOK, Authorized, Certified, Certifying,
       Trusting
  <2>11. disk["marker"] = Absent BY Zenon, <1>0, <2>2 DEF DiskOK, Exists
  <2>12. MarkerOK' BY Zenon, <1>1, <2>1, <2>11 DEF MarkerOK, Exists
  <2>13. ServedOK' BY <2>1, <2>7 DEF ServedOK
  <2>14. PairsOK' BY Zenon, <2>1, <2>5 DEF PairsOK
  <2>15. FailureHasCause' BY Zenon, <2>1 DEF FailureHasCause
  <2>. QED BY <1>3, <2>8, <2>9, <2>10, <2>12, <2>13, <2>14, <2>15, InvOf, Zenon
<1>. QED BY Zenon, <1>5, <1>6, <1>7

LEMMA EnsureCaCertificateStep ==
  ASSUME DesktopInv, EnsureCaCertificate PROVE DesktopInv'
<1>0. FilesOK /\ RestOK /\ Started /\ DiskOK /\ EnsuredOK /\ MarkerOK /\ ServedOK /\ PairsOK
      /\ ClosingOK
  BY InvParts, Zenon
<1>1. /\ at = "caCertificate"
      /\ disk' = disk /\ trusted' = trusted /\ browsers' = browsers /\ pairs' = pairs
      /\ UNCHANGED running /\ distrusted' = distrusted /\ fault' = fault
  BY Zenon DEF EnsureCaCertificate, stores, history
<1>2. start \in Start BY Zenon, <1>0 DEF Started
<1>3. FilesOK' /\ DiskOK' /\ ClosingOK' BY Zenon, <1>0, <1>1, DiskKept, FilesKept, ClosingKept
<1>4. serving' = serving /\ closers' = closers BY Zenon, <1>1 DEF running
<1>5. Whole("caKey") /\ start.ca = disk["caKey"].value
  BY Zenon, <1>0, <1>1 DEF EnsuredOK, Authorized
<1>6. RestOK' BY Zenon, <1>0, <1>1, <1>4 DEF RestOK
<1>7. CASE Exists("caPem") /\ Exists("caDer")
  <2>1. at' = "certificate" /\ start' = start BY <1>7, Zenon DEF EnsureCaCertificate
  <2>2. Started'
    BY Zenon, <1>0, <1>1, <2>1 DEF Started, Ensuring, Authorized, Certified, Certifying,
       Trusting
  <2>3. EnsuredOK'
    BY Zenon, <1>1, <1>5, <1>7, <2>1
    DEF EnsuredOK, Whole, Exists, Authorized, Certified, Certifying, Trusting
  <2>4. MarkerOK'
    BY Zenon, <1>0, <1>1, <2>1 DEF MarkerOK, Exists, Unmarked, Ensuring, Authorized, Certified,
       Certifying, Trusting
  <2>5. ServedOK'
    BY Zenon, <1>0, <1>1, <1>4, <2>1 DEF ServedOK, Whole, Exists, Ensuring, Authorized,
       Certified, Certifying, Trusting
  <2>6. PairsOK' BY Zenon, <1>0, <1>1, <2>1 DEF PairsOK
  <2>7. FailureHasCause' BY Zenon, <2>1 DEF FailureHasCause
  <2>. QED BY <1>3, <1>6, <2>2, <2>3, <2>4, <2>5, <2>6, <2>7, InvOf, Zenon
<1>8. CASE ~(Exists("caPem") /\ Exists("caDer"))
  <2>1. at' = "writeCaPem" /\ start' = [start EXCEPT !.new = TRUE]
    BY <1>8, Zenon DEF EnsureCaCertificate
  <2>2. start' \in Start
    <3>1. TRUE \in BOOLEAN BY Zenon
    <3>. QED BY <3>1, <1>2, <2>1, Zenon DEF Start
  <2>3. start'.ca = start.ca /\ start'.round = start.round BY Zenon, <1>2, <2>1 DEF Start
  <2>4. Started'
    BY Zenon, <1>0, <1>1, <2>1, <2>2 DEF Started, Ensuring, Authorized, Certified, Certifying,
       Trusting
  <2>5. EnsuredOK'
    BY Zenon, <1>1, <1>5, <2>1, <2>3 DEF EnsuredOK, Whole, Authorized, Certified, Certifying,
       Trusting
  <2>6. disk["marker"] = Absent BY Zenon, <1>0, <1>8 DEF DiskOK, Exists
  <2>7. MarkerOK' BY Zenon, <1>1, <2>1, <2>6 DEF MarkerOK, Exists
  <2>8. ServedOK'
    BY Zenon, <1>0, <1>1, <1>4, <2>1, <2>3 DEF ServedOK, Whole, Exists, Ensuring, Authorized,
       Certified, Certifying, Trusting
  <2>9. PairsOK' BY Zenon, <1>0, <1>1, <2>1, <2>3 DEF PairsOK
  <2>10. FailureHasCause' BY Zenon, <2>1 DEF FailureHasCause
  <2>. QED BY <1>3, <1>6, <2>4, <2>5, <2>7, <2>8, <2>9, <2>10, InvOf, Zenon
<1>. QED BY Zenon, <1>7, <1>8

LEMMA LoadOrCreateCertificateStep ==
  ASSUME DesktopInv, LoadOrCreateCertificate PROVE DesktopInv'
<1>0. FilesOK /\ RestOK /\ Started /\ DiskOK /\ EnsuredOK /\ MarkerOK /\ ServedOK /\ PairsOK
      /\ ClosingOK
  BY InvParts, Zenon
<1>1. /\ at = "certificate"
      /\ disk' = disk /\ trusted' = trusted /\ browsers' = browsers
      /\ UNCHANGED running /\ distrusted' = distrusted /\ fault' = fault
  BY Zenon DEF LoadOrCreateCertificate, stores, history
<1>2. start \in Start BY Zenon, <1>0 DEF Started
<1>3. FilesOK' /\ DiskOK' /\ ClosingOK' BY Zenon, <1>0, <1>1, DiskKept, FilesKept, ClosingKept
<1>4. serving' = serving /\ closers' = closers BY Zenon, <1>1 DEF running
<1>5. Whole("caKey") /\ start.ca = disk["caKey"].value /\ Exists("caPem") /\ Exists("caDer")
  BY Zenon, <1>0, <1>1 DEF EnsuredOK, Authorized, Certified, Certifying
<1>6. CASE Exists("der") /\ Exists("key") /\ Exists("pem")
  <2>1. at' = "trust" /\ start' = start /\ pairs' = pairs
    BY <1>6, Zenon DEF LoadOrCreateCertificate
  <2>2. Started'
    BY Zenon, <1>0, <1>1, <2>1 DEF Started, Ensuring, Authorized, Certified, Certifying,
       Trusting
  <2>3. EnsuredOK'
    BY Zenon, <1>1, <1>5, <1>6, <2>1
    DEF EnsuredOK, Whole, Exists, Authorized, Certified, Certifying, Trusting
  <2>4. MarkerOK'
    BY Zenon, <1>0, <1>1, <2>1 DEF MarkerOK, Exists, Unmarked, Ensuring, Authorized, Certified,
       Certifying, Trusting
  <2>5. ServedOK'
    BY Zenon, <1>0, <1>1, <1>4, <2>1 DEF ServedOK, Whole, Exists, Ensuring, Authorized,
       Certified, Certifying, Trusting
  <2>6. PairsOK' BY Zenon, <2>1 DEF PairsOK
  <2>7. FailureHasCause' BY Zenon, <2>1 DEF FailureHasCause
  <2>8. RestOK' BY Zenon, <1>0, <1>1, <1>4, <2>1 DEF RestOK
  <2>. QED BY <1>3, <2>2, <2>3, <2>4, <2>5, <2>6, <2>7, <2>8, InvOf, Zenon
<1>7. CASE ~(Exists("der") /\ Exists("key") /\ Exists("pem"))
  <2>1. at' = "writeDer" /\ start' = [start EXCEPT !.pair = pairs + 1] /\ pairs' = pairs + 1
    BY Zenon, <1>7 DEF LoadOrCreateCertificate
  <2>2. disk["pem"] = Absent /\ ~Exists("pem")
    <3>1. ~Exists("pem") BY Zenon, <1>0, <1>7, WholeExists DEF DiskOK
    <3>. QED BY Zenon, <3>1 DEF Exists
  <2>3. start.round = 1
    BY Zenon, <1>0, <1>1, <1>2, <2>2 DEF ServedOK, Start, Ensuring, Authorized, Certified,
       Certifying,
       Trusting
  <2>4. pairs + 1 =< MaxPairs /\ pairs \in Nat /\ MaxPairs \in Nat
    BY <1>0, <1>1, <2>3, DesktopAssumption DEF PairsOK, RestOK
  <2>5. pairs + 1 \in 0 .. MaxPairs /\ pairs + 1 \in Pair BY <2>4 DEF Pair
  <2>6. start' \in Start BY <1>2, <2>1, <2>5, Zenon DEF Start
  <2>7. start'.pair = pairs + 1 /\ start'.round = 1 /\ start'.ca = start.ca
        /\ start'.new = start.new
    BY Zenon, <1>2, <2>1, <2>3 DEF Start
  <2>8. Started'
    BY Zenon, <1>0, <1>1, <2>1, <2>6 DEF Started, Ensuring, Authorized, Certified, Certifying,
       Trusting
  <2>9. RestOK' BY Zenon, <1>0, <1>1, <1>4, <2>1, <2>5 DEF RestOK
  <2>10. EnsuredOK'
    BY Zenon, <1>1, <1>5, <2>1, <2>2, <2>5, <2>7
    DEF EnsuredOK, Whole, Exists, Authorized, Certified, Certifying, Trusting
  <2>11. MarkerOK'
    BY <1>0, <1>1, <2>1, <2>7 DEF MarkerOK, Exists, Unmarked, Ensuring, Authorized, Certified,
       Certifying, Trusting
  <2>12. ServedOK' BY <2>1, <2>7 DEF ServedOK
  <2>13. PairsOK' BY Zenon, <2>1 DEF PairsOK
  <2>14. FailureHasCause' BY Zenon, <2>1 DEF FailureHasCause
  <2>. QED BY <1>3, <2>8, <2>9, <2>10, <2>11, <2>12, <2>13, <2>14, InvOf, Zenon
<1>. QED BY Zenon, <1>6, <1>7

LEMMA TrustStep ==
  ASSUME DesktopInv, Trust PROVE DesktopInv'
<1>0. FilesOK /\ RestOK /\ Started /\ DiskOK /\ EnsuredOK /\ MarkerOK /\ ServedOK /\ PairsOK
      /\ ClosingOK
  BY InvParts, Zenon
<1>1. /\ at = "trust"
      /\ disk' = disk /\ trusted' = trusted /\ browsers' = browsers /\ pairs' = pairs
      /\ start' = start
      /\ UNCHANGED running /\ distrusted' = distrusted /\ fault' = fault
  BY Zenon DEF Trust, stores, history
<1>2. start \in Start BY Zenon, <1>0 DEF Started
<1>3. FilesOK' /\ DiskOK' /\ ClosingOK' BY Zenon, <1>0, <1>1, DiskKept, FilesKept, ClosingKept
<1>4. serving' = serving /\ closers' = closers BY Zenon, <1>1 DEF running
<1>5. Whole("caKey") /\ start.ca = disk["caKey"].value /\ Exists("caPem") /\ Exists("caDer")
      /\ Exists("pem")
  BY Zenon, <1>0, <1>1 DEF EnsuredOK, Authorized, Certified, Certifying, Trusting
<1>6. RestOK' BY Zenon, <1>0, <1>1, <1>4 DEF RestOK
<1>7. \/ at' = "install" /\ disk["marker"] = Absent
      \/ at' = "serve" /\ start.round = 1
  <2>1. (start.new \/ start.round = 2) => disk["marker"] = Absent
    BY Zenon, <1>0, <1>1 DEF MarkerOK, Unmarked, Ensuring, Authorized, Certified, Certifying,
       Trusting
  <2>2. CASE start.new \/ ~Exists("marker")
    <3>1. disk["marker"] = Absent BY Zenon, <2>1, <2>2 DEF Exists
    <3>. QED BY Zenon, <3>1, <2>2 DEF Trust
  <2>3. CASE ~(start.new \/ ~Exists("marker"))
    <3>1. start.round # 2 BY Zenon, <2>1, <2>3 DEF Exists
    <3>2. start.round = 1 BY Zenon, <1>2, <3>1 DEF Start
    <3>. QED BY Zenon, <3>2, <2>3 DEF Trust, AfterEnsure
  <2>. QED BY Zenon, <2>2, <2>3
<1>8. Started'
  BY Zenon, <1>0, <1>1, <1>7 DEF Started, Ensuring, Authorized, Certified, Certifying, Trusting
<1>9. EnsuredOK'
  BY Zenon, <1>1, <1>5, <1>7
  DEF EnsuredOK, Whole, Exists, Authorized, Certified, Certifying, Trusting
<1>10. MarkerOK'
  BY Zenon, <1>0, <1>1, <1>7 DEF MarkerOK, Exists, Unmarked, Ensuring, Authorized, Certified,
     Certifying, Trusting
<1>11. ServedOK'
  BY Zenon, <1>0, <1>1, <1>4, <1>7 DEF ServedOK, Whole, Exists, Ensuring, Authorized,
     Certified, Certifying, Trusting
<1>12. PairsOK' BY Zenon, <1>7 DEF PairsOK
<1>13. FailureHasCause' BY Zenon, <1>7 DEF FailureHasCause
<1>. QED BY <1>3, <1>6, <1>8, <1>9, <1>10, <1>11, <1>12, <1>13, InvOf, Zenon

LEMMA InstallStep ==
  ASSUME DesktopInv, Install PROVE DesktopInv'
<1>0. FilesOK /\ RestOK /\ Started /\ DiskOK /\ EnsuredOK /\ MarkerOK /\ ServedOK /\ PairsOK
      /\ ClosingOK
  BY InvParts, Zenon
<1>1. /\ at = "install"
      /\ disk' = disk /\ pairs' = pairs /\ start' = start /\ UNCHANGED running
  BY Zenon DEF Install
<1>2. start \in Start BY Zenon, <1>0 DEF Started
<1>3. FilesOK' /\ DiskOK' /\ ClosingOK' BY Zenon, <1>0, <1>1, DiskKept, FilesKept, ClosingKept
<1>4. serving' = serving /\ closers' = closers BY Zenon, <1>1 DEF running
<1>5. /\ Whole("caKey") /\ start.ca = disk["caKey"].value /\ Exists("caPem") /\ Exists("caDer")
      /\ Exists("pem") /\ disk["marker"] = Absent
  BY Zenon, <1>0, <1>1 DEF EnsuredOK, MarkerOK, Authorized, Certified, Certifying, Trusting
<1>6. disk["caPem"] # Torn => disk["caPem"].value = disk["caKey"].value /\ disk["caPem"].value \in Pair
  BY Zenon, <1>0, <1>5, ContentsAre DEF FilesOK, DiskOK, Exists, Whole
<1>7. \/ /\ at' = "writeMarker" /\ distrusted' = FALSE
         /\ \/ trusted' = trusted \cup {disk["caKey"].value} /\ browsers' = browsers /\ fault' = fault
            \/ trusted' = trusted /\ browsers' = {disk["caKey"].value} /\ fault' = TRUE
         /\ disk["caKey"].value \in Pair
      \/ /\ at' = "failed" /\ fault' = TRUE /\ trusted' = trusted /\ distrusted' = distrusted
         /\ browsers' \in {browsers, {}}
  BY Zenon, <1>6 DEF Install, NssInstalled, NssFailed
<1>8. fault' \in BOOLEAN /\ distrusted' \in BOOLEAN BY Zenon, <1>0, <1>7 DEF Started
<1>9. at' \in {"writeMarker", "failed"} BY Zenon, <1>7
<1>10. Started'
  BY Zenon, <1>0, <1>1, <1>8, <1>9 DEF Started, Ensuring, Authorized, Certified, Certifying,
     Trusting
<1>11. trusted' \subseteq Pair /\ browsers' \subseteq Pair BY Zenon, <1>0, <1>7 DEF RestOK
<1>12. RestOK' BY Zenon, <1>0, <1>1, <1>4, <1>11 DEF RestOK
<1>13. EnsuredOK'
  BY Zenon, <1>1, <1>5, <1>9
  DEF EnsuredOK, Whole, Exists, Authorized, Certified, Certifying, Trusting
<1>14. MarkerOK'
  <2>1. at' = "writeMarker" => disk["caKey"].value \in trusted' \cup browsers' BY Zenon, <1>7
  <2>. QED
    BY Zenon, <1>1, <1>5, <1>9, <2>1 DEF MarkerOK, Exists, Unmarked, Ensuring, Authorized,
       Certified, Certifying, Trusting
<1>15. ServedOK'
  <2>1. at' = "writeMarker" => fault' \/ disk["caKey"].value \in trusted' BY Zenon, <1>7
  <2>. QED
    BY Zenon, <1>0, <1>1, <1>4, <1>9, <2>1 DEF ServedOK, Whole, Exists, Ensuring,
       Authorized, Certified, Certifying, Trusting
<1>16. PairsOK' BY Zenon, <1>9 DEF PairsOK
<1>17. FailureHasCause'
  <2>1. at' = "failed" => fault' BY Zenon, <1>7
  <2>. QED BY Zenon, <2>1 DEF FailureHasCause
<1>. QED BY <1>3, <1>10, <1>12, <1>13, <1>14, <1>15, <1>16, <1>17, InvOf, Zenon

-----------------------------------------------------------------------------
(* The writes *)

WriteStage == {"writeCaKey", "writeCaPem", "writeCaDer", "writeDer", "writeKey", "writePem",
               "writeMarker"}

\* What may be said of the disk while a file is written.
LEMMA WritingIs ==
  ASSUME EnsuredOK, DiskOK, NEW f, NEW v, NEW next, Writing(f, v, next)
  PROVE /\ f \in File /\ at \in WriteStage
        /\ f = "caKey" => at = "writeCaKey" /\ ~Exists("caKey")
        /\ f # "caKey" => Whole("caKey") /\ start.ca = disk["caKey"].value
        /\ f \in {"der", "key", "pem"} => ~Exists("pem")
        /\ f = "pem" => Whole("der") /\ Whole("key") /\ disk["der"].value.pair = disk["key"].value
        /\ f = "marker" => at = "writeMarker" /\ Exists("caPem") /\ Exists("caDer")
<1>1. at \in WriteStage /\ f \in File BY Zenon DEF Writing, WriteStage, File
<1>2. f = "caKey" => at = "writeCaKey" /\ ~Exists("caKey")
  BY Zenon DEF Writing, EnsuredOK, Exists
<1>3. f # "caKey" => at \in Authorized
  BY Zenon DEF Writing, Authorized, Certified, Certifying, Trusting
<1>4. f # "caKey" => Whole("caKey") /\ start.ca = disk["caKey"].value
  BY <1>3, Zenon DEF EnsuredOK
<1>5. f \in {"der", "key", "pem"} => at \in {"writeDer", "writeKey", "writePem"}
  BY Zenon DEF Writing
<1>6. f \in {"der", "key", "pem"} => ~Exists("pem") BY <1>5, Zenon DEF EnsuredOK, Exists
<1>7. f = "pem" => at = "writePem" BY Zenon DEF Writing
<1>8. f = "pem" => Whole("der") /\ Whole("key") /\ disk["der"].value.pair = disk["key"].value
  BY Zenon, <1>7 DEF EnsuredOK
<1>9. f = "marker" => at = "writeMarker" BY Zenon DEF Writing
<1>10. f = "marker" => Exists("caPem") /\ Exists("caDer")
  BY Zenon, <1>9 DEF EnsuredOK, Certified, Certifying, Trusting
<1>. QED BY <1>1, <1>2, <1>4, <1>6, <1>8, <1>9, <1>10, Zenon

LEMMA PairWritten ==
  ASSUME Started, NEW f, NEW v, NEW next, Writing(f, v, next), EnsuredOK, FilesOK
  PROVE /\ f \in {"caKey", "caPem", "caDer", "key", "pem"} => v \in Pair
        /\ f = "der" => v = [pair |-> start.pair, ca |-> start.ca] /\ v \in Certificate
        /\ f = "marker" => v \in {0}
<1>1. f # "caKey" /\ f # "marker" => at \in Authorized
  BY Zenon DEF Writing, Authorized, Certified, Certifying, Trusting
<1>2. at \in Authorized => start.ca \in Pair
  <2>1. at \in Authorized => Whole("caKey") /\ start.ca = disk["caKey"].value
    BY Zenon DEF EnsuredOK
  <2>2. Whole("caKey") => disk["caKey"].value \in Pair
    BY Zenon, ContentsAre, FileIs DEF FilesOK, Whole
  <2>. QED BY Zenon, <2>1, <2>2
<1>3. at = "writeCaKey" => start.ca \in Pair BY Zenon DEF EnsuredOK
<1>4. at \in {"writeDer", "writeKey", "writePem"} => start.pair \in Pair
  BY Zenon DEF EnsuredOK
<1>5. f \in {"caKey", "caPem", "caDer"} => v = start.ca /\ start.ca \in Pair
  BY Zenon, <1>1, <1>2, <1>3 DEF Writing
<1>6. f \in {"key", "pem"} => v = start.pair /\ start.pair \in Pair
  BY Zenon, <1>4 DEF Writing
<1>7. f = "der" => v = [pair |-> start.pair, ca |-> start.ca] /\ start.pair \in Pair /\ start.ca \in Pair
  BY Zenon, <1>1, <1>2, <1>4 DEF Writing
<1>8. f = "marker" => v = 0 BY Zenon DEF Writing
<1>. QED BY SMTT(30), <1>5, <1>6, <1>7, <1>8 DEF Certificate

\* A write that dies halfway: the files that matter are still what they were.
LEMMA TornKeeps ==
  ASSUME DesktopInv, at \in DOMAIN Writes, disk' = [disk EXCEPT ![Writes[at].file] = Torn]
  PROVE /\ FilesOK' /\ DiskOK'
        /\ Exists("marker")' => disk'["caKey"] = disk["caKey"]
                                /\ (Exists("marker") \/ at = "writeMarker")
<1>0. FilesOK /\ Started /\ DiskOK /\ EnsuredOK BY InvParts, Zenon
<1>1. PICK f, v, next : Writing(f, v, next) /\ disk' = [disk EXCEPT ![f] = Torn]
  BY WritesAre, Zenon
<1>2. disk' = [disk EXCEPT ![f] = Torn] BY Zenon, <1>1
<1>3. /\ f \in File /\ at \in WriteStage
      /\ f = "caKey" => at = "writeCaKey" /\ ~Exists("caKey")
      /\ f # "caKey" => Whole("caKey") /\ start.ca = disk["caKey"].value
      /\ f \in {"der", "key", "pem"} => ~Exists("pem")
      /\ f = "pem" => Whole("der") /\ Whole("key") /\ disk["der"].value.pair = disk["key"].value
      /\ f = "marker" => at = "writeMarker" /\ Exists("caPem") /\ Exists("caDer")
  BY <1>0, <1>1, WritingIs, Zenon
<1>4. /\ DOMAIN disk' = File /\ disk'[f] = Torn
      /\ \A g \in File : g # f => disk'[g] = disk[g] /\ Whole(g)' = Whole(g)
                                  /\ Exists(g)' = Exists(g)
  BY <1>0, <1>2, <1>3, OneFile, Zenon
<1>5. ~Whole(f)' /\ Exists(f)' BY Zenon, <1>4, FileIs, FilesDiffer DEF Whole, Exists
<1>6. FilesOK' BY Zenon, <1>0, <1>4, ContentsHave DEF FilesOK, File
<1>7. ~Exists("caKey") => ~Whole("caKey") BY Zenon, WholeExists
<1>8. Whole("caPem")' => Whole("caKey")' /\ disk'["caPem"].value = disk'["caKey"].value
  BY Zenon, <1>0, <1>3, <1>4, <1>5, <1>7 DEF DiskOK, File
<1>9. Whole("der")' => Whole("caKey")' /\ disk'["der"].value.ca = disk'["caKey"].value
  BY Zenon, <1>0, <1>3, <1>4, <1>5, <1>7 DEF DiskOK, File
<1>10. Exists("pem")' => Whole("der")' /\ Whole("key")'
                         /\ disk'["der"].value.pair = disk'["key"].value
  BY Zenon, <1>0, <1>3, <1>4 DEF DiskOK, File
<1>11. Exists("marker")' => Whole("caKey") /\ Exists("caPem")' /\ Exists("caDer")'
                            /\ f # "caKey" /\ (Exists("marker") \/ at = "writeMarker")
  BY Zenon, <1>0, <1>3, <1>4, <1>5, <1>7 DEF DiskOK, File
<1>12. f # "caKey" => disk'["caKey"] = disk["caKey"] /\ Whole("caKey")' = Whole("caKey")
  BY Zenon, <1>4 DEF File
<1>13. DiskOK' BY <1>4, <1>8, <1>9, <1>10, <1>11, <1>12, Zenon DEF DiskOK
<1>. QED BY <1>6, <1>11, <1>12, <1>13, Zenon

LEMMA WriteFileStep ==
  ASSUME DesktopInv, WriteFile PROVE DesktopInv'
<1>0. FilesOK /\ RestOK /\ Started /\ DiskOK /\ EnsuredOK /\ MarkerOK /\ ServedOK /\ PairsOK
      /\ ClosingOK
  BY InvParts, Zenon
<1>1. PICK f, v, next :
        Writing(f, v, next) /\ disk' = [disk EXCEPT ![f] = Holding(v)] /\ at' = next
  BY WritesAre, Zenon DEF WriteFile
<1>2. disk' = [disk EXCEPT ![f] = Holding(v)] /\ at' = next BY Zenon, <1>1
<1>3. /\ trusted' = trusted /\ browsers' = browsers /\ pairs' = pairs /\ start' = start
      /\ UNCHANGED running /\ distrusted' = distrusted /\ fault' = fault
  BY Zenon DEF WriteFile, stores, history
<1>4. /\ f \in File /\ at \in WriteStage
      /\ f = "caKey" => at = "writeCaKey" /\ ~Exists("caKey")
      /\ f # "caKey" => Whole("caKey") /\ start.ca = disk["caKey"].value
      /\ f \in {"der", "key", "pem"} => ~Exists("pem")
      /\ f = "pem" => Whole("der") /\ Whole("key") /\ disk["der"].value.pair = disk["key"].value
      /\ f = "marker" => at = "writeMarker" /\ Exists("caPem") /\ Exists("caDer")
  BY <1>0, <1>1, WritingIs, Zenon
<1>5. /\ DOMAIN disk' = File /\ disk'[f] = Holding(v)
      /\ \A g \in File : g # f => disk'[g] = disk[g] /\ Whole(g)' = Whole(g)
                                  /\ Exists(g)' = Exists(g)
  BY <1>0, <1>2, <1>4, OneFile, Zenon
<1>6. Whole(f)' /\ Exists(f)' /\ disk'[f].value = v
  BY Zenon, <1>5, FileIs, FilesDiffer DEF Whole, Exists
<1>7. /\ f \in {"caKey", "caPem", "caDer", "key", "pem"} => v \in Pair
      /\ f = "der" => v = [pair |-> start.pair, ca |-> start.ca] /\ v \in Certificate
      /\ f = "marker" => v \in {0}
  BY <1>0, <1>1, PairWritten, Zenon
<1>8. FilesOK' BY Zenon, <1>0, <1>4, <1>5, <1>7, ContentsHave DEF FilesOK, File
<1>9. ~Exists("caKey") => ~Whole("caKey") BY Zenon, WholeExists
<1>10. f = "caPem" => v = start.ca BY Zenon, <1>1 DEF Writing
<1>11. f = "der" => v.ca = start.ca /\ v.pair = start.pair BY SMTT(30), <1>7
<1>12. DiskOK'
  <2>0. f # "caKey" => disk'["caKey"] = disk["caKey"] /\ Whole("caKey")' = Whole("caKey")
    BY Zenon, <1>5 DEF File
  <2>1. Whole("caPem")' => Whole("caKey")' /\ disk'["caPem"].value = disk'["caKey"].value
    BY Zenon, <1>0, <1>4, <1>5, <1>6, <1>9, <1>10, <2>0 DEF DiskOK, File
  <2>2. Whole("der")' => Whole("caKey")' /\ disk'["der"].value.ca = disk'["caKey"].value
    BY Zenon, <1>0, <1>4, <1>5, <1>6, <1>9, <1>11, <2>0 DEF DiskOK, File
  <2>3. Exists("pem")' => Whole("der")' /\ Whole("key")'
                          /\ disk'["der"].value.pair = disk'["key"].value
    BY Zenon, <1>0, <1>4, <1>5 DEF DiskOK, File
  <2>4. Exists("marker")' => Whole("caKey") /\ Exists("caPem")' /\ Exists("caDer")' /\ f # "caKey"
    BY Zenon, <1>0, <1>4, <1>5, <1>6, <1>9 DEF DiskOK, File
  <2>. QED BY <1>5, <2>0, <2>1, <2>2, <2>3, <2>4, Zenon DEF DiskOK
<1>13. at # "window" BY Zenon, <1>4 DEF WriteStage
<1>14. ClosingOK' BY <1>0, <1>3, <1>13, ClosingKept, Zenon
<1>15. serving' = serving /\ closers' = closers BY Zenon, <1>3 DEF running
<1>16. RestOK' BY Zenon, <1>0, <1>3, <1>15 DEF RestOK
<1>17. start \in Start BY Zenon, <1>0 DEF Started
<1>18. next \in {"caCertificate", "writeCaDer", "certificate", "writeKey", "writePem", "trust",
                 "serve", "verify"}
  BY Zenon, <1>1 DEF Writing, AfterEnsure
<1>19. next = "serve" => start.round = 1 BY Zenon, <1>1 DEF Writing, AfterEnsure
<1>20. Started'
  BY Zenon, <1>0, <1>2, <1>3, <1>18, <1>19 DEF Started, Ensuring, Authorized, Certified,
     Certifying,
     Trusting
<1>21. FailureHasCause' BY Zenon, <1>2, <1>18 DEF FailureHasCause
<1>22. PairsOK' BY Zenon, <1>0, <1>1, <1>2, <1>3, <1>18 DEF PairsOK, Writing, AfterEnsure
<1>23. Whole("caKey")' /\ start.ca = disk'["caKey"].value
  <2>1. CASE f = "caKey"
    <3>1. v = start.ca BY Zenon, <1>1, <2>1 DEF Writing
    <3>. QED BY Zenon, <1>6, <2>1, <3>1
  <2>2. CASE f # "caKey"
    <3>1. disk'["caKey"] = disk["caKey"] /\ Whole("caKey")' = Whole("caKey")
      BY Zenon, <1>5, <2>2 DEF File
    <3>. QED BY Zenon, <3>1, <1>4, <2>2
  <2>. QED BY Zenon, <2>1, <2>2
<1>24. EnsuredOK'
  <2>1. at' \in Certified => Exists("caPem")'
    <3>1. f = "caPem" \/ (at' \in Certified => at \in Certified)
      BY Zenon, <1>1, <1>2, <1>18 DEF Writing, AfterEnsure, Certified, Certifying, Trusting
    <3>2. f # "caPem" => Exists("caPem")' = Exists("caPem") BY Zenon, <1>5 DEF File
    <3>. QED BY Zenon, <3>1, <3>2, <1>6, <1>0 DEF EnsuredOK
  <2>2. at' \in Certifying => Exists("caDer")'
    <3>1. f = "caDer" \/ (at' \in Certifying => at \in Certifying)
      BY Zenon, <1>1, <1>2, <1>18 DEF Writing, AfterEnsure, Certifying, Trusting
    <3>2. f # "caDer" => Exists("caDer")' = Exists("caDer") BY Zenon, <1>5 DEF File
    <3>. QED BY Zenon, <3>1, <3>2, <1>6, <1>0 DEF EnsuredOK
  <2>3. at' \in {"writeDer", "writeKey", "writePem"} => disk'["pem"] = Absent /\ start.pair \in Pair
    <3>1. at' \in {"writeDer", "writeKey", "writePem"} =>
            f # "pem" /\ at \in {"writeDer", "writeKey", "writePem"}
      BY Zenon, <1>1, <1>2 DEF Writing, AfterEnsure
    <3>. QED BY Zenon, <3>1, <1>0, <1>5 DEF EnsuredOK, File
  <2>4. at' \in {"writeKey", "writePem"} => Whole("der")' /\ disk'["der"].value.pair = start.pair
    <3>1. at' \in {"writeKey", "writePem"} => f = "der" \/ (f = "key" /\ at = "writeKey")
      BY Zenon, <1>1, <1>2 DEF Writing, AfterEnsure
    <3>2. CASE f = "der" BY Zenon, <3>2, <1>6, <1>11
    <3>3. CASE f = "key" /\ at = "writeKey" BY Zenon, <3>3, <1>0, <1>5 DEF EnsuredOK, File
    <3>. QED BY Zenon, <3>1, <3>2, <3>3
  <2>5. at' = "writePem" => Whole("key")' /\ disk'["key"].value = start.pair
    <3>1. at' = "writePem" => f = "key" /\ v = start.pair
      BY Zenon, <1>1, <1>2 DEF Writing, AfterEnsure
    <3>. QED BY Zenon, <3>1, <1>6
  <2>6. at' \in Trusting \cup {"serve"} => Exists("pem")'
    <3>1. at' \in Trusting \cup {"serve"} => f = "pem" \/ (f = "marker" /\ at = "writeMarker")
      BY Zenon, <1>1, <1>2, <1>18 DEF Writing, AfterEnsure, Trusting
    <3>2. CASE f = "pem" BY Zenon, <3>2, <1>6
    <3>3. CASE f = "marker" /\ at = "writeMarker"
      BY Zenon, <3>3, <1>0, <1>5 DEF EnsuredOK, Trusting, File
    <3>. QED BY Zenon, <3>1, <3>2, <3>3
  <2>7. at' # "writeCaKey" BY Zenon, <1>2, <1>18
  <2>. QED BY <1>3, <1>23, <2>1, <2>2, <2>3, <2>4, <2>5, <2>6, <2>7, Zenon DEF EnsuredOK
<1>25. f # "caKey" => disk'["caKey"] = disk["caKey"] BY Zenon, <1>5 DEF File
<1>26. MarkerOK'
  <2>1. at' # "install" /\ at' # "writeMarker" BY Zenon, <1>2, <1>18
  <2>2. at' \in Unmarked => at \in Unmarked /\ f # "marker"
    BY Zenon, <1>1, <1>2, <1>18 DEF Writing, AfterEnsure, Unmarked, Ensuring, Authorized,
       Certified, Certifying, Trusting
  <2>3. f # "marker" => disk'["marker"] = disk["marker"] BY Zenon, <1>5 DEF File
  <2>4. (at' \in Unmarked /\ (start.new \/ start.round = 2)) => disk'["marker"] = Absent
    BY Zenon, <1>0, <2>2, <2>3 DEF MarkerOK
  <2>5. Exists("marker")' => Exists("marker") \/ at = "writeMarker"
    BY Zenon, <1>4, <1>5 DEF File
  <2>6. Exists("marker") => f # "caKey" BY Zenon, <1>0, <1>4, <1>9 DEF DiskOK
  <2>7. at = "writeMarker" => f # "caKey" BY Zenon, <1>4
  <2>8. Exists("marker")' => distrusted \/ disk'["caKey"].value \in trusted \cup browsers
    BY Zenon, <1>0, <1>25, <2>5, <2>6, <2>7 DEF MarkerOK
  <2>. QED BY Zenon, <1>3, <2>1, <2>4, <2>8 DEF MarkerOK
<1>27. ServedOK'
  <2>1. (at' \in {"verify", "invalidate"} \/ (start.round = 2 /\ at' \in Ensuring)) =>
          start.round = 2 /\ at \in Ensuring
    BY Zenon, <1>1, <1>2, <1>17, <1>18 DEF Writing, AfterEnsure, Start, Ensuring,
       Authorized, Certified, Certifying, Trusting
  <2>2. (start.round = 2 /\ at \in Ensuring) =>
          /\ Whole("caKey") /\ Exists("pem")
          /\ serving.is = "whole" /\ serving.value.ca = disk["caKey"].value
    BY <1>0, Zenon DEF ServedOK
  <2>3. Whole("caKey") /\ Exists("pem") => f \notin {"caKey", "der", "key", "pem"}
    BY Zenon, <1>4, <1>9
  <2>4. f \notin {"caKey", "der", "key", "pem"} =>
          disk'["caKey"] = disk["caKey"] /\ Exists("pem")' = Exists("pem")
    BY Zenon, <1>5 DEF File
  <2>5. (at' \in {"verify", "invalidate"} \/ (start.round = 2 /\ at' \in Ensuring)) =>
          /\ Whole("caKey")' /\ Exists("pem")'
          /\ serving.is = "whole" /\ serving.value.ca = disk'["caKey"].value
    BY <1>23, <2>1, <2>2, <2>3, <2>4, Zenon
  <2>6. (start.round = 2 /\ at' \in {"writeMarker", "verify"}) =>
          at = "writeMarker" /\ f = "marker"
    BY Zenon, <1>1, <1>2, <1>18 DEF Writing
  <2>7. (start.round = 2 /\ at' \in {"writeMarker", "verify"}) =>
          fault \/ disk'["caKey"].value \in trusted
    BY Zenon, <1>0, <1>25, <2>6 DEF ServedOK
  <2>. QED BY <1>3, <1>15, <2>5, <2>7, Zenon DEF ServedOK
<1>. QED BY <1>8, <1>12, <1>14, <1>16, <1>20, <1>21, <1>22, <1>24, <1>26, <1>27, InvOf, Zenon

-----------------------------------------------------------------------------
(* The server, the window and the end of the process *)

LEMMA ServeStep ==
  ASSUME DesktopInv, Serve PROVE DesktopInv'
<1>0. FilesOK /\ RestOK /\ Started /\ DiskOK /\ EnsuredOK /\ MarkerOK /\ ClosingOK
  BY InvParts, Zenon
<1>1. /\ at = "serve" /\ at' = "verify"
      /\ disk' = disk /\ trusted' = trusted /\ browsers' = browsers /\ pairs' = pairs
      /\ start' = start /\ open' = open /\ closers' = closers
      /\ distrusted' = distrusted /\ fault' = fault
  BY Zenon DEF Serve, stores, history
<1>2. start.round = 1 BY Zenon, <1>0, <1>1 DEF Started
<1>3. FilesOK' /\ DiskOK' BY <1>0, <1>1, DiskKept, FilesKept, Zenon
<1>4. Exists("pem") BY Zenon, <1>0, <1>1 DEF EnsuredOK, Trusting
<1>5. /\ Whole("der") /\ Whole("key") /\ disk["der"].value.pair = disk["key"].value
      /\ Whole("caKey") /\ disk["der"].value.ca = disk["caKey"].value
  BY <1>0, <1>4, Zenon DEF DiskOK
<1>6. serving' = disk["der"] BY Zenon, <1>5 DEF Serve, Usable, Whole
<1>7. Started' BY Zenon, <1>0, <1>1 DEF Started
<1>8. RestOK' BY Zenon, <1>0, <1>1, <1>6 DEF RestOK, FilesOK
<1>9. EnsuredOK' BY Zenon, <1>1 DEF EnsuredOK, Authorized, Certified, Certifying, Trusting
<1>10. MarkerOK'
  BY Zenon, <1>0, <1>1 DEF MarkerOK, Exists, Unmarked, Ensuring, Authorized, Certified,
     Certifying,
     Trusting
<1>11. ServedOK' BY SMTT(30), <1>1, <1>2, <1>4, <1>5, <1>6 DEF ServedOK, Whole, Exists
<1>12. PairsOK' BY Zenon, <1>1 DEF PairsOK
<1>13. FailureHasCause' BY Zenon, <1>1 DEF FailureHasCause
<1>14. ClosingOK'
  <2>1. open = 0 /\ \A c \in Closer : closers[c] = "idle" BY Zenon, <1>0, <1>1 DEF ClosingOK
  <2>. QED BY Zenon, <1>1, <2>1 DEF ClosingOK, ExitAfterDrain
<1>. QED BY <1>3, <1>7, <1>8, <1>9, <1>10, <1>11, <1>12, <1>13, <1>14, InvOf, Zenon

LEMMA VerifyStep ==
  ASSUME DesktopInv, Verify PROVE DesktopInv'
<1>0. FilesOK /\ RestOK /\ Started /\ DiskOK /\ EnsuredOK /\ MarkerOK /\ ServedOK /\ ClosingOK
  BY InvParts, Zenon
<1>1. /\ at = "verify"
      /\ disk' = disk /\ trusted' = trusted /\ browsers' = browsers /\ pairs' = pairs
      /\ start' = start /\ UNCHANGED running /\ distrusted' = distrusted /\ fault' = fault
  BY Zenon DEF Verify, stores, history
<1>2. start \in Start BY Zenon, <1>0 DEF Started
<1>3. FilesOK' /\ DiskOK' /\ ClosingOK' BY Zenon, <1>0, <1>1, DiskKept, FilesKept, ClosingKept
<1>4. serving' = serving /\ closers' = closers BY Zenon, <1>1 DEF running
<1>5. \/ at' = "window"
      \/ at' = "invalidate" /\ start.round = 1
      \/ at' = "failed" /\ start.round = 2 /\ (~Reachable \/ disk["caDer"] = Torn)
  BY Zenon, <1>2 DEF Verify, Unverified, Start
<1>6. /\ Whole("caKey") /\ Exists("pem")
      /\ serving.is = "whole" /\ serving.value.ca = disk["caKey"].value
      /\ start.round = 2 => fault \/ disk["caKey"].value \in trusted
  BY Zenon, <1>0, <1>1 DEF ServedOK
<1>7. Started' BY Zenon, <1>0, <1>1, <1>5 DEF Started
<1>8. RestOK' BY Zenon, <1>0, <1>1, <1>4 DEF RestOK
<1>9. EnsuredOK' BY Zenon, <1>5 DEF EnsuredOK, Authorized, Certified, Certifying, Trusting
<1>10. MarkerOK'
  BY Zenon, <1>0, <1>1, <1>5 DEF MarkerOK, Exists, Unmarked, Ensuring, Authorized,
     Certified, Certifying, Trusting
<1>11. ServedOK'
  BY Zenon, <1>1, <1>4, <1>5, <1>6 DEF ServedOK, Whole, Exists, Ensuring, Authorized,
     Certified, Certifying, Trusting
<1>12. PairsOK' BY Zenon, <1>5 DEF PairsOK
<1>13. FailureHasCause'
  <2>1. (at' = "failed" /\ start.router = "normal") => fault \/ disk["caDer"] = Torn
    BY Zenon, <1>5, <1>6 DEF Reachable
  <2>. QED BY Zenon, <2>1, <1>1 DEF FailureHasCause
<1>. QED BY <1>3, <1>7, <1>8, <1>9, <1>10, <1>11, <1>12, <1>13, InvOf, Zenon

LEMMA InvalidateTrustStep ==
  ASSUME DesktopInv, InvalidateTrust PROVE DesktopInv'
<1>0. FilesOK /\ RestOK /\ Started /\ DiskOK /\ EnsuredOK /\ MarkerOK /\ ServedOK /\ ClosingOK
  BY InvParts, Zenon
<1>1. /\ at = "invalidate" /\ at' = "caKey"
      /\ disk' = [disk EXCEPT !["marker"] = Absent]
      /\ trusted' = trusted /\ browsers' = browsers /\ pairs' = pairs
      /\ start' = [start EXCEPT !.round = 2, !.new = FALSE]
      /\ UNCHANGED running /\ distrusted' = distrusted /\ fault' = fault
  BY Zenon DEF InvalidateTrust, stores, history
<1>2. start \in Start BY Zenon, <1>0 DEF Started
<1>3. start' \in Start
  <2>1. FALSE \in BOOLEAN /\ 2 \in {1, 2} BY Zenon
  <2>. QED BY <2>1, <1>1, <1>2, Zenon DEF Start
<1>4. start'.round = 2 BY Zenon, <1>1, <1>2 DEF Start
<1>5. "marker" \in File BY Zenon DEF File
<1>6. /\ DOMAIN disk' = File /\ disk'["marker"] = Absent
      /\ \A g \in File : g # "marker" => disk'[g] = disk[g] /\ Whole(g)' = Whole(g)
                                         /\ Exists(g)' = Exists(g)
  BY <1>0, <1>1, <1>5, OneFile, Zenon
<1>7. FilesOK' BY Zenon, <1>0, <1>6, ContentsHave DEF FilesOK, File
<1>8. ~Exists("marker")' BY Zenon, <1>6 DEF Exists
<1>9. DiskOK' BY Zenon, <1>0, <1>6, <1>8 DEF DiskOK, File
<1>10. serving' = serving /\ closers' = closers BY Zenon, <1>1 DEF running
<1>11. ClosingOK' BY Zenon, <1>0, <1>1, ClosingKept
<1>12. Started'
  BY Zenon, <1>0, <1>1, <1>3 DEF Started, Ensuring, Authorized, Certified, Certifying, Trusting
<1>13. RestOK' BY Zenon, <1>0, <1>1, <1>10 DEF RestOK
<1>14. EnsuredOK' BY Zenon, <1>1 DEF EnsuredOK, Authorized, Certified, Certifying, Trusting
<1>15. MarkerOK' BY Zenon, <1>1, <1>6, <1>8 DEF MarkerOK
<1>16. /\ Whole("caKey") /\ Exists("pem")
       /\ serving.is = "whole" /\ serving.value.ca = disk["caKey"].value
  BY Zenon, <1>0, <1>1 DEF ServedOK
<1>17. disk'["caKey"] = disk["caKey"] /\ Whole("caKey")' /\ Exists("pem")'
  BY Zenon, <1>6, <1>16 DEF File
<1>18. ServedOK' BY Zenon, <1>1, <1>10, <1>16, <1>17 DEF ServedOK
<1>19. PairsOK' BY <1>4 DEF PairsOK
<1>20. FailureHasCause' BY Zenon, <1>1 DEF FailureHasCause
<1>. QED BY <1>7, <1>9, <1>11, <1>12, <1>13, <1>14, <1>15, <1>18, <1>19, <1>20, InvOf, Zenon

\* Steps in an open window change nothing a start depends on.
LEMMA WindowStep ==
  ASSUME DesktopInv, at = "window", UNCHANGED <<disk, stores, pairs, at, start, history>>,
         RestOK', ClosingOK'
  PROVE DesktopInv'
<1>0. FilesOK /\ RestOK /\ Started /\ DiskOK /\ EnsuredOK /\ MarkerOK /\ ServedOK /\ PairsOK
      /\ FailureHasCause
  BY InvParts, Zenon
<1>1. /\ at' = at /\ disk' = disk /\ trusted' = trusted /\ browsers' = browsers
      /\ pairs' = pairs /\ start' = start /\ fault' = fault /\ distrusted' = distrusted
  BY Zenon DEF stores, history
<1>2. FilesOK' /\ DiskOK' BY <1>0, <1>1, DiskKept, FilesKept, Zenon
<1>3. Started' BY Zenon, <1>0, <1>1 DEF Started
<1>4. EnsuredOK' BY Zenon, <1>1 DEF EnsuredOK, Authorized, Certified, Certifying, Trusting
<1>5. MarkerOK' BY Zenon, <1>0, <1>1 DEF MarkerOK, Exists
<1>6. ServedOK'
  BY Zenon, <1>1 DEF ServedOK, Ensuring, Authorized, Certified, Certifying, Trusting
<1>7. PairsOK' BY Zenon, <1>1 DEF PairsOK
<1>8. FailureHasCause' BY Zenon, <1>1 DEF FailureHasCause
<1>. QED BY <1>2, <1>3, <1>4, <1>5, <1>6, <1>7, <1>8, InvOf, Zenon

LEMMA RequestsStep ==
  ASSUME DesktopInv, Accept \/ RequestAnswered PROVE DesktopInv'
<1>0. RestOK /\ ClosingOK BY InvParts, Zenon
<1>1. /\ UNCHANGED <<disk, stores, pairs, at, start, history>>
      /\ serving' = serving /\ closers' = closers
  BY Zenon DEF Accept, RequestAnswered
<1>2. at = "window" BY <1>0 DEF Accept, RequestAnswered, ClosingOK
<1>3. RestOK' BY Zenon, <1>0, <1>1 DEF RestOK, stores
<1>4. ClosingOK'
  <2>1. CASE Accept
    <3>1. serving # Closed BY Zenon, <2>1, FileIs DEF Accept
    <3>2. open' \in Nat BY <2>1, <1>0 DEF Accept, ClosingOK
    <3>3. at' = "window" BY Zenon, <1>1, <1>2
    <3>. QED BY Zenon, <3>1, <3>2, <3>3, <1>0, <1>1 DEF ClosingOK, ExitAfterDrain
  <2>2. CASE RequestAnswered
    <3>1. open' \in Nat /\ open # 0 BY <2>2, <1>0 DEF RequestAnswered, ClosingOK
    <3>3. at' = "window" BY Zenon, <1>1, <1>2
    <3>. QED BY Zenon, <3>1, <3>3, <1>0, <1>1 DEF ClosingOK, ExitAfterDrain
  <2>. QED BY Zenon, <2>1, <2>2
<1>. QED BY <1>1, <1>2, <1>3, <1>4, WindowStep, Zenon

LEMMA CloserStep ==
  ASSUME DesktopInv, NEW c \in Closer, CloseWindow(c) \/ TakeServer(c) \/ Drain(c)
  PROVE DesktopInv'
<1>0. RestOK /\ ClosingOK BY InvParts, Zenon
<1>1. UNCHANGED <<disk, stores, pairs, at, start, history>> /\ open' = open
  BY Zenon DEF CloseWindow, TakeServer, Drain
<1>2. at = "window" /\ at' = "window"
  <2>1. at = "window" BY Zenon, <1>0 DEF CloseWindow, TakeServer, Drain, ClosingOK
  <2>. QED BY Zenon, <1>1, <2>1
<1>3. closers \in [Closer -> {"idle", "lock", "drain", "done"}] BY Zenon, <1>0 DEF RestOK
<1>4. CASE CloseWindow(c)
  <2>1. closers' = [closers EXCEPT ![c] = "lock"] /\ serving' = serving /\ closers[c] = "idle"
    BY Zenon, <1>4 DEF CloseWindow
  <2>2. /\ closers' \in [Closer -> {"idle", "lock", "drain", "done"}]
        /\ closers'[c] = "lock" /\ \A d \in Closer : d # c => closers'[d] = closers[d]
    BY Zenon, <1>3, <2>1
  <2>3. RestOK' BY Zenon, <1>0, <1>1, <2>1, <2>2 DEF RestOK, stores
  <2>4. \A d \in Closer : closers'[d] \in {"drain", "done"} => closers'[d] = closers[d]
    BY Zenon, <2>2
  <2>5. \A d \in Closer : closers[d] = "drain" => closers'[d] = "drain" BY Zenon, <2>1, <2>2
  <2>6. ClosingOK' BY Zenon, <1>0, <1>1, <1>2, <2>1, <2>4, <2>5 DEF ClosingOK, ExitAfterDrain
  <2>. QED BY <1>1, <1>2, <2>3, <2>6, WindowStep, Zenon
<1>5. CASE TakeServer(c)
  <2>1. /\ closers' = [closers EXCEPT ![c] = IF serving = Closed THEN "done" ELSE "drain"]
        /\ serving' = Closed /\ \A d \in Closer : closers[d] # "drain"
    BY Zenon, <1>5 DEF TakeServer
  <2>2. /\ closers' \in [Closer -> {"idle", "lock", "drain", "done"}]
        /\ closers'[c] = IF serving = Closed THEN "done" ELSE "drain"
        /\ \A d \in Closer : d # c => closers'[d] = closers[d]
    BY Zenon, <1>3, <2>1
  <2>3. RestOK' BY Zenon, <1>0, <1>1, <2>1, <2>2 DEF RestOK, stores
  <2>4. CASE serving = Closed
    <3>1. open = 0 BY Zenon, <1>0, <2>1, <2>4 DEF ClosingOK
    <3>2. ClosingOK' BY Zenon, <3>1, <1>0, <1>1, <1>2, <2>1 DEF ClosingOK, ExitAfterDrain
    <3>. QED BY <1>1, <1>2, <2>3, <3>2, WindowStep, Zenon
  <2>5. CASE serving # Closed
    <3>1. closers'[c] = "drain" BY Zenon, <2>2, <2>5
    <3>2. \A d \in Closer : closers'[d] # "done" BY Zenon, <1>0, <2>2, <2>5, <3>1 DEF ClosingOK
    <3>3. ClosingOK'
      BY Zenon, <3>1, <3>2, <1>0, <1>1, <1>2, <2>1 DEF ClosingOK, ExitAfterDrain
    <3>. QED BY <1>1, <1>2, <2>3, <3>3, WindowStep, Zenon
  <2>. QED BY Zenon, <2>4, <2>5
<1>6. CASE Drain(c)
  <2>1. /\ closers' = [closers EXCEPT ![c] = "done"] /\ serving' = serving /\ closers[c] = "drain"
        /\ open = 0
    BY Zenon, <1>6 DEF Drain
  <2>2. /\ closers' \in [Closer -> {"idle", "lock", "drain", "done"}]
        /\ closers'[c] = "done" /\ \A d \in Closer : d # c => closers'[d] = closers[d]
    BY Zenon, <1>3, <2>1
  <2>3. RestOK' BY Zenon, <1>0, <1>1, <2>1, <2>2 DEF RestOK, stores
  <2>4. serving = Closed BY Zenon, <1>0, <2>1 DEF ClosingOK
  <2>5. ClosingOK' BY Zenon, <1>0, <1>1, <1>2, <2>1, <2>4 DEF ClosingOK, ExitAfterDrain
  <2>. QED BY <1>1, <1>2, <2>3, <2>5, WindowStep, Zenon
<1>. QED BY Zenon, <1>4, <1>5, <1>6

LEMMA GoneStep ==
  ASSUME DesktopInv, Quit \/ Kill PROVE DesktopInv'
<1>0. FilesOK /\ RestOK /\ Started /\ DiskOK /\ MarkerOK BY InvParts, Zenon
<1>1. /\ Gone /\ fault' = FALSE /\ distrusted' = distrusted
      /\ trusted' = trusted /\ browsers' = browsers /\ pairs' = pairs
      /\ \/ disk' = disk
         \/ at \in DOMAIN Writes /\ disk' = [disk EXCEPT ![Writes[at].file] = Torn]
  BY Zenon DEF Quit, Kill, stores
<1>2. distrusted' \in BOOLEAN BY Zenon, <1>0, <1>1 DEF Started
<1>3. Started' /\ EnsuredOK' /\ ServedOK' /\ PairsOK' /\ FailureHasCause'
  BY <1>1, <1>2, DownOK, Zenon
<1>4. ClosingOK' BY <1>1, ClosingGone, Zenon
<1>5. RestOK' BY Zenon, <1>0, <1>1, ContentsHave DEF RestOK, Gone
<1>6. /\ FilesOK' /\ DiskOK'
      /\ Exists("marker")' => disk'["caKey"] = disk["caKey"]
                              /\ (Exists("marker") \/ at = "writeMarker")
  <2>1. CASE disk' = disk
    <3>1. FilesOK' /\ DiskOK' BY <1>0, <2>1, DiskKept, FilesKept, Zenon
    <3>. QED BY <3>1, <2>1, Zenon DEF Exists
  <2>2. CASE at \in DOMAIN Writes /\ disk' = [disk EXCEPT ![Writes[at].file] = Torn]
    BY <2>2, TornKeeps, Zenon
  <2>. QED BY <1>1, <2>1, <2>2, Zenon
<1>7. at' = "down" BY Zenon, <1>1 DEF Gone
<1>8. MarkerOK'
  BY Zenon, <1>0, <1>1, <1>6, <1>7 DEF MarkerOK, Unmarked, Ensuring, Authorized, Certified,
     Certifying, Trusting
<1>. QED BY <1>3, <1>4, <1>5, <1>6, <1>8, InvOf, Zenon

LEMMA OsFaultStep ==
  ASSUME DesktopInv, OsFault PROVE DesktopInv'
<1>0. FilesOK /\ RestOK /\ Started /\ DiskOK /\ MarkerOK /\ ServedOK /\ ClosingOK
  BY InvParts, Zenon
<1>1. /\ fault' = TRUE /\ distrusted' = distrusted /\ start' = start
      /\ trusted' = trusted /\ browsers' = browsers /\ pairs' = pairs /\ UNCHANGED running
      /\ \/ disk' = disk
         \/ at \in DOMAIN Writes /\ disk' = [disk EXCEPT ![Writes[at].file] = Torn]
      /\ at' = IF at = "verify" THEN Unverified ELSE "failed"
      /\ at # "window"
  BY Zenon DEF OsFault, stores
<1>2. start \in Start BY Zenon, <1>0 DEF Started
<1>3. at' = "failed" \/ (at' = "invalidate" /\ at = "verify" /\ start.round = 1)
  BY Zenon, <1>1 DEF Unverified
<1>4. serving' = serving /\ closers' = closers BY Zenon, <1>1 DEF running
<1>5. ClosingOK' BY <1>0, <1>1, ClosingKept, Zenon
<1>6. /\ FilesOK' /\ DiskOK'
      /\ Exists("marker")' => disk'["caKey"] = disk["caKey"]
                              /\ (Exists("marker") \/ at = "writeMarker")
  <2>1. CASE disk' = disk
    <3>1. FilesOK' /\ DiskOK' BY <1>0, <2>1, DiskKept, FilesKept, Zenon
    <3>. QED BY <3>1, <2>1, Zenon DEF Exists
  <2>2. CASE at \in DOMAIN Writes /\ disk' = [disk EXCEPT ![Writes[at].file] = Torn]
    BY <2>2, TornKeeps, Zenon
  <2>. QED BY <1>1, <2>1, <2>2, Zenon
<1>7. Started' BY Zenon, <1>0, <1>1, <1>3 DEF Started
<1>8. RestOK' BY Zenon, <1>0, <1>1, <1>4 DEF RestOK
<1>9. EnsuredOK' BY Zenon, <1>3 DEF EnsuredOK, Authorized, Certified, Certifying, Trusting
<1>10. MarkerOK'
  BY Zenon, <1>0, <1>1, <1>3, <1>6 DEF MarkerOK, Unmarked, Ensuring, Authorized, Certified,
     Certifying, Trusting
<1>11. ServedOK'
  <2>1. at = "verify" => disk' = disk
    <3>1. at = "verify" => at \notin DOMAIN Writes BY Zenon DEF Writes
    <3>. QED BY Zenon, <3>1, <1>1
  <2>. QED
    BY Zenon, <2>1, <1>0, <1>1, <1>3, <1>4 DEF ServedOK, Whole, Exists, Ensuring,
       Authorized, Certified, Certifying, Trusting
<1>12. PairsOK' BY Zenon, <1>3 DEF PairsOK
<1>13. FailureHasCause' BY Zenon, <1>1 DEF FailureHasCause
<1>. QED BY <1>5, <1>6, <1>7, <1>8, <1>9, <1>10, <1>11, <1>12, <1>13, InvOf, Zenon

LEMMA DistrustStep ==
  ASSUME DesktopInv, Distrust PROVE DesktopInv'
<1>0. FilesOK /\ RestOK /\ Started /\ DiskOK /\ EnsuredOK /\ MarkerOK /\ ServedOK /\ PairsOK
      /\ FailureHasCause /\ ClosingOK
  BY InvParts, Zenon
<1>1. /\ trusted' = {} /\ browsers' = {} /\ distrusted' = TRUE /\ fault' = (at # "down")
      /\ disk' = disk /\ pairs' = pairs /\ at' = at /\ start' = start
      /\ serving' = serving /\ open' = open /\ closers' = closers
  BY Zenon DEF Distrust, running
<1>2. FilesOK' /\ DiskOK' BY <1>0, <1>1, DiskKept, FilesKept, Zenon
<1>3. Started'
  <2>1. fault' \in BOOLEAN /\ distrusted' \in BOOLEAN BY Zenon, <1>1
  <2>. QED BY Zenon, <2>1, <1>0, <1>1 DEF Started
<1>4. RestOK' BY Zenon, <1>0, <1>1 DEF RestOK
<1>5. EnsuredOK' BY Zenon, <1>0, <1>1 DEF EnsuredOK, Whole, Exists
<1>6. MarkerOK' BY Zenon, <1>0, <1>1 DEF MarkerOK, Exists
<1>7. ServedOK' BY Zenon, <1>0, <1>1 DEF ServedOK, Whole, Exists
<1>8. PairsOK' BY Zenon, <1>0, <1>1 DEF PairsOK
<1>9. FailureHasCause' BY Zenon, <1>1 DEF FailureHasCause
<1>10. ClosingOK' BY Zenon, <1>0, <1>1 DEF ClosingOK, ExitAfterDrain
<1>. QED BY <1>2, <1>3, <1>4, <1>5, <1>6, <1>7, <1>8, <1>9, <1>10, InvOf, Zenon

LEMMA DesktopStutter ==
  ASSUME DesktopInv, UNCHANGED desktopVars PROVE DesktopInv'
<1>0. FilesOK /\ RestOK /\ Started /\ DiskOK /\ EnsuredOK /\ MarkerOK /\ ServedOK /\ PairsOK
      /\ FailureHasCause /\ ClosingOK
  BY InvParts, Zenon
<1>1. /\ trusted' = trusted /\ browsers' = browsers /\ distrusted' = distrusted /\ fault' = fault
      /\ disk' = disk /\ pairs' = pairs /\ at' = at /\ start' = start
      /\ serving' = serving /\ open' = open /\ closers' = closers
  BY Zenon DEF desktopVars
<1>2. FilesOK' /\ DiskOK' BY <1>0, <1>1, DiskKept, FilesKept, Zenon
<1>3. Started' BY Zenon, <1>0, <1>1 DEF Started
<1>4. RestOK' BY Zenon, <1>0, <1>1 DEF RestOK
<1>5. EnsuredOK' BY Zenon, <1>0, <1>1 DEF EnsuredOK, Whole, Exists
<1>6. MarkerOK' BY Zenon, <1>0, <1>1 DEF MarkerOK, Exists
<1>7. ServedOK' BY Zenon, <1>0, <1>1 DEF ServedOK, Whole, Exists
<1>8. PairsOK' BY Zenon, <1>0, <1>1 DEF PairsOK
<1>9. FailureHasCause' BY Zenon, <1>0, <1>1 DEF FailureHasCause
<1>10. ClosingOK' BY Zenon, <1>0, <1>1 DEF ClosingOK, ExitAfterDrain
<1>. QED BY <1>2, <1>3, <1>4, <1>5, <1>6, <1>7, <1>8, <1>9, <1>10, InvOf, Zenon

LEMMA DesktopStep == DesktopInv /\ [DesktopNext]_desktopVars => DesktopInv'
BY LaunchStep, LoadOrCreateCaStep, EnsureCaCertificateStep, LoadOrCreateCertificateStep,
   WriteFileStep, TrustStep, InstallStep, ServeStep, VerifyStep, InvalidateTrustStep,
   RequestsStep, CloserStep, GoneStep, OsFaultStep, DistrustStep, DesktopStutter, Zenon
   DEF DesktopNext

\* The invariant of starting, serving and closing.
THEOREM DesktopInvariant == DesktopSpec => []DesktopInv
BY DesktopInitInv, DesktopStep, PTL DEF DesktopSpec

\* Type correctness of DesktopServer.
THEOREM DesktopTypeCorrect == DesktopSpec => []DesktopTypeOK
<1>1. DesktopInv => DesktopTypeOK BY Zenon DEF DesktopInv
<1>. QED BY <1>1, DesktopInvariant, PTL

\* ensure_localhost_certificate: after any deaths, torn writes and failed installations, a
\* marker means that the authority on disk is in a trust store, unless the user took it out.
THEOREM MarkerTrusted == DesktopSpec => []MarkerMeansTrusted
<1>1. DesktopInv => MarkerMeansTrusted
  BY Zenon DEF DesktopInv, MarkerOK, DiskOK, Whole, MarkerMeansTrusted
<1>. QED BY <1>1, DesktopInvariant, PTL

\* Over whatever files earlier starts left, a start in which nothing fails opens the window;
\* the exceptions are a torn authority key or DER certificate (load_or_create_ca).
THEOREM StartsHeal == DesktopSpec => []FailureHasCause
<1>1. DesktopInv => FailureHasCause BY Zenon DEF DesktopInv
<1>. QED BY <1>1, DesktopInvariant, PTL

\* However many close the application at once, the process exits after the last request
\* has been answered (LocalhostServer::close).
THEOREM ExitDrained == DesktopSpec => []ExitAfterDrain
<1>1. DesktopInv => ExitAfterDrain BY Zenon DEF DesktopInv, ClosingOK
<1>. QED BY <1>1, DesktopInvariant, PTL
=============================================================================
