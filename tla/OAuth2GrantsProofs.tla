------------------------- MODULE OAuth2GrantsProofs --------------------------
(*****************************************************************************)
(* Proofs about OAuth2Grants for every set of users, clients, URIs, scopes   *)
(* and tasks and every bound; about ConflictResolution after them.           *)
(*                                                                           *)
(* None of the properties is inductive.  The invariant adds what a request   *)
(* in flight has established so far: a request about to create a code saw    *)
(* its consent; a request at the token endpoint works for a code of the      *)
(* same user and client and asks for no more than the code's scopes; past    *)
(* the mark that code is consumed; and a late request has not passed the     *)
(* check that stops it.  That late requests stay late rests on two facts:    *)
(* deleted users do not return, and no key is newer than its user's root.    *)
(*****************************************************************************)
EXTENDS OAuth2Grants, ConflictResolution, WellFoundedInduction, TLAPS

-----------------------------------------------------------------------------
(* Grants                                                                  *)

Call == [op : {"none", "approve", "revoke", "authorize", "redeem", "refresh", "exchange"},
         pc : {"idle", "approveClient", "findConsent", "insertConsent", "revokeFind",
               "revokeDelete", "authorizeClient", "authorizeConsent", "insertCode",
               "key", "user", "client", "consume", "mark", "issue"},
         user : User \cup {None}, key : Nat, client : Client \cup {None},
         uri : Uri \cup {None}, scopes : SUBSET Scope, id : Nat, late : BOOLEAN]

TokenOp == {"redeem", "refresh", "exchange"}

\* What a request is about, by where it stands.
CallOK(c) ==
  /\ c.pc \in {"approveClient", "findConsent", "insertConsent", "authorizeClient",
               "authorizeConsent", "insertCode"}
       => c.user \in User /\ c.client \in Client /\ c.uri \in Uri
  /\ c.pc \in {"key", "user", "client", "consume", "mark", "issue"} => c.op \in TokenOp
  /\ c.pc \in {"consume", "mark"} => c.op = "redeem"
  /\ c.op \in TokenOp => c.user \in User /\ c.client \in Client /\ c.key <= root[c.user]
  /\ c.op = "redeem" => c.id # 0
  /\ c.op = "authorize" => c.user \in User /\ c.key <= root[c.user]
  /\ c.pc \in {"approveClient", "findConsent", "insertConsent"} => c.op = "approve"
  /\ c.pc \in {"revokeFind", "revokeDelete"} => c.op = "revoke"
  /\ c.pc \in {"authorizeClient", "authorizeConsent", "insertCode"} => c.op = "authorize"

\* A request about to create a code saw a consent for exactly these scopes.
Consented(c) == \E i \in DOMAIN given : given[i] = ConsentOf(c)

\* A request at the token endpoint that goes back to a code stays within it.
WithinCode(c) ==
  c.id # 0 =>
    /\ c.id \in DOMAIN codes
    /\ c.user = codes[c.id].user /\ c.key = codes[c.id].key /\ c.client = codes[c.id].client
    /\ c.scopes \subseteq codes[c.id].scopes

Superseded(u, k) == u \notin users \/ k < root[u]

\* How far a late request can get.
LateOK(c) ==
  c.op \in TokenOp /\ c.late =>
    /\ Superseded(c.user, c.key)
    /\ c.pc = "user" => c.user \notin users
    /\ c.pc # "issue"
    /\ c.op = "redeem" => c.pc \in {"key", "user"}

TaskInv(c) ==
  /\ CallOK(c)
  /\ c.pc = "insertCode" => Consented(c)
  /\ c.op \in TokenOp => WithinCode(c)
  /\ c.op \in {"refresh", "exchange"} /\ c.id # 0 => codes[c.id].consumed
  /\ c.pc = "issue" /\ c.id # 0 => codes[c.id].consumed
  /\ LateOK(c)

TasksInv == \A t \in Task : TaskInv(tasks[t])

RowsInv ==
  /\ \A i \in DOMAIN codes : Consented(codes[i]) /\ codes[i].key <= root[codes[i].user]
  /\ \A tok \in tokens :
       /\ tok.code \in DOMAIN codes
       /\ tok.user = codes[tok.code].user /\ tok.key = codes[tok.code].key
       /\ tok.client = codes[tok.code].client
       /\ tok.scopes \subseteq codes[tok.code].scopes
       /\ codes[tok.code].consumed

TypeInv == TypeOK /\ tasks \in [Task -> Call]

IInv == TypeInv /\ RowsInv /\ TasksInv

---------------------------------------------------------------------------
(* What every step leaves to the requests it does not serve                *)

\* Users only go, keys only rotate, consents and codes only accumulate, and a
\* consumed code stays consumed.
Frame ==
  /\ users' \subseteq users
  /\ \A u \in User : root[u] <= root'[u]
  /\ \A i \in DOMAIN given : i \in DOMAIN given' /\ given'[i] = given[i]
  /\ \A i \in DOMAIN codes :
       /\ i \in DOMAIN codes'
       /\ codes'[i].user = codes[i].user /\ codes'[i].key = codes[i].key
       /\ codes'[i].client = codes[i].client /\ codes'[i].uri = codes[i].uri
       /\ codes'[i].scopes = codes[i].scopes
       /\ codes[i].consumed => codes'[i].consumed

\* A task keeps its part of the invariant through any step of the others.
LEMMA TaskStable ==
  ASSUME TypeInv, TypeInv', Frame, NEW t \in Task, TaskInv(tasks[t]), tasks'[t] = tasks[t]
  PROVE  TaskInv(tasks[t])'
<1> DEFINE c == tasks[t]
<1>1. c \in Call /\ tasks'[t] = c
  BY Zenon DEF TypeInv
<1>2. \A u \in User : root[u] \in Nat /\ root'[u] \in Nat
  BY DEF TypeInv, TypeOK
<1>3. \A i \in DOMAIN codes : codes[i] \in CodeRow
  BY DEF TypeInv, TypeOK
<1>4. CallOK(c)'
  BY <1>1, <1>2 DEF TaskInv, CallOK, Frame, Call
<1>5. (c.pc = "insertCode" => Consented(c))'
  BY <1>1 DEF TaskInv, Consented, ConsentOf, Frame
<1>6. (c.op \in TokenOp => WithinCode(c))'
  BY <1>1 DEF TaskInv, WithinCode, Frame
<1>7. (c.op \in {"refresh", "exchange"} /\ c.id # 0 => codes[c.id].consumed)'
  BY Zenon, <1>1 DEF TaskInv, WithinCode, Frame, TokenOp
<1>8. (c.pc = "issue" /\ c.id # 0 => codes[c.id].consumed)'
  BY Zenon, <1>1 DEF TaskInv, WithinCode, Frame, CallOK, TokenOp
<1>9. c.op \in TokenOp => c.user \in User /\ c.key \in Nat
  BY Zenon, <1>1 DEF TaskInv, CallOK, Call
<1>10. LateOK(c)'
  BY <1>1, <1>2, <1>9 DEF TaskInv, LateOK, Superseded, Frame
<1> QED
  BY Zenon, <1>1, <1>4, <1>5, <1>6, <1>7, <1>8, <1>10 DEF TaskInv

\* A request that ends leaves nothing to establish.
LEMMA IdleInv ==
  ASSUME NEW t \in Task, tasks'[t] = Idle
  PROVE  TaskInv(tasks[t])'
<1>1. (tasks[t]).op' = "none" /\ (tasks[t]).pc' = "idle"
  BY DEF Idle
<1> QED
  BY Zenon, <1>1 DEF TaskInv, CallOK, LateOK, TokenOp

\* The tables keep their part while no code and no token is added.
LEMMA RowsStable ==
  ASSUME TypeInv, TypeInv', RowsInv, Frame, tokens' = tokens, DOMAIN codes' = DOMAIN codes
  PROVE  RowsInv'
<1>1. \A u \in User : root[u] \in Nat /\ root'[u] \in Nat
  BY DEF TypeInv, TypeOK
<1>2. \A i \in DOMAIN codes : codes[i] \in CodeRow
  BY DEF TypeInv, TypeOK
<1>3. ASSUME NEW i \in DOMAIN codes'
      PROVE  Consented(codes[i])' /\ codes'[i].key <= root'[codes'[i].user]
  <2>1. Consented(codes[i]) /\ codes[i].key <= root[codes[i].user]
    BY Zenon, <1>3 DEF RowsInv
  <2>2. Consented(codes[i])'
    BY Zenon, <2>1, <1>3 DEF Consented, ConsentOf, Frame
  <2>3. codes'[i].key <= root'[codes'[i].user]
    BY <2>1, <1>1, <1>2, <1>3 DEF Frame, CodeRow
  <2> QED
    BY Zenon, <2>2, <2>3
<1> QED
  BY <1>3 DEF RowsInv, Frame

\* A step of task t preserves the invariant if t's own part is re-established.
LEMMA Combine ==
  ASSUME IInv, TypeInv', RowsInv', Frame, NEW t \in Task, TaskInv(tasks[t])',
         \A s \in Task : s # t => tasks'[s] = tasks[s]
  PROVE  IInv'
<1>1. ASSUME NEW s \in Task, s # t  PROVE TaskInv(tasks[s])'
  BY Zenon, <1>1, TaskStable DEF IInv, TasksInv
<1> QED
  BY Zenon, <1>1 DEF IInv, TasksInv

LEMMA IdleCall == Idle \in Call /\ TaskInv(Idle)
<1>1. Idle \in Call
  BY Zenon DEF Idle, Call
<1>2. Idle.op = "none" /\ Idle.pc = "idle"
  BY Zenon DEF Idle
<1> QED
  BY Zenon, <1>1, <1>2 DEF TaskInv, CallOK, LateOK, TokenOp

---------------------------------------------------------------------------
(* Steps that only read the tables                                         *)

LEMMA TaskOnly ==
  ASSUME IInv, NEW t \in Task, NEW c \in Call, TaskInv(c),
         tasks' = [tasks EXCEPT ![t] = c], UNCHANGED rows
  PROVE  IInv'
<1>1. tasks'[t] = c /\ \A s \in Task : s # t => tasks'[s] = tasks[s]
  BY Zenon DEF IInv, TypeInv
<1>2. TypeInv'
  BY Zenon DEF IInv, TypeInv, TypeOK, rows
<1>3. Frame
  BY DEF Frame, rows, IInv, TypeInv, TypeOK
<1>4. RowsInv'
  BY Zenon DEF IInv, RowsInv, rows, Consented
<1>5. TaskInv(tasks[t])'
  BY <1>1 DEF rows, TaskInv, CallOK, Consented, WithinCode, LateOK, Superseded
<1> QED
  BY Zenon, <1>1, <1>2, <1>3, <1>4, <1>5, Combine

LEMMA ReturnOnly ==
  ASSUME IInv, NEW t \in Task, Return(t), UNCHANGED rows
  PROVE  IInv'
BY ZenonT(60), TaskOnly, IdleCall DEF Return

\* Moving to another place in the request.
LEMMA GotoCall ==
  ASSUME IInv, NEW t \in Task, NEW pc, Goto(t, pc),
         pc \in {"findConsent", "insertConsent", "revokeDelete", "authorizeConsent",
                 "insertCode", "key", "user", "client", "consume", "mark", "issue"}
  PROVE  \E c \in Call :
           /\ tasks' = [tasks EXCEPT ![t] = c]
           /\ c.op = tasks[t].op /\ c.pc = pc /\ c.user = tasks[t].user /\ c.key = tasks[t].key
           /\ c.client = tasks[t].client /\ c.uri = tasks[t].uri /\ c.scopes = tasks[t].scopes
           /\ c.id = tasks[t].id /\ c.late = tasks[t].late
<1>1. tasks[t] \in Call /\ tasks \in [Task -> Call]
  BY Zenon DEF IInv, TypeInv
<1> DEFINE c == [tasks[t] EXCEPT !.pc = pc]
<1>2. c \in Call
  BY Zenon, <1>1 DEF Call
<1>3. tasks' = [tasks EXCEPT ![t] = c]
  BY Zenon, <1>1 DEF Goto
<1>4. /\ c.op = tasks[t].op /\ c.pc = pc /\ c.user = tasks[t].user /\ c.key = tasks[t].key
      /\ c.client = tasks[t].client /\ c.uri = tasks[t].uri /\ c.scopes = tasks[t].scopes
      /\ c.id = tasks[t].id /\ c.late = tasks[t].late
  BY Zenon, <1>1 DEF Call
<1> QED
  BY ZenonT(60), <1>2, <1>3, <1>4

\* The facts a step about task t starts from.
LEMMA TaskFacts ==
  ASSUME IInv, NEW t \in Task
  PROVE  /\ tasks \in [Task -> Call] /\ tasks[t] \in Call
         /\ TaskInv(tasks[t])
         /\ tasks[t].op \in TokenOp =>
              /\ tasks[t].user \in User /\ tasks[t].key \in Nat /\ tasks[t].client \in Client
              /\ tasks[t].key <= root[tasks[t].user]
         /\ \A u \in User : root[u] \in Nat
<1>1. tasks \in [Task -> Call] /\ tasks[t] \in Call /\ TaskInv(tasks[t])
  BY Zenon DEF IInv, TypeInv, TasksInv
<1>2. \A u \in User : root[u] \in Nat
  BY DEF IInv, TypeInv, TypeOK
<1> QED
  BY Zenon, <1>1, <1>2 DEF TaskInv, CallOK, Call

LEMMA ApproveInv ==
  ASSUME IInv, NEW t \in Task, NEW u \in User, NEW c \in Client, NEW r \in Uri,
         NEW s \in SUBSET Scope, Approve(t, u, c, r, s)
  PROVE  IInv'
<1> DEFINE d == [Idle EXCEPT !.op = "approve", !.pc = "approveClient", !.user = u,
                             !.client = c, !.uri = r, !.scopes = s]
<1>1. d \in Call /\ d.op = "approve" /\ d.pc = "approveClient"
      /\ d.user \in User /\ d.client \in Client /\ d.uri \in Uri
  BY ZenonT(60) DEF Idle, Call
<1>2. TaskInv(d)
  BY Zenon, <1>1 DEF TaskInv, CallOK, LateOK, TokenOp
<1>3. tasks' = [tasks EXCEPT ![t] = d] /\ UNCHANGED rows
  BY Zenon DEF Approve, Start
<1> HIDE DEF d
<1> QED
  BY ZenonT(60), <1>1, <1>2, <1>3, TaskOnly

LEMMA AuthorizeInv ==
  ASSUME IInv, NEW t \in Task, NEW u \in User, NEW c \in Client, NEW r \in Uri,
         NEW s \in SUBSET Scope, Authorize(t, u, c, r, s)
  PROVE  IInv'
<1>0. PICK k \in Nat : k = root[u]
  BY Zenon, TaskFacts
<1> DEFINE d == [Idle EXCEPT !.op = "authorize", !.pc = "authorizeClient", !.user = u,
                             !.key = k, !.client = c, !.uri = r, !.scopes = s]
<1>1. d \in Call /\ d.op = "authorize" /\ d.pc = "authorizeClient"
      /\ d.user = u /\ d.key = k /\ d.client \in Client /\ d.uri \in Uri
  BY Zenon DEF Idle, Call
<1>2. TaskInv(d)
  BY <1>0, <1>1 DEF TaskInv, CallOK, LateOK, TokenOp
<1>3. tasks' = [tasks EXCEPT ![t] = d] /\ UNCHANGED rows
  BY Zenon, <1>0 DEF Authorize, Start
<1> HIDE DEF d
<1> QED
  BY ZenonT(60), <1>1, <1>2, <1>3, TaskOnly

LEMMA RevokeConsentInv ==
  ASSUME IInv, NEW t \in Task, NEW u \in User, NEW i \in DOMAIN given, RevokeConsent(t, u, i)
  PROVE  IInv'
<1> DEFINE d == [Idle EXCEPT !.op = "revoke", !.pc = "revokeFind", !.user = u, !.id = i]
<1>0. i \in Nat
  BY DEF IInv, TypeInv, TypeOK
<1>1. d \in Call /\ d.op = "revoke" /\ d.pc = "revokeFind"
  BY ZenonT(60), <1>0 DEF Idle, Call
<1>2. TaskInv(d)
  BY Zenon, <1>1 DEF TaskInv, CallOK, LateOK, TokenOp
<1>3. tasks' = [tasks EXCEPT ![t] = d] /\ UNCHANGED rows
  BY Zenon DEF RevokeConsent, Start
<1> HIDE DEF d
<1> QED
  BY ZenonT(60), <1>1, <1>2, <1>3, TaskOnly

LEMMA ReadClientInv ==
  ASSUME IInv, NEW t \in Task, ApproveClient(t) \/ AuthorizeClient(t)
  PROVE  IInv'
<1>0. PICK next \in {"findConsent", "authorizeConsent"} :
        /\ ReadClient(t, next)
        /\ next = "findConsent" => tasks[t].pc = "approveClient"
        /\ next = "authorizeConsent" => tasks[t].pc = "authorizeClient"
  BY Zenon DEF ApproveClient, AuthorizeClient
<1>1. CASE Return(t)
  BY Zenon, <1>0, <1>1, ReturnOnly DEF ReadClient
<1>2. CASE ~Return(t)
  <2> DEFINE e == [tasks[t] EXCEPT !.pc = next,
                     !.scopes = IntersectScopes(tasks[t].scopes, clients[tasks[t].client].scopes)]
  <2>1. /\ tasks' = [tasks EXCEPT ![t].pc = next,
                       ![t].scopes = IntersectScopes(tasks[t].scopes, clients[tasks[t].client].scopes)]
        /\ clients[tasks[t].client] # None /\ UNCHANGED rows
    BY Zenon, <1>0, <1>2 DEF ReadClient
  <2>2. tasks \in [Task -> Call] /\ tasks[t] \in Call /\ CallOK(tasks[t])
    BY Zenon, TaskFacts DEF TaskInv
  <2>3. tasks[t].user \in User /\ tasks[t].client \in Client /\ tasks[t].uri \in Uri
    BY Zenon, <1>0, <2>2 DEF CallOK
  <2>4. clients[tasks[t].client] \in Registration
    BY Zenon, <2>1, <2>3 DEF IInv, TypeInv, TypeOK
  <2>5. IntersectScopes(tasks[t].scopes, clients[tasks[t].client].scopes) \in SUBSET Scope
    BY Zenon, <2>2, <2>4, RegistrationAssumption DEF IntersectScopes, Call
  <2>6. e \in Call /\ e.op = tasks[t].op /\ e.pc = next /\ e.user = tasks[t].user
        /\ e.key = tasks[t].key /\ e.client = tasks[t].client /\ e.uri = tasks[t].uri
    BY ZenonT(60), <2>2, <2>5 DEF Call
  <2>7. tasks' = [tasks EXCEPT ![t] = e]
    BY ZenonT(60), <2>1, <2>2
  <2>8. /\ next = "findConsent" => tasks[t].op = "approve"
        /\ next = "authorizeConsent" => tasks[t].op = "authorize"
    BY Zenon, <1>0, <2>2 DEF CallOK
  <2> HIDE DEF e
  <2>9. PICK d \in Call : d = e
    BY Zenon, <2>6
  <2>10. TaskInv(d)
    BY Zenon, <1>0, <2>2, <2>3, <2>6, <2>8, <2>9 DEF TaskInv, CallOK, LateOK, TokenOp
  <2> QED
    BY ZenonT(60), <2>1, <2>7, <2>9, <2>10, TaskOnly
<1> QED
  BY Zenon, <1>1, <1>2

\* A check that fails ends the request; one that holds moves it on.
LEMMA CheckInv ==
  ASSUME IInv, NEW t \in Task, NEW ok, NEW pc, Check(t, ok, pc), UNCHANGED rows,
         pc \in {"insertConsent", "revokeDelete", "insertCode",
                 "key", "user", "client", "consume", "mark", "issue"},
         \A c \in Call :
           /\ c.op = tasks[t].op /\ c.pc = pc /\ c.user = tasks[t].user /\ c.key = tasks[t].key
           /\ c.client = tasks[t].client /\ c.uri = tasks[t].uri /\ c.scopes = tasks[t].scopes
           /\ c.id = tasks[t].id /\ c.late = tasks[t].late
           /\ ok
           => TaskInv(c)
  PROVE  IInv'
<1>1. CASE ok
  <2>1. Goto(t, pc)
    BY Zenon, <1>1 DEF Check
  <2>2. PICK c \in Call :
           /\ tasks' = [tasks EXCEPT ![t] = c]
           /\ c.op = tasks[t].op /\ c.pc = pc /\ c.user = tasks[t].user /\ c.key = tasks[t].key
           /\ c.client = tasks[t].client /\ c.uri = tasks[t].uri /\ c.scopes = tasks[t].scopes
           /\ c.id = tasks[t].id /\ c.late = tasks[t].late
    BY <2>1, GotoCall
  <2>3. TaskInv(c)
    BY Zenon, <1>1, <2>2
  <2> QED
    BY ZenonT(60), <2>2, <2>3, TaskOnly
<1>2. CASE ~ok
  BY Zenon, <1>2, ReturnOnly DEF Check
<1> QED
  BY Zenon, <1>1, <1>2

LEMMA FindConsentInv ==
  ASSUME IInv, NEW t \in Task, FindConsent(t)
  PROVE  IInv'
<1>1. tasks[t].pc = "findConsent" /\ CallOK(tasks[t])
  BY Zenon, TaskFacts DEF FindConsent, TaskInv
<1>2. PICK ok \in BOOLEAN : ok = (Matching(tasks[t]) = {})
  BY Zenon
<1>3. Check(t, ok, "insertConsent") /\ UNCHANGED rows
  BY Zenon, <1>2 DEF FindConsent
<1>4. ASSUME NEW c \in Call, c.op = tasks[t].op, c.pc = "insertConsent",
             c.user = tasks[t].user, c.client = tasks[t].client, c.uri = tasks[t].uri
      PROVE  TaskInv(c)
  BY Zenon, <1>1, <1>4 DEF TaskInv, CallOK, LateOK, TokenOp
<1> QED
  BY <1>3, <1>4, CheckInv

LEMMA RevokeFindInv ==
  ASSUME IInv, NEW t \in Task, RevokeFind(t)
  PROVE  IInv'
<1>1. tasks[t].pc = "revokeFind" /\ CallOK(tasks[t])
  BY Zenon, TaskFacts DEF RevokeFind, TaskInv
<1>2. PICK ok \in BOOLEAN :
        ok = (tasks[t].id \in consents /\ given[tasks[t].id].user = tasks[t].user)
  BY Zenon
<1>3. Check(t, ok, "revokeDelete") /\ UNCHANGED rows
  BY Zenon, <1>2 DEF RevokeFind
<1>4. ASSUME NEW c \in Call, c.op = tasks[t].op, c.pc = "revokeDelete"
      PROVE  TaskInv(c)
  BY Zenon, <1>1, <1>4 DEF TaskInv, CallOK, LateOK, TokenOp
<1> QED
  BY <1>3, <1>4, CheckInv

LEMMA AuthorizeConsentInv ==
  ASSUME IInv, NEW t \in Task, AuthorizeConsent(t)
  PROVE  IInv'
<1>1. tasks[t].pc = "authorizeConsent" /\ CallOK(tasks[t])
  BY Zenon, TaskFacts DEF AuthorizeConsent, TaskInv
<1>2. PICK ok \in BOOLEAN : ok = (Matching(tasks[t]) # {})
  BY Zenon
<1>3. Check(t, ok, "insertCode") /\ UNCHANGED rows
  BY Zenon, <1>2 DEF AuthorizeConsent
<1>4. ok => \E i \in DOMAIN given : given[i] = ConsentOf(tasks[t])
  BY ZenonT(60), <1>2 DEF Matching, IInv, TypeInv, TypeOK
<1>5. ASSUME NEW c \in Call, c.op = tasks[t].op, c.pc = "insertCode", c.user = tasks[t].user,
             c.key = tasks[t].key, c.client = tasks[t].client, c.uri = tasks[t].uri,
             c.scopes = tasks[t].scopes, ok
      PROVE  TaskInv(c)
  <2>1. Consented(c)
    BY Zenon, <1>4, <1>5 DEF Consented, ConsentOf
  <2>2. CallOK(c) /\ c.op = "authorize"
    BY Zenon, <1>1, <1>5 DEF CallOK
  <2> QED
    BY Zenon, <1>5, <2>1, <2>2 DEF TaskInv, LateOK, TokenOp
<1> QED
  BY <1>3, <1>5, CheckInv

LEMMA RedeemInv ==
  ASSUME IInv, NEW t \in Task, NEW i \in DOMAIN codes, Redeem(t, i)
  PROVE  IInv'
<1>1. PICK r \in CodeRow : r = codes[i]
  BY DEF IInv, TypeInv, TypeOK
<1>2. r.key <= root[r.user] /\ r.user \in User /\ r.key \in Nat /\ root[r.user] \in Nat
  BY Zenon, <1>1, TaskFacts DEF IInv, RowsInv, CodeRow
<1>3. PICK late \in BOOLEAN : late = Late(r.user, r.key)
  BY ZenonT(60) DEF Late
<1> DEFINE d == [Idle EXCEPT !.op = "redeem", !.pc = "key", !.user = r.user, !.key = r.key,
                             !.client = r.client, !.uri = r.uri, !.scopes = r.scopes,
                             !.id = i, !.late = late]
<1>4. i \in Nat
  BY DEF IInv, TypeInv, TypeOK
<1>5. /\ d \in Call /\ d.op = "redeem" /\ d.pc = "key" /\ d.user = r.user /\ d.key = r.key
      /\ d.client = r.client /\ d.scopes = r.scopes /\ d.id = i /\ d.late = late
  BY Zenon, <1>4 DEF Idle, Call, CodeRow
<1>6. tasks' = [tasks EXCEPT ![t] = d] /\ UNCHANGED rows
  BY Zenon, <1>1, <1>3 DEF Redeem, Start
<1> HIDE DEF d
<1>7. CallOK(d) /\ WithinCode(d)
  <2>1. i # 0
    BY <1>1 DEF IInv, TypeInv, TypeOK
  <2> QED
    BY Zenon, <1>1, <1>2, <1>5, <2>1 DEF CallOK, WithinCode, TokenOp, CodeRow
<1>8. LateOK(d)
  <2>1. Late(r.user, r.key) => Superseded(r.user, r.key)
    BY <1>2 DEF Late, Superseded
  <2>2. late => Superseded(r.user, r.key)
    BY <1>3, <2>1, Zenon
  <2> QED
    BY Zenon, <1>5, <2>2 DEF LateOK
<1>9. TaskInv(d)
  BY Zenon, <1>5, <1>7, <1>8 DEF TaskInv
<1> QED
  BY ZenonT(60), <1>5, <1>6, <1>9, TaskOnly

LEMMA TradeInv ==
  ASSUME IInv, NEW t \in Task, NEW op \in {"refresh", "exchange"},
         NEW tok \in tokens \cup Decoded, NEW s \in SUBSET Scope, Trade(t, op, tok, s)
  PROVE  IInv'
<1>1. tok \in TokenSet
  <2>1. CASE tok \in tokens  BY <2>1 DEF IInv, TypeInv, TypeOK
  <2>2. CASE tok \in Decoded  BY <2>2, BoundAssumption DEF Decoded, TokenSet
  <2> QED BY <2>1, <2>2, Zenon
<1>2. tok.code # 0 =>
        /\ tok.code \in DOMAIN codes
        /\ tok.user = codes[tok.code].user /\ tok.key = codes[tok.code].key
        /\ tok.client = codes[tok.code].client /\ tok.scopes \subseteq codes[tok.code].scopes
        /\ codes[tok.code].consumed
  <2>1. CASE tok \in tokens  BY Zenon, <2>1 DEF IInv, RowsInv
  <2>2. CASE tok \in Decoded  BY <2>2 DEF Decoded
  <2> QED BY <2>1, <2>2, Zenon
<1>3. /\ tok.key <= root[tok.user] /\ tok.user \in User /\ tok.client \in Client
      /\ tok.key \in Nat /\ root[tok.user] \in Nat
  BY Zenon, <1>1, TaskFacts DEF Trade, TokenSet
<1>4. PICK late \in BOOLEAN : late = Late(tok.user, tok.key)
  BY ZenonT(60) DEF Late
<1>5. PICK scopes \in SUBSET Scope :
        scopes = IntersectScopes(s, tok.scopes) /\ scopes \subseteq tok.scopes
  BY ZenonT(60), <1>1 DEF IntersectScopes, TokenSet
<1> DEFINE d == [Idle EXCEPT !.op = op, !.pc = "client", !.user = tok.user, !.key = tok.key,
                             !.client = tok.client, !.scopes = scopes,
                             !.id = tok.code, !.late = late]
<1>6. /\ d \in Call /\ d.op = op /\ d.pc = "client" /\ d.user = tok.user /\ d.key = tok.key
      /\ d.client = tok.client /\ d.scopes = scopes /\ d.id = tok.code /\ d.late = late
  BY Zenon, <1>1 DEF Idle, Call, TokenSet
<1>7. tasks' = [tasks EXCEPT ![t] = d] /\ UNCHANGED rows
  BY Zenon, <1>4, <1>5 DEF Trade, Start
<1> HIDE DEF d
<1>8. CallOK(d) /\ WithinCode(d)
  BY Zenon, <1>2, <1>3, <1>5, <1>6 DEF CallOK, WithinCode, TokenOp
<1>9. LateOK(d)
  <2>1. Late(tok.user, tok.key) => Superseded(tok.user, tok.key)
    BY <1>3 DEF Late, Superseded
  <2>2. late => Superseded(tok.user, tok.key)
    BY <1>4, <2>1, Zenon
  <2> QED
    BY Zenon, <1>6, <2>2 DEF LateOK
<1>10. TaskInv(d)
  BY Zenon, <1>2, <1>6, <1>8, <1>9 DEF TaskInv
<1> QED
  BY ZenonT(60), <1>6, <1>7, <1>10, TaskOnly

\* find_principal stops a late request: the key is no longer the root key, or
\* the user is gone.
LEMMA FindKeyInv ==
  ASSUME IInv, NEW t \in Task, FindKey(t)
  PROVE  IInv'
<1>1. tasks[t].pc = "key" /\ TaskInv(tasks[t]) /\ tasks[t].op \in TokenOp
  BY Zenon, TaskFacts DEF FindKey, TaskInv, CallOK
<1>2. tasks[t].user \in User /\ tasks[t].key \in Nat /\ root[tasks[t].user] \in Nat
  BY Zenon, <1>1, TaskFacts
<1>3. PICK ok \in BOOLEAN : ok = (root[tasks[t].user] = tasks[t].key)
  BY Zenon
<1>4. Check(t, ok, "user") /\ UNCHANGED rows
  BY Zenon, <1>3 DEF FindKey
<1>5. ASSUME NEW c \in Call, c.op = tasks[t].op, c.pc = "user", c.user = tasks[t].user,
             c.key = tasks[t].key, c.client = tasks[t].client, c.scopes = tasks[t].scopes,
             c.id = tasks[t].id, c.late = tasks[t].late, ok
      PROVE  TaskInv(c)
  <2>1. CallOK(c) /\ WithinCode(c)
    BY Zenon, <1>1, <1>5 DEF TaskInv, CallOK, WithinCode, TokenOp
  <2>2. root[tasks[t].user] = tasks[t].key
    BY <1>3, <1>5, Zenon
  <2>3. Superseded(c.user, c.key) => c.user \notin users
    BY <1>2, <1>5, <2>2 DEF Superseded
  <2>4. LateOK(tasks[t])
    BY Zenon, <1>1 DEF TaskInv
  <2>5. LateOK(c)
    BY Zenon, <1>1, <1>5, <2>3, <2>4 DEF LateOK
  <2> QED
    BY Zenon, <1>1, <1>5, <2>1, <2>5 DEF TaskInv
<1> QED
  BY <1>4, <1>5, CheckInv

LEMMA FindUserInv ==
  ASSUME IInv, NEW t \in Task, FindUser(t)
  PROVE  IInv'
<1>1. tasks[t].pc = "user" /\ TaskInv(tasks[t]) /\ tasks[t].op \in TokenOp
  BY Zenon, TaskFacts DEF FindUser, TaskInv, CallOK
<1>2. PICK ok \in BOOLEAN : ok <=> tasks[t].user \in users
  BY Zenon
<1>3. PICK pc \in {"client", "issue"} :
        /\ pc = IF tasks[t].op = "redeem" THEN "client" ELSE "issue"
        /\ Check(t, ok, pc) /\ UNCHANGED rows
  BY Zenon, <1>2 DEF FindUser, Check
<1>4. ASSUME NEW c \in Call, c.op = tasks[t].op, c.pc = pc, c.user = tasks[t].user,
             c.key = tasks[t].key, c.client = tasks[t].client, c.scopes = tasks[t].scopes,
             c.id = tasks[t].id, c.late = tasks[t].late, ok
      PROVE  TaskInv(c)
  <2>1. CallOK(c) /\ WithinCode(c)
    BY Zenon, <1>1, <1>3, <1>4 DEF TaskInv, CallOK, WithinCode, TokenOp
  <2>2. LateOK(c)
    BY Zenon, <1>1, <1>2, <1>3, <1>4 DEF TaskInv, LateOK
  <2>3. c.op \in {"refresh", "exchange"} /\ c.id # 0 => codes[c.id].consumed
    BY Zenon, <1>1, <1>4 DEF TaskInv
  <2>4. c.pc = "issue" /\ c.id # 0 => codes[c.id].consumed
    BY Zenon, <1>1, <1>3, <1>4, <2>3 DEF TokenOp
  <2> QED
    BY Zenon, <1>3, <1>4, <2>1, <2>2, <2>3, <2>4 DEF TaskInv
<1> QED
  BY <1>3, <1>4, CheckInv

LEMMA FindClientInv ==
  ASSUME IInv, NEW t \in Task, FindClient(t)
  PROVE  IInv'
<1>1. tasks[t].pc = "client" /\ TaskInv(tasks[t]) /\ tasks[t].op \in TokenOp
  BY Zenon, TaskFacts DEF FindClient, TaskInv, CallOK
<1>2. PICK ok \in BOOLEAN : ok = (clients[tasks[t].client] # None)
  BY Zenon
<1>3. PICK pc \in {"consume", "key"} :
        /\ pc = IF tasks[t].op = "redeem" THEN "consume" ELSE "key"
        /\ Check(t, ok, pc) /\ UNCHANGED rows
  BY Zenon, <1>2 DEF FindClient
<1>4. ASSUME NEW c \in Call, c.op = tasks[t].op, c.pc = pc, c.user = tasks[t].user,
             c.key = tasks[t].key, c.client = tasks[t].client, c.scopes = tasks[t].scopes,
             c.id = tasks[t].id, c.late = tasks[t].late
      PROVE  TaskInv(c)
  <2>1. CallOK(c) /\ WithinCode(c)
    BY Zenon, <1>1, <1>3, <1>4 DEF TaskInv, CallOK, WithinCode, TokenOp
  <2>2. LateOK(c)
    BY Zenon, <1>1, <1>3, <1>4 DEF TaskInv, LateOK
  <2> QED
    BY Zenon, <1>1, <1>3, <1>4, <2>1, <2>2 DEF TaskInv
<1> QED
  BY <1>3, <1>4, CheckInv

LEMMA ConsumeReadInv ==
  ASSUME IInv, NEW t \in Task, ConsumeRead(t)
  PROVE  IInv'
<1>1. tasks[t].pc = "consume" /\ TaskInv(tasks[t]) /\ tasks[t].op = "redeem"
  BY Zenon, TaskFacts DEF ConsumeRead, TaskInv, CallOK
<1>2. PICK ok \in BOOLEAN : ok = (~codes[tasks[t].id].consumed)
  BY Zenon
<1>3. Check(t, ok, "mark") /\ UNCHANGED rows
  BY Zenon, <1>2 DEF ConsumeRead
<1>4. ASSUME NEW c \in Call, c.op = tasks[t].op, c.pc = "mark", c.user = tasks[t].user,
             c.key = tasks[t].key, c.client = tasks[t].client, c.scopes = tasks[t].scopes,
             c.id = tasks[t].id, c.late = tasks[t].late
      PROVE  TaskInv(c)
  BY Zenon, <1>1, <1>4 DEF TaskInv, CallOK, WithinCode, LateOK, TokenOp
<1> QED
  BY <1>3, <1>4, CheckInv

---------------------------------------------------------------------------
(* Steps that write to the tables                                          *)

\* Returning from t after a write that adds neither a code nor a token.
LEMMA ReturnAfterWrite ==
  ASSUME IInv, NEW t \in Task, Return(t), TypeOK', Frame,
         tokens' = tokens, DOMAIN codes' = DOMAIN codes
  PROVE  IInv'
<1>1. /\ tasks' \in [Task -> Call] /\ tasks'[t] = Idle
      /\ \A s \in Task : s # t => tasks'[s] = tasks[s]
  BY Zenon, IdleCall DEF Return, IInv, TypeInv
<1>2. TypeInv'
  BY Zenon, <1>1 DEF TypeInv
<1>3. RowsInv'
  BY Zenon, <1>2, RowsStable DEF IInv
<1> QED
  BY Zenon, <1>1, <1>2, <1>3, IdleInv, Combine

\* A write outside any request that adds neither a code nor a token.
LEMMA WriteOnly ==
  ASSUME IInv, TypeOK', Frame, tasks' = tasks, tokens' = tokens, DOMAIN codes' = DOMAIN codes
  PROVE  IInv'
<1>1. TypeInv'
  BY Zenon DEF IInv, TypeInv
<1>2. RowsInv'
  BY Zenon, <1>1, RowsStable DEF IInv
<1>3. ASSUME NEW s \in Task  PROVE TaskInv(tasks[s])'
  BY Zenon, <1>1, <1>3, TaskStable DEF IInv, TasksInv
<1> QED
  BY Zenon, <1>1, <1>2, <1>3 DEF IInv, TasksInv

LEMMA InsertConsentInv ==
  ASSUME IInv, NEW t \in Task, InsertConsent(t)
  PROVE  IInv'
<1>1. TypeOK /\ tasks[t] \in Call /\ CallOK(tasks[t]) /\ tasks[t].pc = "insertConsent"
  BY Zenon, TaskFacts DEF IInv, TypeInv, TaskInv, InsertConsent
<1>2. CASE Matching(tasks[t]) = {}
  <2>1. PICK k \in Consent : k = ConsentOf(tasks[t])
    BY ZenonT(60), <1>1 DEF CallOK, Call, ConsentOf, Consent
  <2>2. given' = Append(given, k) /\ consents' = consents \cup {Len(given) + 1}
    BY Zenon, <1>2, <2>1 DEF InsertConsent
  <2>3. given \in Seq(Consent) /\ consents \subseteq DOMAIN given
    BY Zenon, <1>1 DEF TypeOK
  <2>4. given' \in Seq(Consent) /\ consents' \subseteq DOMAIN given'
    BY <2>2, <2>3
  <2>5. \A i \in DOMAIN given : i \in DOMAIN given' /\ given'[i] = given[i]
    BY <2>2, <2>3
  <2>6. UNCHANGED <<users, root, clients, codes, tokens, redeemed>> /\ Return(t)
    BY Zenon DEF InsertConsent
  <2>7. TypeOK'
    BY Zenon, <1>1, <2>4, <2>6 DEF TypeOK, Return
  <2>8. Frame
    BY <1>1, <2>5, <2>6 DEF TypeOK, Frame
  <2> QED
    BY Zenon, <2>6, <2>7, <2>8, ReturnAfterWrite
<1>3. CASE Matching(tasks[t]) # {}
  BY Zenon, <1>3, ReturnOnly DEF InsertConsent, rows
<1> QED
  BY Zenon, <1>2, <1>3

LEMMA RevokeDeleteInv ==
  ASSUME IInv, NEW t \in Task, RevokeDelete(t)
  PROVE  IInv'
<1>1. TypeOK' /\ Frame
  BY DEF IInv, TypeInv, TypeOK, RevokeDelete, Return, Frame
<1> QED
  BY Zenon, <1>1, ReturnAfterWrite DEF RevokeDelete

LEMMA InsertCodeInv ==
  ASSUME IInv, NEW t \in Task, InsertCode(t)
  PROVE  IInv'
<1> DEFINE c == tasks[t]
           e == [user |-> c.user, key |-> c.key, client |-> c.client, uri |-> c.uri,
                 scopes |-> c.scopes, consumed |-> FALSE, expired |-> FALSE]
<1>1. TypeOK /\ c \in Call /\ TaskInv(c) /\ c.pc = "insertCode"
  BY Zenon, TaskFacts DEF IInv, TypeInv, InsertCode
<1>2. /\ c.user \in User /\ c.client \in Client /\ c.uri \in Uri /\ c.key \in Nat
      /\ c.scopes \in SUBSET Scope /\ c.key <= root[c.user] /\ Consented(c)
  BY Zenon, <1>1 DEF TaskInv, CallOK, Call
<1>3. e \in CodeRow
  BY Zenon, <1>2 DEF CodeRow
<1>4. Consented(e)
  BY Zenon, <1>2 DEF Consented, ConsentOf
<1>5. PICK r \in CodeRow : r = e
  BY Zenon, <1>3
<1>6. /\ codes' = Append(codes, r) /\ redeemed' = Append(redeemed, 0) /\ Return(t)
      /\ UNCHANGED <<users, root, clients, given, consents, tokens>>
  BY Zenon, <1>5 DEF InsertCode
<1>7. Consented(r) /\ r.key <= root[r.user]
  BY Zenon, <1>2, <1>4, <1>5
<1> HIDE DEF c, e
<1>8. codes \in Seq(CodeRow) /\ redeemed \in Seq(Nat) /\ Len(redeemed) = Len(codes)
  BY Zenon, <1>1 DEF TypeOK
<1>9. /\ codes' \in Seq(CodeRow) /\ redeemed' \in Seq(Nat) /\ Len(redeemed') = Len(codes')
      /\ DOMAIN codes' = DOMAIN codes \cup {Len(codes) + 1}
      /\ \A i \in DOMAIN codes : codes'[i] = codes[i]
      /\ codes'[Len(codes) + 1] = r
  BY <1>6, <1>8
<1>10. /\ tasks' \in [Task -> Call] /\ tasks'[t] = Idle
       /\ \A s \in Task : s # t => tasks'[s] = tasks[s]
  BY Zenon, <1>6, IdleCall DEF Return, IInv, TypeInv
<1>11. TypeInv'
  BY Zenon, <1>1, <1>6, <1>9, <1>10 DEF TypeInv, TypeOK
<1>12. Frame
  BY <1>1, <1>6, <1>9 DEF TypeOK, Frame
<1>13. RowsInv'
  <2>1. ASSUME NEW i \in DOMAIN codes'
        PROVE  (Consented(codes[i]) /\ codes[i].key <= root[codes[i].user])'
    <3>1. CASE i \in DOMAIN codes
      BY Zenon, <1>6, <1>9, <3>1 DEF IInv, RowsInv, Consented, ConsentOf
    <3>2. CASE i = Len(codes) + 1
      BY Zenon, <1>6, <1>7, <1>9, <3>2 DEF Consented, ConsentOf
    <3> QED
      BY Zenon, <1>9, <2>1, <3>1, <3>2
  <2>2. \A tok \in tokens : tok.code \in DOMAIN codes
    BY Zenon DEF IInv, RowsInv
  <2> QED
    BY <1>6, <1>9, <2>1, <2>2 DEF IInv, RowsInv
<1> QED
  BY Zenon, <1>10, <1>11, <1>12, <1>13, IdleInv, Combine

\* Replacing an element of a sequence.
LEMMA SeqExcept ==
  ASSUME NEW S, NEW s \in Seq(S), NEW j \in DOMAIN s, NEW e \in S
  PROVE  /\ [s EXCEPT ![j] = e] \in Seq(S)
         /\ Len([s EXCEPT ![j] = e]) = Len(s) /\ DOMAIN [s EXCEPT ![j] = e] = DOMAIN s
OBVIOUS

\* After the mark the code is consumed, for this request and for all others.
LEMMA ConsumeWriteInv ==
  ASSUME IInv, NEW t \in Task, ConsumeWrite(t)
  PROVE  IInv'
<1>1. TypeOK /\ tasks[t].pc = "mark" /\ TaskInv(tasks[t]) /\ tasks[t].op = "redeem"
  BY Zenon, TaskFacts DEF IInv, TypeInv, ConsumeWrite, TaskInv, CallOK
<1>2. PICK j \in DOMAIN codes : j = tasks[t].id
  BY Zenon, <1>1 DEF TaskInv, CallOK, WithinCode, TokenOp
<1>3. /\ codes' = [codes EXCEPT ![j].consumed = TRUE] /\ Goto(t, "issue")
      /\ UNCHANGED <<users, root, clients, given, consents, tokens, redeemed>>
  BY Zenon, <1>2 DEF ConsumeWrite
<1>4. PICK c \in Call :
        /\ tasks' = [tasks EXCEPT ![t] = c]
        /\ c.op = tasks[t].op /\ c.pc = "issue" /\ c.user = tasks[t].user /\ c.key = tasks[t].key
        /\ c.client = tasks[t].client /\ c.uri = tasks[t].uri /\ c.scopes = tasks[t].scopes
        /\ c.id = tasks[t].id /\ c.late = tasks[t].late
  BY <1>3, GotoCall
<1>5. /\ tasks' \in [Task -> Call] /\ tasks'[t] = c
      /\ \A s \in Task : s # t => tasks'[s] = tasks[s]
  BY Zenon, <1>4 DEF IInv, TypeInv
<1>6. codes \in Seq(CodeRow) /\ redeemed \in Seq(Nat) /\ Len(redeemed) = Len(codes)
  BY Zenon, <1>1 DEF TypeOK
<1>7. \A i \in DOMAIN codes : codes[i] \in CodeRow
  BY <1>6
<1>8. /\ DOMAIN codes' = DOMAIN codes /\ codes'[j].consumed
      /\ \A i \in DOMAIN codes :
           /\ codes'[i] \in CodeRow
           /\ codes'[i].user = codes[i].user /\ codes'[i].key = codes[i].key
           /\ codes'[i].client = codes[i].client /\ codes'[i].uri = codes[i].uri
           /\ codes'[i].scopes = codes[i].scopes
           /\ codes[i].consumed => codes'[i].consumed
  BY ZenonT(60), <1>3, <1>7 DEF CodeRow
<1>9. codes' \in Seq(CodeRow) /\ Len(codes') = Len(codes)
  <2>1. PICK e \in CodeRow : e = [codes[j] EXCEPT !.consumed = TRUE]
    BY ZenonT(60), <1>7 DEF CodeRow
  <2>2. codes' = [codes EXCEPT ![j] = e]
    BY Zenon, <1>3, <2>1
  <2> QED
    BY <1>6, <2>2, SeqExcept
<1>10. TypeInv'
  BY Zenon, <1>1, <1>3, <1>5, <1>9 DEF TypeInv, TypeOK
<1>11. Frame
  BY <1>1, <1>3, <1>8 DEF TypeOK, Frame
<1>12. RowsInv'
  BY Zenon, <1>3, <1>8, <1>10, <1>11, RowsStable DEF IInv
<1>13. TaskInv(tasks[t])'
  <2>1. CallOK(c)'
    BY Zenon, <1>1, <1>3, <1>4 DEF TaskInv, CallOK, TokenOp
  <2>1a. WithinCode(c)'
    BY SMTT(30), <1>1, <1>2, <1>4, <1>8 DEF TaskInv, WithinCode, TokenOp
  <2>2. ~c.late
    BY Zenon, <1>1, <1>4 DEF TaskInv, LateOK, TokenOp
  <2> QED
    BY Zenon, <1>1, <1>2, <1>4, <1>5, <1>8, <2>1, <2>1a, <2>2 DEF TaskInv, LateOK
<1> QED
  BY Zenon, <1>5, <1>10, <1>11, <1>12, <1>13, Combine

LEMMA IssueTokensInv ==
  ASSUME IInv, NEW t \in Task, IssueTokens(t)
  PROVE  IInv'
<1> DEFINE c == tasks[t]
           e == [user |-> c.user, key |-> c.key, client |-> c.client,
                 scopes |-> c.scopes, code |-> c.id]
<1>1. TypeOK /\ c \in Call /\ TaskInv(c) /\ c.pc = "issue" /\ c.op \in TokenOp
  BY Zenon, TaskFacts DEF IInv, TypeInv, IssueTokens, TaskInv, CallOK
<1>2. /\ c.user \in User /\ c.client \in Client /\ c.key \in Nat
      /\ c.scopes \in SUBSET Scope /\ c.id \in Nat
  BY Zenon, <1>1, TaskFacts DEF Call
<1>3. e \in TokenSet
  BY Zenon, <1>2 DEF TokenSet
<1>4. e.code # 0 =>
        /\ e.code \in DOMAIN codes
        /\ e.user = codes[e.code].user /\ e.key = codes[e.code].key
        /\ e.client = codes[e.code].client /\ e.scopes \subseteq codes[e.code].scopes
        /\ codes[e.code].consumed
  BY Zenon, <1>1 DEF TaskInv, WithinCode
<1>5. tokens \subseteq tokens' /\ \A tok \in tokens' : tok \in tokens \/ (tok = e /\ e.code # 0)
  BY Zenon DEF IssueTokens
<1> HIDE DEF e
<1>6. Return(t) /\ UNCHANGED <<users, root, clients, given, consents, codes>>
  BY Zenon DEF IssueTokens
<1>7. redeemed' \in Seq(Nat) /\ Len(redeemed') = Len(codes)
  <2>1. redeemed \in Seq(Nat) /\ Len(redeemed) = Len(codes)
    BY Zenon, <1>1 DEF TypeOK
  <2>2. redeemed' = redeemed \/ redeemed' = [redeemed EXCEPT ![c.id] = @ + 1]
    BY Zenon DEF IssueTokens
  <2> QED
    BY <2>1, <2>2
<1>8. /\ tasks' \in [Task -> Call] /\ tasks'[t] = Idle
      /\ \A s \in Task : s # t => tasks'[s] = tasks[s]
  BY Zenon, <1>6, IdleCall DEF Return, IInv, TypeInv
<1>9. TypeInv'
  BY Zenon, <1>1, <1>3, <1>5, <1>6, <1>7, <1>8 DEF TypeInv, TypeOK
<1>10. Frame
  BY SMTT(30), <1>1, <1>6 DEF TypeOK, Frame
<1>11. RowsInv'
  BY Zenon, <1>4, <1>5, <1>6 DEF IInv, RowsInv, Consented
<1> QED
  BY Zenon, <1>8, <1>9, <1>10, <1>11, IdleInv, Combine

LEMMA AdminInv ==
  ASSUME IInv,
         \/ \E u \in User : DeleteUser(u) \/ RotateKey(u)
         \/ \E k \in Client : DeleteClient(k) \/ \E meta \in Registration : SaveClient(k, meta)
         \/ \E i \in DOMAIN codes : Expire(i)
  PROVE  IInv'
<1>0. TypeOK /\ \A u \in User : root[u] \in Nat
  BY TaskFacts DEF IInv, TypeInv, TypeOK
<1>1. ASSUME NEW u \in User, DeleteUser(u)  PROVE IInv'
  <2>1. TypeOK' /\ Frame
    BY <1>0, <1>1 DEF TypeOK, DeleteUser, Frame
  <2> QED
    BY Zenon, <1>1, <2>1, WriteOnly DEF DeleteUser
<1>2. ASSUME NEW u \in User, RotateKey(u)  PROVE IInv'
  <2>1. root \in [User -> 0..MaxRotations] /\ root[u] + 1 \in 0..MaxRotations
    BY <1>0, <1>2, BoundAssumption DEF TypeOK, RotateKey
  <2>2. /\ root' \in [User -> 0..MaxRotations]
        /\ \A v \in User : root[v] <= root'[v]
    BY <1>0, <1>2, <2>1 DEF RotateKey
  <2>3. TypeOK' /\ Frame
    BY Zenon, <1>0, <1>2, <2>2 DEF TypeOK, RotateKey, Frame
  <2> QED
    BY Zenon, <1>2, <2>3, WriteOnly DEF RotateKey
<1>3. ASSUME NEW k \in Client, NEW meta \in Registration \cup {None},
             clients' = [clients EXCEPT ![k] = meta],
             UNCHANGED <<users, root, given, consents, codes, tokens, redeemed, tasks>>
      PROVE  IInv'
  <2>1. TypeOK' /\ Frame
    BY <1>0, <1>3 DEF TypeOK, Frame
  <2> QED
    BY Zenon, <1>3, <2>1, WriteOnly
<1>4. ASSUME NEW i \in DOMAIN codes, Expire(i)  PROVE IInv'
  <2>1. codes \in Seq(CodeRow) /\ \A j \in DOMAIN codes : codes[j] \in CodeRow
    BY <1>0 DEF TypeOK
  <2>2. codes' \in Seq(CodeRow) /\ Len(codes') = Len(codes) /\ DOMAIN codes' = DOMAIN codes
    <3>1. PICK e \in CodeRow : e = [codes[i] EXCEPT !.expired = TRUE]
      BY ZenonT(60), <2>1 DEF CodeRow
    <3>2. codes' = [codes EXCEPT ![i] = e]
      BY Zenon, <1>4, <3>1 DEF Expire
    <3> QED
      BY <2>1, <3>2, SeqExcept
  <2>3. \A j \in DOMAIN codes :
             /\ codes'[j].user = codes[j].user /\ codes'[j].key = codes[j].key
             /\ codes'[j].client = codes[j].client /\ codes'[j].uri = codes[j].uri
             /\ codes'[j].scopes = codes[j].scopes
             /\ codes[j].consumed => codes'[j].consumed
    BY <1>4, <2>1 DEF Expire, CodeRow
  <2>4. TypeOK' /\ Frame
    BY <1>0, <1>4, <2>2, <2>3 DEF TypeOK, Expire, Frame
  <2> QED
    BY Zenon, <1>4, <2>2, <2>4, WriteOnly DEF Expire
<1> QED
  BY Zenon, <1>1, <1>2, <1>3, <1>4 DEF DeleteClient, SaveClient

---------------------------------------------------------------------------
(* The theorems                                                            *)

\* The initial state satisfies the invariant.
LEMMA InitInv == Init => IInv
<1> SUFFICES ASSUME Init PROVE IInv
  BY Zenon
<1>1. TypeInv
  BY IdleCall, BoundAssumption DEF Init, TypeInv, TypeOK
<1>2. RowsInv
  BY DEF Init, RowsInv
<1>3. TasksInv
  BY Zenon, IdleCall DEF Init, TasksInv
<1> QED
  BY Zenon, <1>1, <1>2, <1>3 DEF IInv

\* Every step preserves it, one step of the proof for each kind of action.
LEMMA NextInv == IInv /\ [Next]_vars => IInv'
<1> SUFFICES ASSUME IInv, [Next]_vars PROVE IInv'
  BY Zenon
<1>1. ASSUME NEW t \in Task, Step(t)  PROVE IInv'
  <2>1. CASE \E u \in User, c \in Client, r \in Uri, s \in SUBSET Scope :
               Approve(t, u, c, r, s) \/ Authorize(t, u, c, r, s)
    BY Zenon, <2>1, ApproveInv, AuthorizeInv
  <2>2. CASE ApproveClient(t) \/ AuthorizeClient(t)
    BY Zenon, <2>2, ReadClientInv
  <2>3. CASE FindConsent(t) \/ InsertConsent(t)
    BY Zenon, <2>3, FindConsentInv, InsertConsentInv
  <2>4. CASE \E u \in User, i \in DOMAIN given : RevokeConsent(t, u, i)
    BY Zenon, <2>4, RevokeConsentInv
  <2>5. CASE RevokeFind(t) \/ RevokeDelete(t)
    BY Zenon, <2>5, RevokeFindInv, RevokeDeleteInv
  <2>6. CASE AuthorizeConsent(t) \/ InsertCode(t)
    BY Zenon, <2>6, AuthorizeConsentInv, InsertCodeInv
  <2>7. CASE \E i \in DOMAIN codes : Redeem(t, i)
    BY Zenon, <2>7, RedeemInv
  <2>8. CASE \E tok \in tokens \cup Decoded, s \in SUBSET Scope, op \in {"refresh", "exchange"} :
               Trade(t, op, tok, s)
    BY Zenon, <2>8, TradeInv
  <2>9. CASE FindKey(t) \/ FindUser(t) \/ FindClient(t)
    BY Zenon, <2>9, FindKeyInv, FindUserInv, FindClientInv
  <2>10. CASE ConsumeRead(t) \/ ConsumeWrite(t) \/ IssueTokens(t)
    BY Zenon, <2>10, ConsumeReadInv, ConsumeWriteInv, IssueTokensInv
  <2>11. CASE Stop(t)
    BY Zenon, <2>11, ReturnOnly DEF Stop
  <2> QED
    BY Zenon, <1>1, <2>1, <2>2, <2>3, <2>4, <2>5, <2>6, <2>7, <2>8, <2>9, <2>10, <2>11 DEF Step
<1>2. CASE UNCHANGED vars
  <2>1. Frame /\ TypeOK'
    BY <1>2 DEF vars, IInv, TypeInv, TypeOK, Frame
  <2> QED
    BY Zenon, <1>2, <2>1, WriteOnly DEF vars
<1> QED
  BY Zenon, <1>1, <1>2, AdminInv DEF Next

\* The inductive invariant holds throughout every behaviour.
THEOREM OAuth2Invariance == Spec => []IInv
BY InitInv, NextInv, PTL DEF Spec

\* The tables, the history and the requests keep their shape.
THEOREM OAuth2TypeCorrect == Spec => []TypeOK
<1>1. IInv => TypeOK
  BY Zenon DEF IInv, TypeInv
<1> QED
  BY <1>1, OAuth2Invariance, PTL

\* Whatever chain of redemption, refresh and exchange a token comes from, some
\* consent its user gave to its client covers its scopes, when every token the chain
\* presented was issued: refresh_token takes the scopes of its token unverified.
THEOREM TokensWithinConsent == Spec => []IssuedWithinConsent
<1>1. IInv => IssuedWithinConsent
  <2> SUFFICES ASSUME IInv, NEW tok \in tokens
               PROVE  \E i \in DOMAIN given :
                        /\ given[i].user = tok.user /\ given[i].client = tok.client
                        /\ given[i].uri = codes[tok.code].uri
                        /\ tok.scopes \subseteq given[i].scopes
    BY Zenon DEF IssuedWithinConsent
  <2>1. PICK i \in DOMAIN given : given[i] = ConsentOf(codes[tok.code])
    BY Zenon DEF IInv, RowsInv, Consented
  <2>2. /\ given[i].user = codes[tok.code].user /\ given[i].client = codes[tok.code].client
        /\ given[i].uri = codes[tok.code].uri /\ given[i].scopes = codes[tok.code].scopes
    BY <2>1 DEF ConsentOf
  <2> QED
    BY SMTT(30), <2>2 DEF IInv, RowsInv
<1> QED
  BY <1>1, OAuth2Invariance, PTL

\* No token is out while its code could still be redeemed from the start.
THEOREM CodesMarkedFirst == Spec => []MarkedBeforeIssued
<1>1. IInv => MarkedBeforeIssued
  BY Zenon DEF IInv, RowsInv, MarkedBeforeIssued
<1> QED
  BY <1>1, OAuth2Invariance, PTL

\* A token request that begins after its user was deleted or their key rotated
\* never reaches the point where tokens are issued.
THEOREM LateRequestsNeverIssue == Spec => []LateNeverIssues
<1>1. IInv => LateNeverIssues
  BY Zenon DEF IInv, TasksInv, TaskInv, CallOK, LateOK, LateNeverIssues
<1> QED
  BY <1>1, OAuth2Invariance, PTL

-----------------------------------------------------------------------------
(* Replicated rows: conflicts and their resolution                         *)

\* A set of naturals that is not empty has a smallest element.
LEMMA Smallest ==
  ASSUME NEW S, S \subseteq Nat, S # {}
  PROVE \E m \in S : \A n \in S : m =< n
<1>1. IsWellFoundedOn(OpToRel(<, Nat), Nat) BY Zenon, NatLessThanWellFounded
<1>2. PICK m \in S : \A n \in S : ~ (<<n, m>> \in OpToRel(<, Nat))
  BY <1>1, WFMin, Zenon
<1>3. \A n \in S : ~ (n < m) BY Zenon, <1>2 DEF OpToRel
<1>. QED BY <1>3

\* ... and one that is bounded has a largest.
LEMMA Largest ==
  ASSUME NEW S, S \subseteq Nat, S # {}, NEW b \in Nat, \A n \in S : n =< b
  PROVE \E m \in S : \A n \in S : n =< m
<1>. DEFINE U == {u \in Nat : \A n \in S : n =< u}
<1>1. PICK m \in U : \A u \in U : m =< u BY Zenon, Smallest, b \in U
<1>2. m \in S
  <2>. SUFFICES ASSUME m \notin S PROVE FALSE BY Zenon
  <2>1. \A n \in S : n < m BY <1>1
  <2>2. PICK n \in S : TRUE BY Zenon
  <2>3. m - 1 \in Nat /\ \A k \in S : k =< m - 1 BY <2>1, <2>2
  <2>. QED BY <2>3, <1>1
<1>. QED BY Zenon, <1>1, <1>2

\* The siblings a cell may hold after len changes.
Sibling(len) == [op : 0 .. len, val : Second \cup {0, NoValue}]

\* A replica that has seen the change behind a sibling holds it, or holds a later one.
Outlives(cell, seen, s) ==
  s.op \in seen => s \in cell \/ \E t \in cell : t.op > s.op

\* A merge keeps the latest siblings: each sibling survives, or a later one does.
LEMMA MergeKeeps ==
  ASSUME NEW len \in Nat, NEW c1 \in SUBSET Sibling(len), NEW c2 \in SUBSET Sibling(len),
         NEW seen1, NEW seen2,
         \A s \in c2 : Outlives(c1, seen1, s), \A s \in c1 : Outlives(c2, seen2, s),
         NEW s \in c1 \cup c2, s \notin MergeCell(c1, seen1, c2, seen2)
  PROVE \E t \in MergeCell(c1, seen1, c2, seen2) : t.op > s.op
<1>. DEFINE ops == {x.op : x \in c1 \cup c2}
            Last(x) == \A y \in c1 \cup c2 : y.op =< x.op
<1>0. \A x \in c1 \cup c2 : x.op \in Nat /\ x.op =< len BY DEF Sibling
<1>1. PICK m \in ops : \A k \in ops : k =< m
  <2>1. ops \subseteq Nat /\ ops # {} /\ \A k \in ops : k =< len BY Zenon, <1>0
  <2>. QED BY Zenon, <2>1, Largest
<1>2. PICK top \in c1 \cup c2 : top.op = m BY Zenon, <1>1
<1>3. \A y \in c1 \cup c2 : y.op =< top.op BY Zenon, <1>1, <1>2
<1>4. ASSUME NEW x \in c1 \cup c2, \A y \in c1 \cup c2 : y.op =< x.op
      PROVE x \in MergeCell(c1, seen1, c2, seen2)
  <2>1. \A y \in c1 \cup c2 : ~ (y.op > x.op) BY <1>4, <1>0
  <2>2. CASE x \in c1
    <3>1. x.op \in seen2 => x \in c2 BY <2>1, <2>2, Zenon DEF Outlives
    <3>. QED BY <3>1, <2>2, Zenon DEF MergeCell
  <2>3. CASE x \in c2
    <3>1. x.op \in seen1 => x \in c1 BY <2>1, <2>3, Zenon DEF Outlives
    <3>. QED BY <3>1, <2>3, Zenon DEF MergeCell
  <2>. QED BY Zenon, <2>2, <2>3
<1>5. top \in MergeCell(c1, seen1, c2, seen2) BY Zenon, <1>3, <1>4
<1>6. s.op # top.op BY Zenon, <1>3, <1>4
<1>7. top.op > s.op BY <1>0, <1>2, <1>3, <1>6
<1>. QED BY Zenon, <1>5, <1>7

LEMMA MergePart ==
  ASSUME NEW c1, NEW c2, NEW seen1, NEW seen2
  PROVE MergeCell(c1, seen1, c2, seen2) \subseteq c1 \cup c2
BY Zenon DEF MergeCell

CellsShape ==
  /\ DOMAIN cells = Node /\ \A n \in Node : DOMAIN cells[n] = SecurityTable
  /\ \A n \in Node, row \in SecurityTable : \A c \in Columns(row) :
       cells[n][row][c] # {} /\ cells[n][row][c] \subseteq Sibling(Len(log))

\* No change is lost: what a node has seen it holds, or it holds something later.
NothingLost ==
  \A n, m \in Node, row \in SecurityTable : \A c \in Columns(row) :
    \A s \in cells[m][row][c] : Outlives(cells[n][row][c], known[n] \cup {0}, s)

\* The NULL a code begins with is its only one, and a node that knows of a consumption
\* has lost it.
UsedStaysUsed ==
  \A n \in Node :
    /\ \A s \in cells[n]["code"]["consumed_at"] :
         /\ s.op = 0 => s.val = NoValue
         /\ s.val = NoValue => s.op = 0 \/ outdated
    /\ (\E o \in known[n] : log[o].kind = "consume") =>
         \A s \in cells[n]["code"]["consumed_at"] : s.op # 0

Change == [row : SecurityTable, kind : {"consume", "update", "resolution"},
           cols : SUBSET {"consumed_at", "updated_at", "settings"}]

LogShape ==
  /\ log \in Seq(Change)
  /\ known \in [Node -> SUBSET (1 .. Len(log))]
  /\ audits \in [Node -> SUBSET (1 .. Len(log))]
  /\ outdated \in BOOLEAN /\ aborted \in BOOLEAN

\* A request between two awaits.
Checking(job) ==
  /\ job.node \in Node /\ job.blocked \subseteq SecurityTable
  /\ \/ job.rows = <<"client", "code">>
     \/ job.rows = <<"code">> /\ "client" \notin job.blocked

Resolving(job) ==
  /\ job.node \in Node /\ job.row \in SecurityTable
  /\ DOMAIN job.values \subseteq Columns(job.row)
  /\ \A c \in DOMAIN job.values : job.values[c] \in Second \cup {0, NoValue}

KeepsUsed(job) ==
  (job.row = "code" /\ "consumed_at" \in DOMAIN job.values) =>
    job.values["consumed_at"] # NoValue

Auditing(job) ==
  /\ job.node \in Node /\ job.change \in known[job.node]
  /\ log[job.change].kind = "resolution"

JobOK(q) ==
  /\ jobs[q].pc \in {"rest", "check", "answered", "resolve", "write", "audit"}
  /\ jobs[q].pc = "check" => Checking(jobs[q])
  /\ jobs[q].pc = "answered" => (jobs[q].allowed => jobs[q].blocked = {})
  /\ jobs[q].pc \in {"resolve", "write"} => Resolving(jobs[q])
  /\ jobs[q].pc = "write" => outdated \/ KeepsUsed(jobs[q])
  /\ jobs[q].pc = "audit" => Auditing(jobs[q])

JobsOK == DOMAIN jobs = Job /\ \A q \in Job : JobOK(q)

ConflictInv ==
  CellsShape /\ NothingLost /\ UsedStaysUsed /\ LogShape /\ JobsOK /\ AuditMatches

LEMMA ConflictInitInv == ConflictInit => ConflictInv
<1>. SUFFICES ASSUME ConflictInit PROVE ConflictInv BY Zenon
<1>. DEFINE First(c) == [op |-> 0, val |-> IF c = "consumed_at" THEN NoValue ELSE 0]
<1>1. log = <<>> /\ Len(log) = 0 BY Zenon DEF ConflictInit
<1>2. /\ DOMAIN cells = Node
      /\ \A n \in Node : DOMAIN cells[n] = SecurityTable
      /\ \A n \in Node, row \in SecurityTable : \A c \in Columns(row) :
           cells[n][row][c] = {First(c)}
  BY Zenon DEF ConflictInit
<1>3. \A c : First(c) \in Sibling(0) BY DEF Sibling
<1>31. First("consumed_at").op = 0 /\ First("consumed_at").val = NoValue BY Zenon
<1>. HIDE DEF First
<1>4. CellsShape
  <2>1. \A n \in Node, row \in SecurityTable : \A c \in Columns(row) :
          cells[n][row][c] # {} /\ cells[n][row][c] \subseteq Sibling(Len(log))
    BY <1>1, <1>2, <1>3
  <2>. QED BY <1>2, <2>1, Zenon DEF CellsShape
<1>5. NothingLost
  <2>. SUFFICES ASSUME NEW n \in Node, NEW m \in Node, NEW row \in SecurityTable,
                       NEW c \in Columns(row), NEW s \in cells[m][row][c]
                PROVE s \in cells[n][row][c]
    BY Zenon DEF NothingLost, Outlives
  <2>1. cells[n][row][c] = {First(c)} /\ cells[m][row][c] = {First(c)} BY <1>2
  <2>. QED BY <2>1, Zenon
<1>6. UsedStaysUsed
  <2>1. "code" \in SecurityTable /\ "consumed_at" \in Columns("code")
    BY Zenon DEF SecurityTable, Columns
  <2>2. \A n \in Node : cells[n]["code"]["consumed_at"] = {First("consumed_at")}
    BY <1>2, <2>1
  <2>4. \A n \in Node : known[n] = {} BY Zenon DEF ConflictInit
  <2>. QED BY Zenon, <2>2, <1>31, <2>4 DEF UsedStaysUsed
<1>7. LogShape
  <2>1. known \in [Node -> SUBSET (1 .. Len(log))] /\ audits \in [Node -> SUBSET (1 .. Len(log))]
    BY Zenon DEF ConflictInit
  <2>2. outdated \in BOOLEAN /\ aborted \in BOOLEAN BY Zenon DEF ConflictInit
  <2>. QED BY <1>1, <2>1, <2>2 DEF LogShape
<1>8. JobsOK BY Zenon DEF ConflictInit, JobsOK, JobOK, NoRequestYet
<1>9. AuditMatches BY <1>1 DEF ConflictInit, AuditMatches
<1>. QED BY <1>4, <1>5, <1>6, <1>7, <1>8, <1>9, Zenon DEF ConflictInv

-----------------------------------------------------------------------------
(* A statement *)

\* What a statement writes: the columns it names, in one row of one node.
Writes(n, row, values) ==
  \A m \in Node, r \in SecurityTable : \A c \in Columns(r) :
    /\ (m = n /\ r = row /\ c \in DOMAIN values) =>
         cells'[m][r][c] = Write(cells[m][r][c], NextChange, values[c])
    /\ ~(m = n /\ r = row /\ c \in DOMAIN values) => cells'[m][r][c] = cells[m][r][c]

Written(op, v) == [op |-> op, val |-> v]

LEMMA WriteRowWrites ==
  ASSUME CellsShape, NEW n \in Node, NEW row \in SecurityTable, NEW values, NEW kind,
         WriteRow(n, row, values, kind)
  PROVE /\ Writes(n, row, values)
        /\ DOMAIN cells' = Node /\ \A m \in Node : DOMAIN cells'[m] = SecurityTable
<1>. DEFINE new == [c \in Columns(row) |->
              IF c \in DOMAIN values THEN Write(cells[n][row][c], NextChange, values[c])
              ELSE cells[n][row][c]]
<1>1. cells' = [cells EXCEPT ![n] = [cells[n] EXCEPT ![row] = new]]
  BY Zenon DEF WriteRow
<1>2. DOMAIN cells = Node /\ \A m \in Node : DOMAIN cells[m] = SecurityTable
  BY Zenon DEF CellsShape
<1>3. DOMAIN cells' = Node BY Zenon, <1>1, <1>2
<1>4. \A m \in Node : m # n => cells'[m] = cells[m] BY Zenon, <1>1, <1>2
<1>5. cells'[n] = [cells[n] EXCEPT ![row] = new] BY Zenon, <1>1, <1>2
<1>6. DOMAIN cells'[n] = SecurityTable BY Zenon, <1>5, <1>2
<1>7. \A r \in SecurityTable : r # row => cells'[n][r] = cells[n][r] BY Zenon, <1>5, <1>2
<1>8. cells'[n][row] = new BY Zenon, <1>5, <1>2
<1>. HIDE DEF new
<1>9. \A c \in Columns(row) : cells'[n][row][c] =
        IF c \in DOMAIN values THEN Write(cells[n][row][c], NextChange, values[c])
        ELSE cells[n][row][c]
  BY Zenon, <1>8 DEF new, NextChange
<1>10. Writes(n, row, values)
  <2>. SUFFICES ASSUME NEW m \in Node, NEW r \in SecurityTable, NEW c \in Columns(r)
                PROVE
    /\ (m = n /\ r = row /\ c \in DOMAIN values) =>
         cells'[m][r][c] = Write(cells[m][r][c], NextChange, values[c])
    /\ ~(m = n /\ r = row /\ c \in DOMAIN values) => cells'[m][r][c] = cells[m][r][c]
    BY Zenon DEF Writes
  <2>1. CASE m # n BY <2>1, <1>4, Zenon
  <2>2. CASE m = n /\ r # row BY <2>2, <1>7, Zenon
  <2>3. CASE m = n /\ r = row BY <2>3, <1>9, Zenon
  <2>. QED BY <2>1, <2>2, <2>3, Zenon
<1>. QED BY <1>3, <1>4, <1>2, <1>6, <1>10, Zenon

\* Write leaves a cell as it is, or its only sibling is the new one.
LEMMA WriteCases ==
  ASSUME NEW cell, NEW op, NEW v
  PROVE \/ Write(cell, op, v) = cell /\ cell # {} /\ \A s \in cell : s.val = v
        \/ Write(cell, op, v) = {Written(op, v)}
BY Zenon DEF Write, Written

LEMMA WrittenIs ==
  ASSUME NEW op, NEW v
  PROVE Written(op, v).op = op /\ Written(op, v).val = v
BY Zenon DEF Written

LEMMA LogGrows ==
  ASSUME LogShape, NEW n \in Node, NEW row \in SecurityTable, NEW values, NEW kind,
         kind \in {"consume", "update", "resolution"},
         DOMAIN values \subseteq Columns(row),
         WriteRow(n, row, values, kind),
         audits' \in {audits}, outdated' = outdated, aborted' = aborted
  PROVE /\ LogShape'
        /\ Len(log') = NextChange /\ Len(log) \in Nat
        /\ \A o \in 1 .. Len(log) : log'[o] = log[o]
        /\ log'[NextChange].kind = kind
        /\ \A m \in Node : known'[m] = IF m = n THEN known[m] \cup {NextChange} ELSE known[m]
<1>. DEFINE entry == [row |-> row, kind |-> kind, cols |-> DOMAIN values]
<1>1. log \in Seq(Change) /\ Len(log) \in Nat BY DEF LogShape
<1>2. entry \in Change
  <2>1. DOMAIN values \subseteq {"consumed_at", "updated_at", "settings"} BY Zenon DEF Columns
  <2>. QED BY Zenon, <2>1 DEF Change
<1>3. log' = Append(log, entry) BY Zenon DEF WriteRow
<1>4. entry.kind = kind BY Zenon
<1>. HIDE DEF entry
<1>5. /\ log' \in Seq(Change) /\ Len(log') = NextChange
      /\ \A o \in 1 .. Len(log) : log'[o] = log[o]
      /\ log'[NextChange] = entry
  BY <1>1, <1>2, <1>3 DEF NextChange
<1>6. known' = [known EXCEPT ![n] = @ \cup {NextChange}] BY Zenon DEF WriteRow, NextChange
<1>7. known \in [Node -> SUBSET (1 .. Len(log))] BY Zenon DEF LogShape
<1>8. \A m \in Node : known'[m] = IF m = n THEN known[m] \cup {NextChange} ELSE known[m]
  BY Zenon, <1>6, <1>7
<1>9. 1 .. Len(log) \subseteq 1 .. Len(log') /\ NextChange \in 1 .. Len(log')
  BY <1>1, <1>5 DEF NextChange
<1>10. known' \in [Node -> SUBSET (1 .. Len(log'))] BY Zenon, <1>6, <1>7, <1>9
<1>11. audits' \in [Node -> SUBSET (1 .. Len(log'))] BY Zenon, <1>9 DEF LogShape
<1>12. LogShape' BY Zenon, <1>5, <1>10, <1>11 DEF LogShape
<1>. QED BY <1>1, <1>4, <1>5, <1>8, <1>12, Zenon

\* A statement keeps the shape of the cells and loses nothing.
LEMMA WriteKeepsCells ==
  ASSUME CellsShape, NothingLost, LogShape, NEW n \in Node, NEW row \in SecurityTable,
         NEW values, Writes(n, row, values),
         DOMAIN cells' = Node, \A m \in Node : DOMAIN cells'[m] = SecurityTable,
         \A c \in DOMAIN values : values[c] \in Second \cup {0, NoValue},
         Len(log') = NextChange,
         \A m \in Node : known'[m] = IF m = n THEN known[m] \cup {NextChange} ELSE known[m]
  PROVE CellsShape' /\ NothingLost'
<1>. DEFINE len == Len(log)
<1>0. len \in Nat /\ NextChange = len + 1 /\ NextChange \in Nat BY DEF LogShape, NextChange
<1>1. /\ \A c \in DOMAIN values : Written(NextChange, values[c]) \in Sibling(NextChange)
      /\ \A c : Written(NextChange, values[c]).op = NextChange
  BY <1>0 DEF Sibling, Written
<1>2. Sibling(len) \subseteq Sibling(NextChange) BY <1>0 DEF Sibling
<1>3. \A s \in Sibling(len) : s.op \in Nat /\ s.op =< len BY <1>0 DEF Sibling
<1>. HIDE DEF len
<1>4. ASSUME NEW m \in Node, NEW r \in SecurityTable, NEW c \in Columns(r)
      PROVE \/ cells'[m][r][c] = cells[m][r][c]
            \/ m = n /\ c \in DOMAIN values /\ cells'[m][r][c] = {Written(NextChange, values[c])}
  <2>1. CASE m = n /\ r = row /\ c \in DOMAIN values
    <3>1. cells'[m][r][c] = Write(cells[m][r][c], NextChange, values[c])
      BY <2>1, Zenon DEF Writes
    <3>. QED BY SMTT(30), <3>1, <2>1, WriteCases
  <2>2. CASE ~ (m = n /\ r = row /\ c \in DOMAIN values)
    BY <2>2, ZenonT(30) DEF Writes
  <2>. QED BY <2>1, <2>2, Zenon
<1>5. ASSUME NEW m \in Node, NEW r \in SecurityTable, NEW c \in Columns(r)
      PROVE cells[m][r][c] # {} /\ cells[m][r][c] \subseteq Sibling(len)
  BY Zenon DEF CellsShape, len
<1>6. ASSUME NEW m \in Node, NEW r \in SecurityTable, NEW c \in Columns(r)
      PROVE cells'[m][r][c] # {} /\ cells'[m][r][c] \subseteq Sibling(NextChange)
  <2>1. CASE cells'[m][r][c] = cells[m][r][c] BY <2>1, <1>5, <1>2, ZenonT(30)
  <2>2. CASE c \in DOMAIN values /\ cells'[m][r][c] = {Written(NextChange, values[c])}
    BY <2>2, <1>1, Zenon
  <2>. QED BY SMTT(30), <1>4, <2>1, <2>2
<1>7. CellsShape'
  <2>1. Len(log') = NextChange BY Zenon DEF len
  <2>. QED BY <1>6, <2>1, Zenon DEF CellsShape
<1>8. NothingLost'
  <2>. SUFFICES ASSUME NEW p \in Node, NEW m \in Node, NEW r \in SecurityTable,
                       NEW c \in Columns(r), NEW s \in cells'[m][r][c],
                       s.op \in known'[p] \cup {0}
                PROVE s \in cells'[p][r][c] \/ \E t \in cells'[p][r][c] : t.op > s.op
    BY Zenon DEF NothingLost, Outlives
  <2>1. CASE s \in cells[m][r][c]
    <3>1. s.op \in Nat /\ s.op =< len BY Zenon, <2>1, <1>5, <1>3
    <3>2. s.op \in known[p] \cup {0}
      <4>1. s.op # NextChange BY SMTT(30), <3>1, <1>0
      <4>. QED BY <4>1, Zenon DEF len
    <3>3. s \in cells[p][r][c] \/ \E t \in cells[p][r][c] : t.op > s.op
      BY <2>1, <3>2, Zenon DEF NothingLost, Outlives
    <3>4. CASE cells'[p][r][c] = cells[p][r][c] BY <3>3, <3>4, Zenon
    <3>5. CASE cells'[p][r][c] = {Written(NextChange, values[c])}
      <4>1. Written(NextChange, values[c]).op > s.op BY SMTT(30), <1>1, <3>1, <1>0
      <4>. QED BY <4>1, <3>5, Zenon
    <3>. QED BY SMTT(30), <1>4, <3>4, <3>5
  <2>2. CASE s \notin cells[m][r][c]
    <3>1. m = n /\ s = Written(NextChange, values[c]) BY SMTT(30), <2>2, <1>4
    <3>2. s.op = NextChange /\ s.op # 0 BY SMTT(30), <3>1, <1>1, <1>0
    <3>3. p = n
      <4>1. known[p] \subseteq 1 .. len BY Zenon DEF LogShape, len
      <4>2. NextChange \notin known[p] BY <4>1, <1>0
      <4>. QED BY <4>2, <3>2, Zenon
    <3>. QED BY <3>1, <3>3, Zenon
  <2>. QED BY <2>1, <2>2, Zenon
<1>. QED BY Zenon, <1>7, <1>8

\* A statement that writes no NULL over a consumption, and a consumption itself.
LEMMA WriteKeepsUsed ==
  ASSUME UsedStaysUsed, CellsShape, LogShape, NEW n \in Node, NEW row \in SecurityTable,
         NEW values, NEW kind, Writes(n, row, values), outdated' = outdated,
         \/ outdated
         \/ row # "code" \/ "consumed_at" \notin DOMAIN values
         \/ values["consumed_at"] # NoValue,
         kind = "consume" =>
           row = "code" /\ "consumed_at" \in DOMAIN values /\ values["consumed_at"] # NoValue,
         Len(log) \in Nat,
         \A o \in 1 .. Len(log) : log'[o] = log[o],
         log'[NextChange].kind = kind,
         \A m \in Node : known'[m] = IF m = n THEN known[m] \cup {NextChange} ELSE known[m]
  PROVE UsedStaysUsed'
<1>. SUFFICES ASSUME NEW m \in Node
              PROVE /\ \A s \in cells'[m]["code"]["consumed_at"] :
                         /\ s.op = 0 => s.val = NoValue
                         /\ s.val = NoValue => s.op = 0 \/ outdated'
                    /\ (\E o \in known'[m] : log'[o].kind = "consume") =>
                         \A s \in cells'[m]["code"]["consumed_at"] : s.op # 0
  BY Zenon DEF UsedStaysUsed
<1>. DEFINE old == cells[m]["code"]["consumed_at"]
            new == cells'[m]["code"]["consumed_at"]
            top == Written(NextChange, values["consumed_at"])
            Mine == m = n /\ row = "code" /\ "consumed_at" \in DOMAIN values
<1>0. top.op # 0 /\ top.val = values["consumed_at"] BY WrittenIs DEF NextChange
<1>1. "code" \in SecurityTable /\ "consumed_at" \in Columns("code")
  BY Zenon DEF SecurityTable, Columns
<1>2. /\ Mine => new = Write(old, NextChange, values["consumed_at"])
      /\ ~Mine => new = old
  BY <1>1, Zenon DEF Writes
<1>3. \/ new = old /\ (Mine => \A s \in old : s.val = values["consumed_at"])
      \/ Mine /\ new = {top}
  <2>1. CASE Mine
    <3>1. \/ Write(old, NextChange, values["consumed_at"]) = old
                /\ \A s \in old : s.val = values["consumed_at"]
          \/ Write(old, NextChange, values["consumed_at"]) = {top}
      BY SMTT(30), WriteCases
    <3>. QED BY <3>1, <1>2, <2>1, Zenon
  <2>2. CASE ~Mine BY <2>2, <1>2, Zenon
  <2>. QED BY Zenon, <2>1, <2>2
<1>4. /\ \A s \in old : (s.op = 0 => s.val = NoValue) /\ (s.val = NoValue => s.op = 0 \/ outdated)
      /\ (\E o \in known[m] : log[o].kind = "consume") => \A s \in old : s.op # 0
  BY Zenon DEF UsedStaysUsed
<1>. HIDE DEF top
<1>5. \A s \in new : (s.op = 0 => s.val = NoValue) /\ (s.val = NoValue => s.op = 0 \/ outdated')
  <2>1. CASE new = old BY <2>1, <1>4, Zenon
  <2>2. CASE Mine /\ new = {top} BY <2>2, <1>0, Zenon
  <2>. QED BY <1>3, <2>1, <2>2, Zenon
<1>6. ASSUME NEW o \in known'[m], log'[o].kind = "consume"
      PROVE \A s \in new : s.op # 0
  <2>1. CASE o \in known[m]
    <3>1. o \in 1 .. Len(log) BY Zenon, <2>1 DEF LogShape
    <3>2. \A s \in old : s.op # 0 BY <2>1, <3>1, <1>6, <1>4, Zenon
    <3>. QED BY <3>2, <1>3, <1>0, Zenon
  <2>2. CASE m = n /\ o = NextChange
    <3>1. Mine /\ values["consumed_at"] # NoValue BY <2>2, <1>6, Zenon
    <3>. QED BY <3>1, <1>3, <1>4, <1>0, Zenon
  <2>. QED BY <2>1, <2>2, <1>6, Zenon
<1>. QED BY <1>5, <1>6, Zenon

\* A request the step does not change stays as it was.
LEMMA JobKept ==
  ASSUME LogShape, NEW q, JobOK(q), jobs'[q] = jobs[q],
         \A m \in Node : known[m] \subseteq known'[m],
         \A o \in 1 .. Len(log) : log'[o] = log[o],
         outdated => outdated'
  PROVE JobOK(q)'
<1>1. ASSUME Auditing(jobs[q]) PROVE Auditing(jobs[q])'
  <2>1. jobs[q].node \in Node /\ jobs[q].change \in known[jobs[q].node]
        /\ log[jobs[q].change].kind = "resolution"
    BY <1>1, Zenon DEF Auditing
  <2>2. jobs[q].change \in 1 .. Len(log) BY Zenon, <2>1 DEF LogShape
  <2>. QED BY <2>1, <2>2, Zenon DEF Auditing
<1>. QED BY <1>1, Zenon DEF JobOK, Checking, Resolving, KeepsUsed

-----------------------------------------------------------------------------
(* The actions *)

\* Every action that writes a row: what it leaves of the invariant.
LEMMA StatementKeeps ==
  ASSUME ConflictInv, NEW n \in Node, NEW row \in SecurityTable, NEW values, NEW kind,
         kind \in {"consume", "update", "resolution"},
         DOMAIN values \subseteq Columns(row),
         \A c \in DOMAIN values : values[c] \in Second \cup {0, NoValue},
         \/ outdated
         \/ row # "code" \/ "consumed_at" \notin DOMAIN values
         \/ values["consumed_at"] # NoValue,
         kind = "consume" =>
           row = "code" /\ "consumed_at" \in DOMAIN values /\ values["consumed_at"] # NoValue,
         WriteRow(n, row, values, kind), UNCHANGED <<audits, outdated, aborted>>
  PROVE /\ CellsShape' /\ NothingLost' /\ UsedStaysUsed' /\ LogShape'
        /\ \A q : JobOK(q) /\ jobs'[q] = jobs[q] => JobOK(q)'
        /\ NextChange \in known'[n] /\ log'[NextChange].kind = kind
        /\ \A m \in Node : \A o \in audits[m] : o \in known'[m] /\ log'[o].kind = "resolution"
        /\ \A o \in 1 .. Len(log') :
             o # NextChange => o \in 1 .. Len(log) /\ log'[o] = log[o]
<1>1. CellsShape /\ NothingLost /\ UsedStaysUsed /\ LogShape /\ AuditMatches
  BY Zenon DEF ConflictInv
<1>2. /\ Writes(n, row, values)
      /\ DOMAIN cells' = Node /\ \A m \in Node : DOMAIN cells'[m] = SecurityTable
  BY <1>1, WriteRowWrites, Zenon
<1>3. audits' \in {audits} /\ audits' = audits /\ outdated' = outdated /\ aborted' = aborted
  BY Zenon
<1>4. /\ LogShape'
      /\ Len(log') = NextChange /\ Len(log) \in Nat
      /\ \A o \in 1 .. Len(log) : log'[o] = log[o]
      /\ log'[NextChange].kind = kind
      /\ \A m \in Node : known'[m] = IF m = n THEN known[m] \cup {NextChange} ELSE known[m]
  BY <1>1, <1>3, LogGrows, ZenonT(30)
<1>5. CellsShape' /\ NothingLost' BY <1>1, <1>2, <1>4, WriteKeepsCells, Zenon
<1>6. UsedStaysUsed' BY <1>1, <1>2, <1>3, <1>4, WriteKeepsUsed, Zenon
<1>7. \A m \in Node : known[m] \subseteq known'[m] BY <1>4, Zenon
<1>71. outdated => outdated' BY <1>3
<1>72. \A o \in 1 .. Len(log) : log'[o] = log[o] BY <1>4, Zenon
<1>8. ASSUME NEW q, JobOK(q), jobs'[q] = jobs[q] PROVE JobOK(q)'
  BY <1>8, <1>1, <1>71, <1>72, <1>7, JobKept, Zenon
<1>9. NextChange \in known'[n] BY <1>4, Zenon
<1>10. ASSUME NEW m \in Node, NEW o \in audits[m]
       PROVE o \in known'[m] /\ log'[o].kind = "resolution"
  <2>1. o \in known[m] /\ log[o].kind = "resolution" BY <1>1, Zenon DEF AuditMatches
  <2>2. o \in 1 .. Len(log) BY Zenon, <1>1, <2>1 DEF LogShape
  <2>. QED BY <2>1, <2>2, <1>4, <1>7, Zenon
<1>11. ASSUME NEW o \in 1 .. Len(log'), o # NextChange
       PROVE o \in 1 .. Len(log) /\ log'[o] = log[o]
  <2>1. o \in 1 .. Len(log) BY SMTT(30), <1>11, <1>4 DEF NextChange
  <2>. QED BY <2>1, <1>4, Zenon
<1>. QED BY <1>4, <1>5, <1>6, <1>8, <1>9, <1>10, <1>11, Zenon

LEMMA RepositoryStep ==
  ASSUME ConflictInv, NEW n \in Node, ConsumeCode(n) \/ UpdateClient(n)
  PROVE ConflictInv'
<1>1. PICK row \in SecurityTable, v \in Second, kind \in {"consume", "update"} :
        /\ WriteRow(n, row, [c \in Columns(row) |-> v], kind)
        /\ kind = "consume" => row = "code"
  BY Zenon DEF ConsumeCode, UpdateClient, SecurityTable
<1>. DEFINE values == [c \in Columns(row) |-> v]
<1>2. UNCHANGED <<audits, jobs, outdated, aborted>> BY Zenon DEF ConsumeCode, UpdateClient
<1>3. /\ DOMAIN values = Columns(row)
      /\ \A c \in Columns(row) : values[c] = v
  BY Zenon
<1>4. v # NoValue BY ConflictAssumption DEF Second
<1>5. row = "code" => "consumed_at" \in Columns(row) BY Zenon DEF Columns
<1>6. row # "code" => "consumed_at" \notin Columns(row) BY Zenon DEF Columns
<1>. HIDE DEF values
<1>7. WriteRow(n, row, values, kind) BY <1>1, Zenon DEF values
<1>8. kind \in {"consume", "update", "resolution"} /\ kind # "resolution" BY Zenon
<1>81. \/ row # "code" \/ "consumed_at" \notin DOMAIN values
       \/ values["consumed_at"] # NoValue
  BY <1>3, <1>4, <1>5, Zenon
<1>82. kind = "consume" =>
           row = "code" /\ "consumed_at" \in DOMAIN values /\ values["consumed_at"] # NoValue
  BY <1>1, <1>3, <1>4, <1>5, Zenon
<1>83. DOMAIN values \subseteq Columns(row)
       /\ \A c \in DOMAIN values : values[c] \in Second \cup {0, NoValue}
  BY <1>3, Zenon
<1>9. /\ CellsShape' /\ NothingLost' /\ UsedStaysUsed' /\ LogShape'
      /\ \A q : JobOK(q) /\ jobs'[q] = jobs[q] => JobOK(q)'
      /\ log'[NextChange].kind = kind
      /\ \A m \in Node : \A o \in audits[m] : o \in known'[m] /\ log'[o].kind = "resolution"
      /\ \A o \in 1 .. Len(log') :
           o # NextChange => o \in 1 .. Len(log) /\ log'[o] = log[o]
  BY <1>7, <1>8, <1>81, <1>82, <1>83, <1>2, StatementKeeps, Zenon
<1>10. jobs' = jobs /\ audits' = audits /\ aborted' = aborted BY <1>2, Zenon
<1>11. JobsOK' BY <1>9, <1>10, Zenon DEF ConflictInv, JobsOK
<1>12. AuditMatches'
  <2>1. ASSUME NEW o \in 1 .. Len(log'), log'[o].kind = "resolution"
        PROVE \/ \E m \in Node : o \in audits[m]
              \/ \E q \in Job : jobs[q].pc = "audit" /\ jobs[q].change = o
              \/ aborted
    <3>1. o \in 1 .. Len(log) /\ log[o].kind = "resolution" BY <2>1, <1>8, <1>9, Zenon
    <3>. QED BY <3>1, Zenon DEF ConflictInv, AuditMatches
  <2>. QED BY <2>1, <1>9, <1>10, Zenon DEF AuditMatches
<1>. QED BY <1>9, <1>11, <1>12, Zenon DEF ConflictInv

LEMMA SynchronizeStep ==
  ASSUME ConflictInv, NEW n \in Node, NEW m \in Node, Synchronize(n, m)
  PROVE ConflictInv'
<1>. DEFINE Merged(row, c) == MergeCell(cells[n][row][c], known[n] \cup {0},
                                        cells[m][row][c], known[m] \cup {0})
<1>1. CellsShape /\ NothingLost /\ UsedStaysUsed /\ LogShape /\ JobsOK /\ AuditMatches
  BY Zenon DEF ConflictInv
<1>2. /\ DOMAIN cells' = Node
      /\ \A p \in Node : DOMAIN cells'[p] = SecurityTable
      /\ \A p \in Node : p # n => cells'[p] = cells[p]
      /\ \A row \in SecurityTable : \A c \in Columns(row) : cells'[n][row][c] = Merged(row, c)
  BY Zenon, <1>1 DEF Synchronize, CellsShape
<1>3. /\ known \in [Node -> SUBSET (1 .. Len(log))]
      /\ audits \in [Node -> SUBSET (1 .. Len(log))]
  BY Zenon, <1>1 DEF LogShape
<1>4. /\ known'[n] = known[n] \cup known[m]
      /\ \A p \in Node : p # n => known'[p] = known[p]
      /\ known' \in [Node -> SUBSET (1 .. Len(log))]
  BY Zenon, <1>3 DEF Synchronize
<1>5. /\ audits'[n] = audits[n] \cup audits[m]
      /\ \A p \in Node : p # n => audits'[p] = audits[p]
      /\ audits' \in [Node -> SUBSET (1 .. Len(log))]
  BY Zenon, <1>3 DEF Synchronize
<1>6. log' = log /\ jobs' = jobs /\ outdated' = outdated /\ aborted' = aborted
  BY Zenon DEF Synchronize
<1>. HIDE DEF Merged
<1>7. ASSUME NEW row \in SecurityTable, NEW c \in Columns(row)
      PROVE /\ \A s \in cells[n][row][c] \cup cells[m][row][c] :
                 s \in cells'[n][row][c] \/ \E t \in cells'[n][row][c] : t.op > s.op
            /\ cells'[n][row][c] \subseteq cells[n][row][c] \cup cells[m][row][c]
  <2>. DEFINE c1 == cells[n][row][c]
              c2 == cells[m][row][c]
              seen1 == known[n] \cup {0}
              seen2 == known[m] \cup {0}
              merged == MergeCell(c1, seen1, c2, seen2)
  <2>1. c1 \in SUBSET Sibling(Len(log)) /\ c2 \in SUBSET Sibling(Len(log))
    BY <1>1, Zenon DEF CellsShape
  <2>2. \A s \in c2 : Outlives(c1, seen1, s) BY <1>1, Zenon DEF NothingLost
  <2>3. \A s \in c1 : Outlives(c2, seen2, s) BY <1>1, Zenon DEF NothingLost
  <2>4. Len(log) \in Nat BY <1>1 DEF LogShape
  <2>5. cells'[n][row][c] = merged BY Zenon, <1>2 DEF Merged
  <2>. HIDE DEF c1, c2, seen1, seen2
  <2>6. \A s \in c1 \cup c2 : s \in merged \/ \E t \in merged : t.op > s.op
    BY <2>1, <2>2, <2>3, <2>4, MergeKeeps, Zenon
  <2>7. merged \subseteq c1 \cup c2 BY MergePart, Zenon
  <2>. QED BY Zenon, <2>5, <2>6, <2>7 DEF c1, c2
<1>8. CellsShape'
  <2>1. ASSUME NEW row \in SecurityTable, NEW c \in Columns(row)
        PROVE cells'[n][row][c] # {} /\ cells'[n][row][c] \subseteq Sibling(Len(log))
    <3>1. \A p \in Node : cells[p][row][c] # {} /\ cells[p][row][c] \subseteq Sibling(Len(log))
      BY <1>1, Zenon DEF CellsShape
    <3>. QED BY <3>1, <1>7, Zenon
  <2>2. \A p \in Node, row \in SecurityTable : \A c \in Columns(row) :
          cells'[p][row][c] # {} /\ cells'[p][row][c] \subseteq Sibling(Len(log))
    <3>. SUFFICES ASSUME NEW p \in Node, NEW row \in SecurityTable, NEW c \in Columns(row)
                  PROVE cells'[p][row][c] # {} /\ cells'[p][row][c] \subseteq Sibling(Len(log))
      BY Zenon
    <3>1. CASE p = n BY <3>1, <2>1, Zenon
    <3>2. CASE p # n
      <4>1. cells'[p] = cells[p] BY <3>2, <1>2, Zenon
      <4>. QED BY <4>1, <1>1, Zenon DEF CellsShape
    <3>. QED BY Zenon, <3>1, <3>2
  <2>. QED BY <1>2, <2>2, <1>6, ZenonT(30) DEF CellsShape
<1>9. NothingLost'
  <2>. SUFFICES ASSUME NEW p \in Node, NEW k \in Node, NEW row \in SecurityTable,
                       NEW c \in Columns(row), NEW s \in cells'[k][row][c],
                       s.op \in known'[p] \cup {0}
                PROVE s \in cells'[p][row][c] \/ \E t \in cells'[p][row][c] : t.op > s.op
    BY Zenon DEF NothingLost, Outlives
  <2>1. PICK j \in Node : s \in cells[j][row][c] BY <1>2, <1>7, Zenon
  <2>2. ASSUME NEW i \in Node, s.op \in known[i] \cup {0}
        PROVE s \in cells[i][row][c] \/ \E t \in cells[i][row][c] : t.op > s.op
    BY <2>1, <2>2, <1>1, Zenon DEF NothingLost, Outlives
  <2>3. CASE p # n BY <2>2, <2>3, <1>2, <1>4, Zenon
  <2>4. CASE p = n
    <3>1. PICK i \in {n, m} : s.op \in known[i] \cup {0} BY <2>4, <1>4, Zenon
    <3>2. CASE s \in cells[i][row][c] BY <3>2, <2>4, <1>7, Zenon
    <3>3. ASSUME NEW t \in cells[i][row][c], t.op > s.op
          PROVE \E u \in cells'[n][row][c] : u.op > s.op
      <4>1. \A x \in cells[n][row][c] \cup cells[m][row][c] : x.op \in Nat
        BY SMTT(30), <1>1 DEF CellsShape, Sibling
      <4>2. s.op \in Nat BY <2>1, <1>1 DEF CellsShape, Sibling
      <4>3. t \in cells'[n][row][c] \/ \E u \in cells'[n][row][c] : u.op > t.op
        BY <1>7, Zenon
      <4>4. \A u \in cells'[n][row][c] : u.op \in Nat BY <4>1, <1>7, Zenon
      <4>5. t.op \in Nat BY <4>1, Zenon
      <4>6. \A u \in cells'[n][row][c] : u.op > t.op => u.op > s.op
        BY SMTT(30), <4>2, <4>4, <4>5, <3>3
      <4>. QED BY <4>3, <4>6, <3>3, Zenon
    <3>. QED BY <3>1, <2>2, <3>2, <3>3, <2>4, Zenon
  <2>. QED BY Zenon, <2>3, <2>4
<1>10. UsedStaysUsed'
  <2>0. "code" \in SecurityTable /\ "consumed_at" \in Columns("code")
    BY Zenon DEF SecurityTable, Columns
  <2>. DEFINE Null(p) == cells[p]["code"]["consumed_at"]
  <2>1. cells'[n]["code"]["consumed_at"] \subseteq Null(n) \cup Null(m) BY Zenon, <1>7, <2>0
  <2>2. ASSUME NEW o \in known'[n], log[o].kind = "consume", NEW s \in cells'[n]["code"]["consumed_at"],
               s.op = 0
        PROVE FALSE
    <3>1. s \in MergeCell(Null(n), known[n] \cup {0}, Null(m), known[m] \cup {0})
      BY Zenon, <1>2, <2>0 DEF Merged
    <3>2. s \in Null(n) /\ s \in Null(m) BY <3>1, <2>2, Zenon DEF MergeCell
    <3>3. PICK i \in {n, m} : o \in known[i] BY <1>4, Zenon
    <3>. QED BY <3>2, <3>3, <2>2, <1>1, Zenon DEF UsedStaysUsed
  <2>3. ASSUME NEW s \in cells'[n]["code"]["consumed_at"]
        PROVE (s.op = 0 => s.val = NoValue) /\ (s.val = NoValue => s.op = 0 \/ outdated)
    BY <2>1, <1>1, Zenon DEF UsedStaysUsed
  <2>4. ASSUME NEW p \in Node
        PROVE /\ \A s \in cells'[p]["code"]["consumed_at"] :
                   /\ s.op = 0 => s.val = NoValue
                   /\ s.val = NoValue => s.op = 0 \/ outdated
              /\ (\E o \in known'[p] : log[o].kind = "consume") =>
                   \A s \in cells'[p]["code"]["consumed_at"] : s.op # 0
    <3>1. CASE p = n BY <3>1, <2>2, <2>3, Zenon
    <3>2. CASE p # n
      <4>1. cells'[p] = cells[p] /\ known'[p] = known[p] BY <3>2, <1>2, <1>4, Zenon
      <4>. QED BY <4>1, <1>1, Zenon DEF UsedStaysUsed
    <3>. QED BY Zenon, <3>1, <3>2
  <2>. QED BY <2>4, <1>6, Zenon DEF UsedStaysUsed
<1>11. LogShape' BY Zenon, <1>1, <1>4, <1>5, <1>6 DEF LogShape
<1>12. JobsOK'
  <2>1. \A p \in Node : known[p] \subseteq known'[p] BY <1>4, Zenon
  <2>2. \A q : JobOK(q) => JobOK(q)' BY <2>1, <1>1, <1>6, JobKept, Zenon
  <2>. QED BY <2>2, <1>1, <1>6, Zenon DEF JobsOK
<1>13. AuditMatches'
  <2>1. ASSUME NEW p \in Node, NEW o \in audits'[p]
        PROVE o \in known'[p] /\ log[o].kind = "resolution"
    <3>1. PICK i \in Node : o \in audits[i] /\ known[i] \subseteq known'[p]
      BY <1>4, <1>5, Zenon
    <3>. QED BY <3>1, <1>1, Zenon DEF AuditMatches
  <2>2. \A o : (\E p \in Node : o \in audits[p]) => \E p \in Node : o \in audits'[p]
    BY <1>5, Zenon
  <2>3. \A o \in 1 .. Len(log) : log[o].kind = "resolution" =>
          \/ \E p \in Node : o \in audits'[p]
          \/ \E q \in Job : jobs[q].pc = "audit" /\ jobs[q].change = o
          \/ aborted
    BY <2>2, <1>1, Zenon DEF AuditMatches
  <2>. QED BY <2>1, <2>3, <1>6, Zenon DEF AuditMatches
<1>. QED BY <1>8, <1>9, <1>10, <1>11, <1>12, <1>13, Zenon DEF ConflictInv

LEMMA ResolveRowStep ==
  ASSUME ConflictInv, NEW q \in Job, ResolveRowStatement(q)
  PROVE ConflictInv'
<1>. DEFINE job == jobs[q]
            done == [pc |-> "audit", node |-> job.node, change |-> NextChange]
<1>1. job.pc = "write" /\ JobOK(q) BY Zenon DEF ResolveRowStatement, ConflictInv, JobsOK
<1>2. /\ job.node \in Node /\ job.row \in SecurityTable
      /\ DOMAIN job.values \subseteq Columns(job.row)
      /\ \A c \in DOMAIN job.values : job.values[c] \in Second \cup {0, NoValue}
  BY <1>1, Zenon DEF JobOK, Resolving
<1>3. \/ outdated
      \/ job.row # "code" \/ "consumed_at" \notin DOMAIN job.values
      \/ job.values["consumed_at"] # NoValue
  BY <1>1, Zenon DEF JobOK, KeepsUsed
<1>4. /\ WriteRow(job.node, job.row, job.values, "resolution")
      /\ jobs' = [jobs EXCEPT ![q] = done]
      /\ UNCHANGED <<audits, outdated, aborted>>
  BY Zenon DEF ResolveRowStatement
<1>5. done.pc = "audit" /\ done.node = job.node /\ done.change = NextChange BY Zenon
<1>. HIDE DEF job, done
<1>6. /\ CellsShape' /\ NothingLost' /\ UsedStaysUsed' /\ LogShape'
      /\ \A p : JobOK(p) /\ jobs'[p] = jobs[p] => JobOK(p)'
      /\ NextChange \in known'[job.node] /\ log'[NextChange].kind = "resolution"
      /\ \A m \in Node : \A o \in audits[m] : o \in known'[m] /\ log'[o].kind = "resolution"
      /\ \A o \in 1 .. Len(log') :
           o # NextChange => o \in 1 .. Len(log) /\ log'[o] = log[o]
  <2>1. "resolution" \in {"consume", "update", "resolution"} /\ "resolution" # "consume"
    BY Zenon
  <2>. QED BY <2>1, <1>2, <1>3, <1>4, StatementKeeps, Zenon
<1>7. DOMAIN jobs = Job BY Zenon DEF ConflictInv, JobsOK
<1>8. /\ DOMAIN jobs' = Job /\ jobs'[q] = done
      /\ \A p \in Job : p # q => jobs'[p] = jobs[p]
  BY Zenon, <1>7, <1>4
<1>9. JobsOK'
  <2>0. jobs'[q].pc = "audit" /\ jobs'[q].node = job.node /\ jobs'[q].change = NextChange
    BY <1>5, <1>8, Zenon
  <2>1. /\ jobs'[q].node \in Node /\ jobs'[q].change \in known'[jobs'[q].node]
        /\ log'[jobs'[q].change].kind = "resolution"
    BY <2>0, <1>2, <1>6, Zenon DEF job
  <2>2. JobOK(q)' BY Zenon, <2>0, <2>1 DEF JobOK, Auditing
  <2>3. ASSUME NEW p \in Job, p # q PROVE JobOK(p)'
    BY <2>3, <1>6, <1>8, Zenon DEF ConflictInv, JobsOK
  <2>. QED BY <2>2, <2>3, <1>8, Zenon DEF JobsOK
<1>10. AuditMatches'
  <2>1. audits' = audits /\ aborted' = aborted BY <1>4, Zenon
  <2>2. ASSUME NEW o \in 1 .. Len(log'), log'[o].kind = "resolution"
        PROVE \/ \E n \in Node : o \in audits[n]
              \/ \E p \in Job : jobs'[p].pc = "audit" /\ jobs'[p].change = o
              \/ aborted
    <3>1. CASE o = NextChange BY <3>1, <1>5, <1>8, Zenon
    <3>2. CASE o # NextChange
      <4>1. o \in 1 .. Len(log) /\ log[o].kind = "resolution" BY <3>2, <2>2, <1>6, Zenon
      <4>2. \/ \E n \in Node : o \in audits[n]
            \/ \E p \in Job : jobs[p].pc = "audit" /\ jobs[p].change = o
            \/ aborted
        BY <4>1, Zenon DEF ConflictInv, AuditMatches
      <4>3. jobs[q].pc # "audit" BY Zenon, <1>1 DEF job
      <4>. QED BY <4>2, <4>3, <1>8, Zenon
    <3>. QED BY Zenon, <3>1, <3>2
  <2>. QED BY <2>1, <2>2, <1>6, Zenon DEF AuditMatches
<1>. QED BY <1>6, <1>9, <1>10, Zenon DEF ConflictInv

\* Steps that touch neither the rows nor the log, and no request but q's.
LEMMA RequestStep ==
  ASSUME ConflictInv, NEW q \in Job, NEW job, jobs' = [jobs EXCEPT ![q] = job],
         UNCHANGED <<cells, known, log>>, audits' \in [Node -> SUBSET (1 .. Len(log))],
         outdated' \in BOOLEAN, aborted' \in BOOLEAN, outdated => outdated', aborted => aborted',
         JobOK(q)',
         \A n \in Node : audits[n] \subseteq audits'[n],
         \A n \in Node : \A o \in audits'[n] :
           o \notin audits[n] => o \in known[n] /\ log[o].kind = "resolution",
         jobs[q].pc = "audit" =>
           aborted' \/ \E n \in Node : jobs[q].change \in audits'[n]
  PROVE ConflictInv'
<1>1. CellsShape /\ NothingLost /\ UsedStaysUsed /\ LogShape /\ JobsOK /\ AuditMatches
  BY Zenon DEF ConflictInv
<1>2. cells' = cells /\ known' = known /\ log' = log BY Zenon
<1>3. /\ DOMAIN jobs' = Job /\ jobs'[q] = job
      /\ \A p \in Job : p # q => jobs'[p] = jobs[p]
  BY Zenon, <1>1 DEF JobsOK
<1>4. CellsShape' BY SMTT(30), <1>1, <1>2 DEF CellsShape
<1>5. NothingLost' BY <1>1, <1>2, Zenon DEF NothingLost
<1>6. UsedStaysUsed' BY <1>1, <1>2, Zenon DEF UsedStaysUsed
<1>7. LogShape' BY <1>1, <1>2, Zenon DEF LogShape
<1>8. JobsOK'
  <2>1. /\ \A m \in Node : known[m] \subseteq known'[m]
        /\ \A o \in 1 .. Len(log) : log'[o] = log[o]
    BY <1>2, Zenon
  <2>2. ASSUME NEW p \in Job, p # q PROVE JobOK(p)'
    <3>1. JobOK(p) /\ jobs'[p] = jobs[p] BY <2>2, <1>1, <1>3, Zenon DEF JobsOK
    <3>. QED BY <3>1, <2>1, <1>1, JobKept, Zenon
  <2>. QED BY <2>2, <1>3, Zenon DEF JobsOK
<1>9. AuditMatches'
  <2>1. ASSUME NEW n \in Node, NEW o \in audits'[n]
        PROVE o \in known[n] /\ log[o].kind = "resolution"
    BY <1>1, Zenon DEF AuditMatches
  <2>2. ASSUME NEW o \in 1 .. Len(log), log[o].kind = "resolution"
        PROVE \/ \E n \in Node : o \in audits'[n]
              \/ \E p \in Job : jobs'[p].pc = "audit" /\ jobs'[p].change = o
              \/ aborted'
    <3>1. \/ \E n \in Node : o \in audits[n]
          \/ \E p \in Job : jobs[p].pc = "audit" /\ jobs[p].change = o
          \/ aborted
      BY <2>2, <1>1, Zenon DEF AuditMatches
    <3>2. CASE \E n \in Node : o \in audits[n] BY <3>2, Zenon
    <3>3. CASE \E p \in Job : jobs[p].pc = "audit" /\ jobs[p].change = o
      <4>1. PICK p \in Job : jobs[p].pc = "audit" /\ jobs[p].change = o BY <3>3, Zenon
      <4>2. CASE p = q BY <4>1, <4>2, Zenon
      <4>3. CASE p # q BY <4>1, <4>3, <1>3, Zenon
      <4>. QED BY Zenon, <4>2, <4>3
    <3>4. CASE aborted BY <3>4, Zenon
    <3>. QED BY <3>1, <3>2, <3>3, <3>4, Zenon
  <2>. QED BY <2>1, <2>2, <1>2, ZenonT(30) DEF AuditMatches
<1>. QED BY <1>4, <1>5, <1>6, <1>7, <1>8, <1>9, Zenon DEF ConflictInv

LEMMA RestOK ==
  ASSUME NEW q, jobs'[q] = NoRequestYet PROVE JobOK(q)'
<1>1. jobs'[q].pc = "rest" BY DEF NoRequestYet
<1>. QED BY Zenon, <1>1 DEF JobOK

LEMMA FinishIs ==
  ASSUME ConflictInv, NEW q \in Job, Finish(q)
  PROVE /\ jobs' = [jobs EXCEPT ![q] = NoRequestYet]
        /\ JobOK(q)'
<1>1. DOMAIN jobs = Job BY Zenon DEF ConflictInv, JobsOK
<1>2. jobs' = [jobs EXCEPT ![q] = NoRequestYet] BY Zenon DEF Finish
<1>3. jobs'[q] = NoRequestYet BY Zenon, <1>1, <1>2
<1>. QED BY <1>2, <1>3, RestOK, Zenon

\* A request that begins, goes on or answers.
LEMMA OwnStep ==
  ASSUME ConflictInv, NEW q \in Job, NEW job, jobs' = [jobs EXCEPT ![q] = job],
         JobOK(q)', jobs[q].pc # "audit",
         UNCHANGED <<cells, known, log, audits, aborted>>,
         outdated' \in BOOLEAN, outdated => outdated'
  PROVE ConflictInv'
<1>1. audits' = audits /\ aborted' = aborted /\ LogShape BY Zenon DEF ConflictInv
<1>2. audits' \in [Node -> SUBSET (1 .. Len(log))] /\ aborted' \in BOOLEAN
  BY <1>1, Zenon DEF LogShape
<1>3. aborted => aborted' BY <1>1
<1>. QED BY <1>1, <1>2, <1>3, RequestStep, Zenon

LEMMA BeginCheckStep ==
  ASSUME ConflictInv, NEW q \in Job, NEW n \in Node, BeginCheck(q, n)
  PROVE ConflictInv'
<1>. DEFINE job == [pc |-> "check", node |-> n, rows |-> <<"client", "code">>,
       blocked |-> {row \in SecurityTable : RowConflicts(n, row) # {}}]
<1>1. jobs' = [jobs EXCEPT ![q] = job] BY Zenon DEF BeginCheck
<1>2. /\ job.pc = "check" /\ job.node = n /\ job.rows = <<"client", "code">>
      /\ job.blocked \subseteq SecurityTable
  BY Zenon
<1>. HIDE DEF job
<1>3. DOMAIN jobs = Job /\ LogShape BY Zenon DEF ConflictInv, JobsOK
<1>4. jobs'[q] = job BY Zenon, <1>1, <1>3
<1>5. JobOK(q)' BY Zenon, <1>2, <1>4 DEF JobOK, Checking
<1>6. jobs[q].pc # "audit" BY SMTT(30) DEF BeginCheck, NoRequestYet
<1>7. UNCHANGED <<cells, known, log, audits, outdated, aborted>> BY Zenon DEF BeginCheck
<1>8. outdated' \in BOOLEAN /\ (outdated => outdated') BY Zenon, <1>3, <1>7 DEF LogShape
<1>. QED BY <1>1, <1>5, <1>6, <1>7, <1>8, OwnStep, Zenon

LEMMA ClearStep ==
  ASSUME ConflictInv, NEW q \in Job, Clear(q)
  PROVE ConflictInv'
<1>. DEFINE job == jobs[q]
            free == RowConflicts(job.node, Head(job.rows)) = {}
            still == {row \in job.blocked : RowConflicts(job.node, row) # {}}
            next == IF free /\ Len(job.rows) > 1
                    THEN [job EXCEPT !.rows = Tail(@), !.blocked = still]
                    ELSE [pc |-> "answered", allowed |-> free, blocked |-> still]
<1>1. jobs' = [jobs EXCEPT ![q] = next] BY Zenon DEF Clear
<1>2. DOMAIN jobs = Job /\ LogShape /\ JobOK(q) BY Zenon DEF ConflictInv, JobsOK
<1>3. jobs'[q] = next BY Zenon, <1>1, <1>2
<1>4. job.pc = "check" BY Zenon DEF Clear
<1>5. Checking(job) BY <1>2, <1>4, Zenon DEF JobOK
<1>6. JobOK(q)'
  <2>1. CASE free /\ Len(job.rows) > 1
    <3>0. Len(<<"code">>) = 1 BY Zenon
    <3>1. job.rows = <<"client", "code">>
      <4>1. ASSUME job.rows = <<"code">> PROVE FALSE
        <5>1. Len(job.rows) = 1 BY <3>0, <4>1, Zenon
        <5>2. Len(job.rows) > 1 BY <2>1, Zenon
        <5>. HIDE DEF job
        <5>. QED BY <5>1, <5>2
      <4>. QED BY <4>1, <1>5, Zenon DEF Checking
    <3>2. Head(job.rows) = "client" /\ Tail(job.rows) = <<"code">> BY <3>1
    <3>3. "client" \notin still BY Zenon, <2>1, <3>2
    <3>4. /\ next.pc = "check" /\ next.node = job.node
          /\ next.rows = Tail(job.rows) /\ next.blocked = still
      BY <2>1, <1>4 DEF JobOK
    <3>5. still \subseteq SecurityTable /\ job.node \in Node BY Zenon, <1>5 DEF Checking
    <3>. HIDE DEF next, still, job
    <3>. QED BY Zenon, <1>3, <3>2, <3>3, <3>4, <3>5 DEF JobOK, Checking
  <2>2. CASE ~(free /\ Len(job.rows) > 1)
    <3>1. next.pc = "answered" /\ next.blocked = still BY Zenon, <2>2
    <3>2. next.allowed = free BY Zenon, <2>2
    <3>3. ASSUME free PROVE still = {}
      <4>1. job.rows = <<"code">> /\ "client" \notin job.blocked
        BY SMTT(30), <2>2, <3>3, <1>5 DEF Checking
      <4>2. Head(job.rows) = "code" BY <4>1
      <4>. QED BY Zenon, <4>1, <4>2, <3>3, <1>5 DEF Checking, SecurityTable
    <3>4. next.allowed => next.blocked = {} BY Zenon, <3>1, <3>2, <3>3
    <3>. HIDE DEF next, still, job
    <3>. QED BY Zenon, <1>3, <3>1, <3>4 DEF JobOK
  <2>. QED BY Zenon, <2>1, <2>2
<1>7. UNCHANGED <<cells, known, log, audits, outdated, aborted>> BY Zenon DEF Clear
<1>8. outdated' \in BOOLEAN /\ (outdated => outdated') BY Zenon, <1>2, <1>7 DEF LogShape
<1>9. jobs[q].pc # "audit" BY Zenon, <1>4
<1>. HIDE DEF next
<1>. QED BY <1>1, <1>6, <1>7, <1>8, <1>9, OwnStep, Zenon

LEMMA AnsweredStep ==
  ASSUME ConflictInv, NEW q \in Job, Answered(q)
  PROVE ConflictInv'
<1>1. /\ Finish(q) /\ jobs[q].pc # "audit"
      /\ UNCHANGED <<cells, known, log, audits, outdated, aborted>>
  BY Zenon DEF Answered
<1>2. jobs' = [jobs EXCEPT ![q] = NoRequestYet] /\ JobOK(q)' BY <1>1, FinishIs, Zenon
<1>3. LogShape BY Zenon DEF ConflictInv
<1>4. outdated' \in BOOLEAN /\ (outdated => outdated') BY Zenon, <1>1, <1>3 DEF LogShape
<1>. QED BY <1>1, <1>2, <1>4, OwnStep, Zenon

LEMMA ChooseValuesStep ==
  ASSUME ConflictInv, NEW q \in Job, NEW n \in Node, NEW row \in SecurityTable,
         ChooseValues(q, n, row)
  PROVE ConflictInv'
<1>0. PICK chosen \in (SUBSET RowConflicts(n, row)) \ {{}} :
        \E values \in [chosen -> Second \cup {0, NoValue}] :
          jobs' = [jobs EXCEPT ![q] =
                    [pc |-> "resolve", node |-> n, row |-> row, values |-> values]]
  BY Zenon DEF ChooseValues
<1>1. PICK values \in [chosen -> Second \cup {0, NoValue}] :
        jobs' = [jobs EXCEPT ![q] =
                  [pc |-> "resolve", node |-> n, row |-> row, values |-> values]]
  BY <1>0, Zenon
<1>. DEFINE job == [pc |-> "resolve", node |-> n, row |-> row, values |-> values]
<1>2. job.pc = "resolve" /\ job.node = n /\ job.row = row /\ job.values = values BY Zenon
<1>3. chosen \subseteq Columns(row) BY Zenon DEF RowConflicts
<1>4. DOMAIN values = chosen /\ \A c \in chosen : values[c] \in Second \cup {0, NoValue}
  BY Zenon
<1>. HIDE DEF job
<1>5. Resolving(job) BY <1>2, <1>3, <1>4, Zenon DEF Resolving
<1>6. DOMAIN jobs = Job /\ LogShape BY Zenon DEF ConflictInv, JobsOK
<1>7. jobs' = [jobs EXCEPT ![q] = job] BY Zenon, <1>1 DEF job
<1>8. jobs'[q] = job BY Zenon, <1>6, <1>7
<1>9. JobOK(q)' BY Zenon, <1>2, <1>5, <1>8 DEF JobOK, Resolving
<1>10. jobs[q].pc # "audit" BY SMTT(30) DEF ChooseValues, NoRequestYet
<1>11. UNCHANGED <<cells, known, log, audits, outdated, aborted>> BY Zenon DEF ChooseValues
<1>12. outdated' \in BOOLEAN /\ (outdated => outdated') BY Zenon, <1>6, <1>11 DEF LogShape
<1>. QED BY <1>7, <1>9, <1>10, <1>11, <1>12, OwnStep, Zenon

LEMMA ReadConflictsStep ==
  ASSUME ConflictInv, NEW q \in Job, ReadConflicts(q)
  PROVE ConflictInv'
<1>. DEFINE job == jobs[q]
            conflicts == RowConflicts(job.node, job.row)
            next == [job EXCEPT !.pc = "write"]
            late == ~(DOMAIN job.values \subseteq conflicts)
<1>1. DOMAIN jobs = Job /\ LogShape /\ JobOK(q) BY Zenon DEF ConflictInv, JobsOK
<1>2. job.pc = "resolve" BY Zenon DEF ReadConflicts
<1>3. Resolving(job) BY <1>1, <1>2, Zenon DEF JobOK
<1>4. UNCHANGED <<cells, known, log, audits, aborted>> BY Zenon DEF ReadConflicts
<1>5. jobs[q].pc # "audit" BY Zenon, <1>2
<1>6. CASE Permitted(job.row, conflicts, job.values)
  <2>1. jobs' = [jobs EXCEPT ![q] = next] BY Zenon, <1>6 DEF ReadConflicts
  <2>2. outdated' = (outdated \/ late) BY Zenon, <1>6 DEF ReadConflicts
  <2>3. outdated' \in BOOLEAN /\ (outdated => outdated') /\ (late => outdated') BY Zenon, <2>2
  <2>4. next.pc = "write" /\ next.node = job.node /\ next.row = job.row
        /\ next.values = job.values
    BY <1>2
  <2>5. jobs'[q] = next BY Zenon, <2>1, <1>1
  <2>6. ~late => KeepsUsed(job)
    <3>. SUFFICES ASSUME DOMAIN job.values \subseteq conflicts, job.row = "code",
                         "consumed_at" \in DOMAIN job.values
                  PROVE job.values["consumed_at"] # NoValue
      BY Zenon DEF KeepsUsed
    <3>. QED BY <1>6, Zenon DEF Permitted, IsTokenState
  <2>. HIDE DEF next, job, late
  <2>7. Resolving(next) /\ (~late => KeepsUsed(next))
    BY <1>3, <2>4, <2>6, Zenon DEF Resolving, KeepsUsed
  <2>8. JobOK(q)'
    <3>1. jobs'[q].pc = "write" BY Zenon, <2>4, <2>5
    <3>2. Resolving(jobs'[q]) /\ (outdated' \/ KeepsUsed(jobs'[q]))
      BY <2>3, <2>5, <2>7, Zenon
    <3>. QED BY Zenon, <3>1, <3>2 DEF JobOK, Resolving, KeepsUsed
  <2>. QED BY <2>1, <2>3, <2>8, <1>4, <1>5, OwnStep, Zenon
<1>7. CASE ~Permitted(job.row, conflicts, job.values)
  <2>1. Finish(q) /\ outdated' = outdated BY <1>7, Zenon DEF ReadConflicts
  <2>2. jobs' = [jobs EXCEPT ![q] = NoRequestYet] /\ JobOK(q)' BY <2>1, FinishIs, Zenon
  <2>3. outdated' \in BOOLEAN /\ (outdated => outdated') BY Zenon, <1>1, <2>1 DEF LogShape
  <2>. QED BY <2>2, <2>3, <1>4, <1>5, OwnStep, Zenon
<1>. QED BY Zenon, <1>6, <1>7

LEMMA InsertAuditStep ==
  ASSUME ConflictInv, NEW q \in Job, InsertAudit(q)
  PROVE ConflictInv'
<1>1. LogShape /\ JobOK(q) BY Zenon DEF ConflictInv, JobsOK
<1>2. /\ jobs[q].pc = "audit" /\ Finish(q)
      /\ cells' = cells /\ known' = known /\ log' = log /\ outdated' = outdated
      /\ aborted' = aborted
      /\ audits' = [audits EXCEPT ![jobs[q].node] = @ \cup {jobs[q].change}]
  BY Zenon DEF InsertAudit
<1>3. Auditing(jobs[q]) BY <1>1, <1>2, Zenon DEF JobOK
<1>. DEFINE node == jobs[q].node
            change == jobs[q].change
<1>4. node \in Node /\ change \in known[node] /\ log[change].kind = "resolution"
  BY <1>3, Zenon DEF Auditing
<1>5. audits' = [audits EXCEPT ![node] = @ \cup {change}] BY Zenon, <1>2
<1>6. /\ audits \in [Node -> SUBSET (1 .. Len(log))]
      /\ known \in [Node -> SUBSET (1 .. Len(log))]
  BY Zenon, <1>1 DEF LogShape
<1>. HIDE DEF node, change
<1>7. change \in 1 .. Len(log) BY Zenon, <1>4, <1>6
<1>8. /\ audits' \in [Node -> SUBSET (1 .. Len(log))]
      /\ audits'[node] = audits[node] \cup {change}
      /\ \A n \in Node : n # node => audits'[n] = audits[n]
  BY Zenon, <1>4, <1>5, <1>6, <1>7
<1>9. jobs' = [jobs EXCEPT ![q] = NoRequestYet] /\ JobOK(q)' BY <1>2, FinishIs, Zenon
<1>10. outdated' \in BOOLEAN /\ aborted' \in BOOLEAN
  BY Zenon, <1>1, <1>2 DEF LogShape
<1>11. \A n \in Node : audits[n] \subseteq audits'[n] BY <1>8, Zenon
<1>12. \A n \in Node : \A o \in audits'[n] :
         o \notin audits[n] => o \in known[n] /\ log[o].kind = "resolution"
  BY <1>4, <1>8, Zenon
<1>13. \E n \in Node : jobs[q].change \in audits'[n] BY <1>4, <1>8, Zenon DEF change
<1>14. outdated => outdated' BY Zenon, <1>2
<1>15. aborted => aborted' BY Zenon, <1>2
<1>. QED BY <1>2, <1>8, <1>9, <1>10, <1>11, <1>12, <1>13, <1>14, <1>15, RequestStep, Zenon

LEMMA AbortStep ==
  ASSUME ConflictInv, NEW q \in Job, Abort(q)
  PROVE ConflictInv'
<1>1. LogShape BY Zenon DEF ConflictInv
<1>2. /\ Finish(q)
      /\ cells' = cells /\ known' = known /\ log' = log /\ outdated' = outdated
      /\ audits' = audits /\ aborted' = (aborted \/ jobs[q].pc = "audit")
  BY Zenon DEF Abort
<1>3. jobs' = [jobs EXCEPT ![q] = NoRequestYet] /\ JobOK(q)' BY <1>2, FinishIs, Zenon
<1>4. outdated' \in BOOLEAN /\ aborted' \in BOOLEAN BY Zenon, <1>1, <1>2 DEF LogShape
<1>5. outdated => outdated' BY Zenon, <1>2
<1>6. aborted => aborted' BY Zenon, <1>2
<1>7. jobs[q].pc = "audit" => aborted' BY Zenon, <1>2
<1>8. /\ audits' \in [Node -> SUBSET (1 .. Len(log))]
      /\ \A n \in Node : audits[n] \subseteq audits'[n]
      /\ \A n \in Node : \A o \in audits'[n] : o \in audits[n]
  BY <1>1, <1>2, Zenon DEF LogShape
<1>. QED BY <1>2, <1>3, <1>4, <1>5, <1>6, <1>7, <1>8, RequestStep, Zenon

LEMMA ConflictStep == ConflictInv /\ [ConflictNext]_conflictVars => ConflictInv'
<1>. SUFFICES ASSUME ConflictInv, [ConflictNext]_conflictVars PROVE ConflictInv' BY Zenon
<1>1. ASSUME NEW n \in Node, ConsumeCode(n) \/ UpdateClient(n) PROVE ConflictInv'
  BY <1>1, RepositoryStep, Zenon
<1>2. ASSUME NEW n \in Node, NEW m \in Node, Synchronize(n, m) PROVE ConflictInv'
  BY <1>2, SynchronizeStep, Zenon
<1>3. ASSUME NEW q \in Job, NEW n \in Node, BeginCheck(q, n) PROVE ConflictInv'
  BY <1>3, BeginCheckStep, Zenon
<1>4. ASSUME NEW q \in Job, NEW n \in Node, NEW row \in SecurityTable, ChooseValues(q, n, row)
      PROVE ConflictInv'
  BY <1>4, ChooseValuesStep, Zenon
<1>5. ASSUME NEW q \in Job, Clear(q) PROVE ConflictInv' BY <1>5, ClearStep, Zenon
<1>6. ASSUME NEW q \in Job, Answered(q) PROVE ConflictInv' BY <1>6, AnsweredStep, Zenon
<1>7. ASSUME NEW q \in Job, ReadConflicts(q) PROVE ConflictInv'
  BY <1>7, ReadConflictsStep, Zenon
<1>8. ASSUME NEW q \in Job, ResolveRowStatement(q) PROVE ConflictInv'
  BY <1>8, ResolveRowStep, Zenon
<1>9. ASSUME NEW q \in Job, InsertAudit(q) PROVE ConflictInv' BY <1>9, InsertAuditStep, Zenon
<1>10. ASSUME NEW q \in Job, Abort(q) PROVE ConflictInv' BY <1>10, AbortStep, Zenon
<1>11. CASE UNCHANGED conflictVars
  <2>1. /\ cells' = cells /\ known' = known /\ log' = log /\ audits' = audits /\ jobs' = jobs
        /\ outdated' = outdated /\ aborted' = aborted
    BY <1>11, Zenon DEF conflictVars
  <2>2. /\ CellsShape' = CellsShape /\ NothingLost' = NothingLost
        /\ UsedStaysUsed' = UsedStaysUsed /\ LogShape' = LogShape
        /\ JobsOK' = JobsOK /\ AuditMatches' = AuditMatches
    BY Zenon, <2>1 DEF CellsShape, NothingLost, UsedStaysUsed, LogShape, JobsOK, JobOK,
       Checking,
       Resolving, KeepsUsed, Auditing, AuditMatches
  <2>. QED BY Zenon, <2>2 DEF ConflictInv
<1>. QED BY <1>1, <1>2, <1>3, <1>4, <1>5, <1>6, <1>7, <1>8, <1>9, <1>10, <1>11, Zenon
     DEF ConflictNext

\* The invariant of replicated rows, their conflicts and resolutions.
THEOREM ConflictInvariant == ConflictSpec => []ConflictInv
BY ConflictInitInv, ConflictStep, PTL DEF ConflictSpec

\* Type correctness of ConflictResolution.
THEOREM ConflictTypeCorrect == ConflictSpec => []ConflictTypeOK
<1>1. ConflictInv => ConflictTypeOK
  BY Zenon DEF ConflictInv, CellsShape, LogShape, JobsOK, JobOK, ConflictTypeOK, Sibling
<1>. QED BY <1>1, ConflictInvariant, PTL

\* The merge of replicated cells loses nothing: what a replica has seen it holds, or it
\* holds something written later, in whatever order replicas synchronize.
THEOREM ChangesSurvive == ConflictSpec => []NothingLost
<1>1. ConflictInv => NothingLost BY Zenon DEF ConflictInv
<1>. QED BY <1>1, ConflictInvariant, PTL

\* A consumed authorization code reads as unused, without a conflict, only if a resolution
\* was checked after its conflict had been settled (is_token_state).
THEOREM ConsumptionLasts == ConflictSpec => []UnusedHasCause
<1>1. ConflictInv => UnusedHasCause
  <2>. SUFFICES ASSUME ConflictInv, NEW n \in Node, ~outdated,
                       \E o \in known[n] : log[o].kind = "consume"
                PROVE Values(cells[n]["code"]["consumed_at"]) # {NoValue}
    BY Zenon DEF UnusedHasCause
  <2>1. "code" \in SecurityTable /\ "consumed_at" \in Columns("code")
    BY Zenon DEF SecurityTable, Columns
  <2>2. PICK s \in cells[n]["code"]["consumed_at"] : TRUE
    BY Zenon, <2>1 DEF ConflictInv, CellsShape
  <2>3. s.val # NoValue BY Zenon DEF ConflictInv, UsedStaysUsed
  <2>4. s.val \in Values(cells[n]["code"]["consumed_at"]) BY Zenon DEF Values
  <2>. QED BY <2>3, <2>4, Zenon
<1>. QED BY <1>1, ConflictInvariant, PTL

\* clear denies a request if some row was in conflict during all of its checks.
THEOREM ConflictsDeny == ConflictSpec => []DeniedWhileConflicted
<1>1. ConflictInv => DeniedWhileConflicted
  BY Zenon DEF ConflictInv, JobsOK, JobOK, DeniedWhileConflicted
<1>. QED BY <1>1, ConflictInvariant, PTL

\* No audit record is at a node before its resolution, and none is missing unless a request
\* ended between the two statements (resolve, resolution_insert).
THEOREM AuditsMatch == ConflictSpec => []AuditMatches
<1>1. ConflictInv => AuditMatches BY Zenon DEF ConflictInv
<1>. QED BY <1>1, ConflictInvariant, PTL
=============================================================================
