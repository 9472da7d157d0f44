---------------------------- MODULE UserAccounts ----------------------------
(***************************************************************************)
(* The accounts of the IdP: DbUserRepo and the operations of OAuth2Service *)
(* on users (idp-service).  A password reset retires the credentials of a  *)
(* user one UPDATE at a time before it inserts the new one, and an e-mail  *)
(* address or phone number is made primary by one statement for it and one *)
(* for each other address; logins, resets, profile updates and deletions   *)
(* interleave with these statements, and any of them may stop half way.    *)
(*                                                                         *)
(* The table rows keep their insertion order as identity (ids are UUIDv7). *)
(* Each credential has a password of its own, so an id names both.  Left   *)
(* out: the profile columns (no decision reads them) and the user's key    *)
(* pair (InstallationSetup, OAuth2Grants).                                 *)
(***************************************************************************)
EXTENDS Naturals, Sequences

CONSTANTS
  Handle,           \* values of users.handle
  Address,          \* e-mail addresses and phone numbers
  Contact,          \* the e-mail address and phone number profile updates set
  Call,             \* slots for requests in flight
  MaxUsers,         \* bound on the users ever created
  MaxCredentials,   \* bound on the credentials ever inserted
  MaxContacts       \* bound on the addresses ever inserted

\* Either is empty when the request does not set it.
ASSUME ContactAssumption ==
  \A e \in Contact : \E a, b \in Address : e.email \in {{}, {a}} /\ e.phone \in {{}, {b}}
ASSUME AccountBounds ==
  MaxUsers \in Nat /\ MaxCredentials \in Nat /\ MaxContacts \in Nat

VARIABLES
  accounts,      \* every row ever inserted into users; the id is the position
  users,         \* the ids of the rows that are still there
  credentials,   \* every row of credentials (none is ever deleted)
  active,        \* the ids of those with active = 1
  contacts,      \* every row of user_emails and user_phone_numbers
  primary,       \* the ids of those marked primary
  retired,       \* history: the credentials a completed reset has found
  halted,        \* history: users whose last reset stopped after its second read
  tasks          \* the requests in flight

accountVars == <<accounts, users, credentials, active, contacts, primary,
                 retired, halted, tasks>>
accountRows == <<accounts, users, credentials, active, contacts, primary,
                 retired, halted>>

UserRow == [handle : Handle]
CredentialRow == [user : Nat]
EmailRow == [user : Nat, kind : {"email"}, address : Address]
PhoneRow == [user : Nat, kind : {"phone"}, address : Address]

\* user, target and found are ids, 0 when there is none.
NoCall == [pc |-> "idle", user |-> 0, todo |-> {}, found |-> {}, target |-> 0,
           kind |-> "email", address |-> {}, phone |-> {}, alone |-> FALSE,
           stale |-> {}]

Begin(c, call) == tasks[c] = NoCall /\ tasks' = [tasks EXCEPT ![c] = call]
Step(c, call) == tasks' = [tasks EXCEPT ![c] = call]
Done(c) == tasks' = [tasks EXCEPT ![c] = NoCall]
Require(c, ok, pc) == IF ok THEN Step(c, [tasks[c] EXCEPT !.pc = pc]) ELSE Done(c)
At(c, pc) == tasks[c].pc = pc

CredentialsOf(u) == {i \in DOMAIN credentials : credentials[i].user = u}
ContactsOf(u, kind) == {i \in DOMAIN contacts : contacts[i].user = u /\ contacts[i].kind = kind}

AccountInit ==
  /\ accounts = <<>> /\ users = {}
  /\ credentials = <<>> /\ active = {}
  /\ contacts = <<>> /\ primary = {}
  /\ retired = {} /\ halted = {}
  /\ tasks = [c \in Call |-> NoCall]

---------------------------------------------------------------------------
(* Creation and deletion                                                   *)

\* create_user_with_password: both INSERTs are one transaction, and the unique
\* index on handle fails it.
CreateUser(h) ==
  /\ \A u \in users : accounts[u].handle # h
  /\ Len(accounts) < MaxUsers /\ Len(credentials) < MaxCredentials
  /\ accounts' = Append(accounts, [handle |-> h])
  /\ users' = users \cup {Len(accounts) + 1}
  /\ credentials' = Append(credentials, [user |-> Len(accounts) + 1])
  /\ active' = active \cup {Len(credentials) + 1}
  /\ UNCHANGED <<contacts, primary, retired, halted, tasks>>

\* The row is found before the DELETE, which removes nothing else: credentials
\* and addresses of the user stay in their tables.
DeleteUser(u) ==
  /\ u \in users
  /\ users' = users \ {u}
  /\ UNCHANGED <<accounts, credentials, active, contacts, primary, retired, halted, tasks>>

---------------------------------------------------------------------------
(* Password reset                                                          *)

ResetPassword(c, u) ==
  /\ u \in users
  /\ Begin(c, [NoCall EXCEPT !.pc = "resetRead", !.user = u])
  /\ UNCHANGED accountRows

\* The second listing of replace_user_password.  The first only refuses
\* conflicted credentials, and no statement of the program conflicts with the
\* ones that write active.
ReadCredentials(c) ==
  /\ At(c, "resetRead")
  /\ Step(c, [tasks[c] EXCEPT !.pc = "deactivate",
                              !.todo = CredentialsOf(tasks[c].user),
                              !.found = CredentialsOf(tasks[c].user)])
  /\ UNCHANGED accountRows

Deactivate(c) ==
  /\ At(c, "deactivate")
  /\ \E i \in tasks[c].todo :
       /\ active' = active \ {i}
       /\ Step(c, [tasks[c] EXCEPT !.todo = @ \ {i}])
  /\ UNCHANGED <<accounts, users, credentials, contacts, primary, retired, halted>>

\* Defect: the new credential is stored inactive.
InsertInactive(c) ==
  /\ At(c, "deactivate") /\ tasks[c].todo = {}
  /\ Len(credentials) < MaxCredentials
  /\ credentials' = Append(credentials, [user |-> tasks[c].user])
  /\ retired' = retired \cup tasks[c].found
  /\ halted' = halted \ {tasks[c].user}
  /\ Done(c)
  /\ UNCHANGED <<accounts, users, active, contacts, primary>>

InsertCredential(c) ==
  /\ At(c, "deactivate") /\ tasks[c].todo = {}
  /\ Len(credentials) < MaxCredentials
  /\ credentials' = Append(credentials, [user |-> tasks[c].user])
  /\ active' = active \cup {Len(credentials) + 1}
  /\ retired' = retired \cup tasks[c].found
  /\ halted' = halted \ {tasks[c].user}
  /\ Done(c)
  /\ UNCHANGED <<accounts, users, contacts, primary>>

---------------------------------------------------------------------------
(* Profile updates: update_user_info                                       *)

UpdateUserInfo(c, u, contact) ==
  /\ u \in users
  /\ Begin(c, [NoCall EXCEPT !.pc = "updateUser", !.user = u,
                             !.address = contact.email, !.phone = contact.phone])
  /\ UNCHANGED accountRows

\* update_user finds the row again; its UPDATE does not assign handle.
UpdateUser(c) ==
  /\ At(c, "updateUser")
  /\ Require(c, tasks[c].user \in users, "contactRead")
  /\ UNCHANGED accountRows

\* Defect: the other addresses are not remembered for demotion.
ReadTargetOnly(c) ==
  LET call == tasks[c] IN
  /\ At(c, "contactRead") /\ call.address # {}
  /\ LET same == {i \in ContactsOf(call.user, call.kind) : contacts[i].address \in call.address}
     IN  \E i \in IF same = {} THEN {0} ELSE same :
           Step(c, [call EXCEPT !.pc = "contactWrite", !.target = i, !.todo = {}, !.alone = TRUE])
  /\ UNCHANGED accountRows

ReadContacts(c) ==
  LET call == tasks[c]
      mine == ContactsOf(call.user, call.kind)
      same == {i \in mine : contacts[i].address \in call.address}
  IN
  /\ At(c, "contactRead") /\ call.address # {}
  /\ \E i \in IF same = {} THEN {0} ELSE same :
       Step(c, [call EXCEPT !.pc = "contactWrite", !.target = i, !.todo = mine \ same,
                            !.alone = TRUE])
  /\ UNCHANGED accountRows

\* A write to the addresses of c's user: no other upsert of them is alone.
Intrude(c, call) ==
  tasks' = [d \in Call |->
              IF d = c THEN call
              ELSE [tasks[d] EXCEPT !.alone = @ /\ ~(tasks[d].user = call.user
                                                     /\ tasks[d].kind = call.kind)]]

MarkPrimary(c) ==
  /\ At(c, "contactWrite") /\ tasks[c].target # 0
  /\ primary' = primary \cup {tasks[c].target}
  /\ Intrude(c, [tasks[c] EXCEPT !.pc = "demote", !.address = {}])
  /\ UNCHANGED <<accounts, users, credentials, active, contacts, retired, halted>>

\* The unique index on (user, address) fails the INSERT when another request has
\* inserted the address since it was read.
InsertPrimary(c) ==
  LET call == tasks[c]
      row == [user |-> call.user, kind |-> call.kind,
              address |-> CHOOSE a \in call.address : TRUE]
  IN
  /\ At(c, "contactWrite") /\ call.target = 0
  /\ IF \E i \in DOMAIN contacts : contacts[i] = row
       THEN Done(c) /\ UNCHANGED <<contacts, primary>>
       ELSE /\ Len(contacts) < MaxContacts
            /\ contacts' = Append(contacts, row)
            /\ primary' = primary \cup {Len(contacts) + 1}
            /\ Intrude(c, [call EXCEPT !.pc = "demote", !.address = {},
                                       !.target = Len(contacts) + 1])
  /\ UNCHANGED <<accounts, users, credentials, active, retired, halted>>

Demote(c) ==
  /\ At(c, "demote")
  /\ \E i \in tasks[c].todo :
       /\ primary' = primary \ {i}
       /\ Intrude(c, [tasks[c] EXCEPT !.todo = @ \ {i}])
  /\ UNCHANGED <<accounts, users, credentials, active, contacts, retired, halted>>

\* The e-mail address comes before the phone number; what follows only reads.
NextContact(c) ==
  LET call == tasks[c] IN
  /\ \/ At(c, "contactRead") /\ call.address = {}
     \/ At(c, "demote") /\ call.todo = {}
  /\ IF call.kind = "email"
       THEN Step(c, [NoCall EXCEPT !.pc = "contactRead", !.user = call.user,
                                   !.kind = "phone", !.address = call.phone])
       ELSE Done(c)
  /\ UNCHANGED accountRows

UpsertEmail(c) == tasks[c].kind = "email" /\ (ReadContacts(c) \/ MarkPrimary(c) \/ InsertPrimary(c) \/ Demote(c))
UpsertPhone(c) == tasks[c].kind = "phone" /\ (ReadContacts(c) \/ MarkPrimary(c) \/ InsertPrimary(c) \/ Demote(c))

---------------------------------------------------------------------------
(* Login: the password grant                                               *)

\* The call remembers the credentials that were retired when it began.
Login(c, name) ==
  /\ Begin(c, [NoCall EXCEPT !.pc = "byHandle", !.address = {name},
                             !.stale = retired])
  /\ UNCHANGED accountRows

ByHandle(c) ==
  LET named == {u \in users : accounts[u].handle \in tasks[c].address} IN
  /\ At(c, "byHandle")
  /\ IF named = {} THEN Step(c, [tasks[c] EXCEPT !.pc = "byEmail"])
     ELSE \E u \in named : Step(c, [tasks[c] EXCEPT !.pc = "password", !.user = u, !.address = {}])
  /\ UNCHANGED accountRows

\* A primary row before any other, the oldest among them.
ByEmail(c) ==
  LET rows == {i \in DOMAIN contacts : contacts[i].kind = "email"
                                       /\ contacts[i].address \in tasks[c].address}
      best == IF rows \cap primary = {} THEN rows ELSE rows \cap primary
  IN
  /\ At(c, "byEmail")
  /\ IF rows = {} THEN Done(c)
     ELSE \E i \in best : /\ \A j \in best : i <= j
                          /\ Step(c, [tasks[c] EXCEPT !.pc = "byId", !.user = contacts[i].user,
                                                                   !.address = {}])
  /\ UNCHANGED accountRows

\* find_user_by_id: for the address that was found, and again for the principal.
ById(c) ==
  /\ At(c, "byId")
  /\ Require(c, tasks[c].user \in users, "password")
  /\ UNCHANGED accountRows

\* Defect: any credential of the user is taken.
FindAnyPassword(c) ==
  /\ At(c, "password")
  /\ \/ \E i \in CredentialsOf(tasks[c].user) :
          Step(c, [tasks[c] EXCEPT !.pc = "principal", !.target = i])
     \/ Done(c)
  /\ UNCHANGED accountRows

\* The first active credential in the order of the store, which is unspecified;
\* the request ends when the password is not the one it was derived from.
FindPassword(c) ==
  /\ At(c, "password")
  /\ \/ \E i \in CredentialsOf(tasks[c].user) \cap active :
          Step(c, [tasks[c] EXCEPT !.pc = "principal", !.target = i])
     \/ Done(c)
  /\ UNCHANGED accountRows

FindPrincipal(c) ==
  /\ At(c, "principal")
  /\ Require(c, tasks[c].user \in users, "issue")
  /\ UNCHANGED accountRows

IssueTokens(c) == At(c, "issue") /\ Done(c) /\ UNCHANGED accountRows

---------------------------------------------------------------------------

\* A failed statement, a dropped connection or the end of the process.
Abandon(c) ==
  /\ tasks[c] # NoCall
  /\ halted' = IF At(c, "deactivate") THEN halted \cup {tasks[c].user} ELSE halted
  /\ Done(c)
  /\ UNCHANGED <<accounts, users, credentials, active, contacts, primary, retired>>

AccountNext ==
  \/ \E h \in Handle : CreateUser(h)
  \/ \E u \in users : DeleteUser(u)
  \/ \E c \in Call :
       \/ \E u \in users : ResetPassword(c, u)
       \/ ReadCredentials(c) \/ Deactivate(c) \/ InsertCredential(c)
       \/ \E u \in users, e \in Contact : UpdateUserInfo(c, u, e)
       \/ UpdateUser(c) \/ NextContact(c)
       \/ UpsertEmail(c) \/ UpsertPhone(c)
       \/ \E name \in Handle \cup Address : Login(c, name)
       \/ ByHandle(c) \/ ByEmail(c) \/ ById(c)
       \/ FindPassword(c) \/ FindPrincipal(c) \/ IssueTokens(c)
       \/ Abandon(c)

AccountSpec == AccountInit /\ [][AccountNext]_accountVars

---------------------------------------------------------------------------

\* Rows refer to users that were created; marks refer to rows.
AccountTypeOK ==
  /\ accounts \in Seq(UserRow) /\ users \subseteq DOMAIN accounts
  /\ credentials \in Seq(CredentialRow) /\ active \cup retired \subseteq DOMAIN credentials
  /\ contacts \in Seq(EmailRow \cup PhoneRow) /\ primary \subseteq DOMAIN contacts
  /\ \A i \in DOMAIN credentials : credentials[i].user \in DOMAIN accounts
  /\ \A i \in DOMAIN contacts : contacts[i].user \in DOMAIN accounts
  /\ \A c \in Call : tasks[c].user \in DOMAIN accounts \cup {0}
  /\ halted \subseteq DOMAIN accounts

\* A login that is about to be answered with tokens authenticated with a password
\* of the user the tokens are for, and with none that a reset completed before the
\* login began had replaced, however resets interleave with its reads.
LoginIsCurrent ==
  \A c \in Call : At(c, "issue") =>
    tasks[c].target \in CredentialsOf(tasks[c].user) \ tasks[c].stale

Resetting(u) == \E c \in Call : At(c, "deactivate") /\ tasks[c].user = u

\* However many resets of one user overlap, the user keeps an active password
\* once they are over; only a reset that stops after it has begun to deactivate
\* leaves the user without one, until the next reset completes.
ResetLeavesPassword ==
  \A u \in DOMAIN accounts :
    u \in halted \/ Resetting(u) \/ CredentialsOf(u) \cap active # {}

\* An address that was made primary while no other request wrote the addresses
\* of the user is the only primary one, whatever overlapping or abandoned updates
\* left behind.
LoneUpsertDecides ==
  \A c \in Call : At(c, "demote") /\ tasks[c].todo = {} /\ tasks[c].alone =>
    ContactsOf(tasks[c].user, tasks[c].kind) \cap primary = {tasks[c].target}

=============================================================================
