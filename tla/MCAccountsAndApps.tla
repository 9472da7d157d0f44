-------------------------- MODULE MCAccountsAndApps --------------------------
(* Users, clients and permissions of one IdP, and what runs on the user's    *)
(* side: the desktop application's server and the fetch plugin.  The         *)
(* components share no variable, so a step of one changes nothing another    *)
(* reads: the behaviours of each are explored while the others rest.         *)
EXTENDS UserAccounts, ServiceClients, DesktopServer, FetchBridge, AccessControl, TLC

CONSTANTS a1, a2

VARIABLE component

mcVars == <<component, accountVars, clientVars, desktopVars, fetchVars, accessVars>>

\* Two e-mail addresses, one of them together with a phone number.
MCContact == {[email |-> {a1}, phone |-> {}], [email |-> {a2}, phone |-> {a1}]}

MCRoleName == {<<"admin">>}

\* Every permission, and those on roles: the two forms of a wildcard.
MCPermissionName == {<<"*">>, <<"roles", ":", "*">>}

MCInit ==
  /\ component \in {"users", "clients", "desktop", "fetch", "roles"}
  /\ AccountInit /\ ClientInit /\ DesktopInit /\ FetchInit /\ AccessInit

MCNext ==
  \/ /\ component = "users" /\ AccountNext
     /\ UNCHANGED <<component, clientVars, desktopVars, fetchVars, accessVars>>
  \/ /\ component = "clients" /\ ClientNext
     /\ UNCHANGED <<component, accountVars, desktopVars, fetchVars, accessVars>>
  \/ /\ component = "desktop" /\ DesktopNext
     /\ UNCHANGED <<component, accountVars, clientVars, fetchVars, accessVars>>
  \/ /\ component = "fetch" /\ FetchNext
     /\ UNCHANGED <<component, accountVars, clientVars, desktopVars, accessVars>>
  \/ /\ component = "roles" /\ AccessNext
     /\ UNCHANGED <<component, accountVars, clientVars, desktopVars, fetchVars>>

MCSpec == MCInit /\ [][MCNext]_mcVars

\* Concurrent calls of every component are the same model values.
MCSymmetry == Permutations(Job) \cup Permutations(ClientId)

=============================================================================
