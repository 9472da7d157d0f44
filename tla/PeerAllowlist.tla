---------------------------- MODULE PeerAllowlist ----------------------------
(***************************************************************************)
(* The transport of the control plane in front of DeviceEnrollment: which  *)
(* peers it admits.  idp-server/src/cli/run.rs fills the allowlist when    *)
(* the server starts and replaces it every two seconds; a registration     *)
(* admits its peer to the bootstrap protocol for the life of the grant     *)
(* (BootstrapRegistry::register, allow_peer_for_alpn of iroh_chain).       *)
(*                                                                         *)
(* DbDeviceRepo::list answers with an error when the database does or when *)
(* a single row is conflicted (ensure_clear).  The loop then logs it and   *)
(* keeps the list it has, and a server does not start.                     *)
(***************************************************************************)
EXTENDS DeviceEnrollment

VARIABLES
  allow,      \* EndpointIdStore: keys admitted for every protocol
  snapshot,   \* the keys the refresh loop has listed and not yet installed, or None
  admitted,   \* keys admitted for the bootstrap protocol only
  listable    \* no row is conflicted and the database answers

peers == <<allow, snapshot, admitted, listable>>
allVars == <<devices, grants, tasks, issuer, peers>>

\* What both the start of the server and the refresh loop take from the listing.
Listed == ApprovedKeys

PeerInit == Init /\ allow = {} /\ snapshot = None /\ admitted = {} /\ listable = TRUE

\* A failed listing is logged and changes nothing.
RefreshList ==
  /\ snapshot = None
  /\ listable
  /\ snapshot' = Listed
  /\ UNCHANGED <<vars, allow, admitted, listable>>

\* Defect: the refresh adds the listed keys and never drops one.
RefreshAdds ==
  /\ snapshot # None
  /\ allow' = allow \cup snapshot
  /\ snapshot' = None
  /\ UNCHANGED <<vars, admitted, listable>>

RefreshReplace ==
  /\ snapshot # None
  /\ allow' = snapshot
  /\ snapshot' = None
  /\ UNCHANGED <<vars, admitted, listable>>

AdmitRegistered(t) ==
  /\ RegisterGrant(t)
  /\ admitted' = admitted \cup {tasks[t].key}
  /\ UNCHANGED <<allow, snapshot, listable>>

AdmissionExpires ==
  /\ \E k \in admitted : admitted' = admitted \ {k}
  /\ UNCHANGED <<vars, allow, snapshot, listable>>

\* Replication brings a conflicting version of a row, or resolves it; the database
\* fails, or answers again.
ListingTurns ==
  /\ devices # <<>>
  /\ listable' = ~listable
  /\ UNCHANGED <<vars, allow, snapshot, admitted>>

\* The transport turns other peers away before the handler sees them.
Connect(t, k, g) ==
  /\ k \in allow \cup admitted
  /\ Reserve(t, k, g)
  /\ UNCHANGED peers

RestartServer ==
  /\ listable
  /\ Restart
  /\ allow' = Listed
  /\ snapshot' = None
  /\ admitted' = {}
  /\ UNCHANGED listable

PeerNext ==
  \/ \E t \in Task :
       \/ (Request(t) \/ Repository(t) \/ Bootstrap(t)) /\ UNCHANGED peers
       \/ AdmitRegistered(t)
       \/ \E k \in Key, g \in Grant : Connect(t, k, g)
  \/ Expire /\ UNCHANGED peers
  \/ RefreshList \/ RefreshReplace \/ AdmissionExpires \/ ListingTurns
  \/ RestartServer

PeerSpec == PeerInit /\ [][PeerNext]_allVars

\* The refresh loop runs for as long as the server does.  Nothing makes a listing
\* succeed: no code of the repository resolves a conflicted device.
PeerFairSpec == PeerSpec /\ WF_allVars(RefreshList) /\ WF_allVars(RefreshReplace)

---------------------------------------------------------------------------

\* Types of the transport's state.
PeerTypeOK ==
  /\ allow \subseteq Key
  /\ snapshot = None \/ snapshot \subseteq Key
  /\ admitted \subseteq Key
  /\ listable \in BOOLEAN

\* The transport never admits a device for every protocol that nobody has
\* approved, from whichever listing the allowlist was filled.
AllowedWasApproved ==
  \A k \in allow : \E i \in WithKey(k) : devices[i].state # "pending"

\* Once listings succeed for good the allowlist follows the table: a device that
\* stays approved is admitted in the end and for good, and one that stays out of
\* the approved ones is not, although each refresh installs a listing that may
\* already be stale.  While a row stays conflicted the list stays as it is, and a
\* revoked device on it stays admitted.
AllowlistFollows ==
  <>[]listable =>
    \A k \in Key :
      /\ <>[](k \in ApprovedKeys) => <>[](k \in allow)
      /\ <>[](k \notin ApprovedKeys) => <>[](k \notin allow)

=============================================================================
