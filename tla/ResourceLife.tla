---------------------------- MODULE ResourceLife ----------------------------
(***************************************************************************)
(* What a device's storage promises about one kind of resource, whatever   *)
(* is kept in memory: a deletion is final, and it blocks every get or open *)
(* that begins after it took effect.                                       *)
(***************************************************************************)
CONSTANTS Resource, Task, None

VARIABLES
  life,     \* what the catalog says of each resource
  calls     \* the gets and opens in progress, and the answers of the last ones

lifeVars == <<life, calls>>

Life == {"absent", "live", "deleted"}

NoCall == [res |-> None, barred |-> FALSE, answer |-> "none"]

\* A resource may be created, learnt of, or deleted; nothing brings it back.
Change(r) ==
  /\ \/ life[r] = "absent" /\ life' = [life EXCEPT ![r] = "live"]
     \/ life[r] # "deleted" /\ life' = [life EXCEPT ![r] = "deleted"]
  /\ UNCHANGED calls

Begin(t, r) ==
  /\ calls' = [calls EXCEPT ![t] = [res |-> r, barred |-> life[r] = "deleted",
                                    answer |-> "pending"]]
  /\ UNCHANGED life

\* Only a call that did not begin after the deletion gets the resource.
Grant(t) ==
  /\ calls[t].answer = "pending" /\ ~calls[t].barred
  /\ calls' = [calls EXCEPT ![t].answer = "granted"]
  /\ UNCHANGED life

\* The call is refused, fails or is dropped.
Drop(t) ==
  /\ calls' = [calls EXCEPT ![t] = NoCall]
  /\ UNCHANGED life

\* A call that fails may have changed the catalog all the same.
Fail(t) ==
  LET r == calls[t].res IN
  /\ calls[t].answer = "pending"
  /\ \/ life[r] = "absent" /\ life' = [life EXCEPT ![r] = "live"]
     \/ life[r] # "deleted" /\ life' = [life EXCEPT ![r] = "deleted"]
  /\ calls' = [calls EXCEPT ![t] = NoCall]

\* The process stops: every call is lost, the catalog is not.
Restart ==
  /\ calls' = [t \in Task |-> NoCall]
  /\ UNCHANGED life

LifeInit ==
  /\ life = [r \in Resource |-> "absent"]
  /\ calls = [t \in Task |-> NoCall]

LifeNext ==
  \/ \E r \in Resource : Change(r)
  \/ \E t \in Task, r \in Resource : Begin(t, r)
  \/ \E t \in Task : Grant(t) \/ Drop(t) \/ Fail(t)
  \/ Restart

LifeSpec == LifeInit /\ [][LifeNext]_lifeVars

=============================================================================
