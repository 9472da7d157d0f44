------------------------ MODULE SelectionAccountProofs ------------------------
(*****************************************************************************)
(* SelectionPolicy for every set of replicas, devices, resources and requests*)
(* and every number of changes, and UserAccounts for every set of users,     *)
(* addresses and requests.  They share no variable.                          *)
(*                                                                           *)
(* The inductive invariant of the policies says what a cell is: the changes  *)
(* that wrote it, are held by the replica, and were not known to the author  *)
(* of another such change.                                                   *)
(*****************************************************************************)
EXTENDS SelectionPolicy, UserAccounts, TLAPS

-------------------------------------------------------------------------------
(* Policies and selections                                                  *)

\* A cell of a replica that holds the changes s, where W are the changes that
\* wrote this cell, V[o] the value o wrote, and past[o] what o's author had seen.
CellInv(cell, s, W, V, past) ==
  /\ \A y \in cell : y.op \in s \cap W /\ y = [op |-> y.op, val |-> V[y.op]]
  /\ \A o \in s \cap W : \E y \in cell : o = y.op \/ o \in past[y.op]
  /\ \A y \in cell, o \in s \cap W : y.op \notin past[o]

\* Merging two copies of a cell keeps exactly the latest writes of both.
LEMMA MergeCellInv ==
  ASSUME NEW c1, NEW s1, NEW c2, NEW s2, NEW W, NEW V, NEW past,
         CellInv(c1, s1, W, V, past), CellInv(c2, s2, W, V, past),
         \A o \in s1 : past[o] \subseteq s1, \A o \in s2 : past[o] \subseteq s2,
         \A o \in s1 \cup s2 : \A q \in past[o] : past[q] \subseteq past[o]
  PROVE  CellInv(MergeCell(c1, s1, c2, s2), s1 \cup s2, W, V, past)
<1> DEFINE m == MergeCell(c1, s1, c2, s2)
<1>1. \A y \in m : y.op \in (s1 \cup s2) \cap W /\ y = [op |-> y.op, val |-> V[y.op]]
  BY Zenon DEF CellInv, MergeCell
<1>2. ASSUME NEW o \in s1 \cap W
      PROVE  \E y \in m : o = y.op \/ o \in past[y.op]
  <2>1. PICK y \in c1 : o = y.op \/ o \in past[y.op]  BY Zenon, <1>2 DEF CellInv
  <2>2. CASE y \in m  BY Zenon, <2>1, <2>2
  <2>3. CASE y \notin m
    <3>1. y.op \in s2 /\ y \notin c2  BY Zenon, <2>1, <2>3 DEF MergeCell
    <3>2. PICK z \in c2 : y.op = z.op \/ y.op \in past[z.op]
      BY Zenon, <2>1, <3>1 DEF CellInv
    <3>3. y.op # z.op  BY Zenon, <2>1, <3>1, <3>2 DEF CellInv
    <3>4. o \in past[z.op]  BY Zenon, <2>1, <3>2, <3>3 DEF CellInv
    <3>5. z \in m
      BY Zenon, <2>1, <3>1, <3>2, <3>3 DEF CellInv, MergeCell
    <3> QED  BY Zenon, <3>4, <3>5
  <2> QED  BY Zenon, <2>2, <2>3
<1>3. ASSUME NEW o \in s2 \cap W
      PROVE  \E y \in m : o = y.op \/ o \in past[y.op]
  <2>1. PICK y \in c2 : o = y.op \/ o \in past[y.op]  BY Zenon, <1>3 DEF CellInv
  <2>2. CASE y \in m  BY Zenon, <2>1, <2>2
  <2>3. CASE y \notin m
    <3>1. y.op \in s1 /\ y \notin c1  BY Zenon, <2>1, <2>3 DEF MergeCell
    <3>2. PICK z \in c1 : y.op = z.op \/ y.op \in past[z.op]
      BY Zenon, <2>1, <3>1 DEF CellInv
    <3>3. y.op # z.op  BY Zenon, <2>1, <3>1, <3>2 DEF CellInv
    <3>4. o \in past[z.op]  BY Zenon, <2>1, <3>2, <3>3 DEF CellInv
    <3>5. z \in m
      BY Zenon, <2>1, <3>1, <3>2, <3>3 DEF CellInv, MergeCell
    <3> QED  BY Zenon, <3>4, <3>5
  <2> QED  BY Zenon, <2>2, <2>3
<1>4. \A y \in m, o \in (s1 \cup s2) \cap W : y.op \notin past[o]
  BY Zenon DEF CellInv, MergeCell
<1> HIDE DEF m
<1>5. CellInv(m, s1 \cup s2, W, V, past)
  BY Zenon, <1>1, <1>2, <1>3, <1>4 DEF CellInv
<1> QED  BY Zenon, <1>5 DEF m

\* A change n that does not write the cell leaves what the cell is.
LEMMA SkipCellInv ==
  ASSUME NEW cell, NEW s, NEW W, NEW V, NEW past, NEW n,
         NEW s1, NEW W1, NEW V1, NEW past1,
         CellInv(cell, s, W, V, past),
         s1 \cap W1 = s \cap W,
         \A o \in s \cap W : V1[o] = V[o] /\ past1[o] = past[o]
  PROVE  CellInv(cell, s1, W1, V1, past1)
BY Zenon DEF CellInv

\* Two replicas with the same changes have the same cell.
LEMMA CellUnique ==
  ASSUME NEW c1, NEW c2, NEW s, NEW W, NEW V, NEW past,
         CellInv(c1, s, W, V, past), CellInv(c2, s, W, V, past)
  PROVE  c1 = c2
<1>1. ASSUME NEW y \in c1 PROVE y \in c2
  BY <1>1 DEF CellInv
<1>2. ASSUME NEW y \in c2 PROVE y \in c1
  BY <1>2 DEF CellInv
<1> QED  BY Zenon, <1>1, <1>2

---------------------------------------------------------------------------
(* The inductive invariant *)

\* The writers of a policy column and of a resource row, the values they wrote,
\* and what each change's author had seen.
ColWriters(d, c) == {o \in Op : hist[o].dev = d /\ c \in DOMAIN hist[o].cols}
ColValue(c) == [o \in Op |-> hist[o].cols[c]]
RowWriters(d, res) == {o \in Op : hist[o].dev = d /\ res \in DOMAIN hist[o].rows}
RowValue(res) == [o \in Op |-> hist[o].rows[res]]
Past == [o \in Op |-> hist[o].past]

\* A replica that holds a change holds everything the change's author had seen.
Causal ==
  /\ \A r \in Replica : seen[r] \subseteq Op /\ \A o \in seen[r] : hist[o].past \subseteq seen[r]
  /\ \A o \in Op : /\ hist[o].past \subseteq 1 .. (o - 1)
                   /\ \A q \in hist[o].past : hist[q].past \subseteq hist[o].past

Cells ==
  \A r \in Replica, d \in Device :
    /\ \A c \in Col : CellInv(policy[r][d][c], seen[r], ColWriters(d, c), ColValue(c), Past)
    /\ \A res \in Resource :
         CellInv(rows[r][d][res], seen[r], RowWriters(d, res), RowValue(res), Past)

\* Which act writes which value, and that a "choose" that writes admin_allowed
\* inserts the row: its author knew of no other write of the column.
Authors ==
  \A o \in Op :
    /\ \A res \in DOMAIN hist[o].rows : hist[o].rows[res] = (hist[o].act = "select")
    /\ "admin_allowed" \in DOMAIN hist[o].cols =>
         /\ hist[o].cols["admin_allowed"] = (hist[o].act \in {"choose", "allow"})
         /\ hist[o].act = "choose" =>
              \A q \in hist[o].past : hist[q].dev = hist[o].dev =>
                                        "admin_allowed" \notin DOMAIN hist[q].cols

StoreTypeOK ==
  /\ policy \in [Replica -> [Device -> [Col -> Cell(PolicyValue)]]]
  /\ rows \in [Replica -> [Device -> [Resource -> Cell(BOOLEAN)]]]
  /\ seen \in [Replica -> SUBSET Nat]
  /\ hist \in Seq(Change)

StoreInv == StoreTypeOK /\ Causal /\ Cells /\ Authors

IInv == TypeOK /\ StoreInv

---------------------------------------------------------------------------
(* One change *)

\* Row new is row old with some cells replaced by a write of change n.
Overwrites(old, new, D, V, n) ==
  /\ new \in [D -> Cell(V)]
  /\ \A x \in D : new[x] # old[x] => \E v \in V : new[x] = {[op |-> n, val |-> v]}

\* The change's values in row new, where n wrote.
LEMMA WrittenValue ==
  ASSUME NEW n, NEW v PROVE ValueOf({[op |-> n, val |-> v]}) = v
BY DEF ValueOf, Values

LEMMA WrittenType ==
  ASSUME NEW old, NEW new, NEW D, NEW V, NEW n, Overwrites(old, new, D, V, n)
  PROVE  /\ Written(old, new) \in Partial(D, V)
         /\ \A x : x \in DOMAIN Written(old, new) <=> x \in D /\ new[x] # old[x]
         /\ \A x \in D : new[x] # old[x] =>
              /\ Written(old, new)[x] \in V
              /\ new[x] = {[op |-> n, val |-> Written(old, new)[x]]}
<1> DEFINE S == {x \in D : new[x] # old[x]}
           w == Written(old, new)
<1>1. DOMAIN new = D  BY Zenon DEF Overwrites
<1>2. w = [x \in S |-> ValueOf(new[x])]  BY Zenon, <1>1 DEF Written
<1>3. ASSUME NEW x \in S
      PROVE  w[x] \in V /\ new[x] = {[op |-> n, val |-> w[x]]}
  <2>1. PICK v \in V : new[x] = {[op |-> n, val |-> v]}  BY Zenon DEF Overwrites
  <2>2. ValueOf(new[x]) = v  BY Zenon, <2>1, WrittenValue
  <2>3. w[x] = v  BY Zenon, <1>2, <2>2
  <2> QED  BY Zenon, <2>1, <2>3
<1> HIDE DEF w
<1>4. w \in [S -> V]  BY Zenon, <1>2, <1>3
<1>5. w \in Partial(D, V)  BY Zenon, <1>4 DEF Partial
<1> QED  BY Zenon, <1>2, <1>3, <1>5 DEF w

\* The author of a change had seen changes only.
LEMMA PastInOp == ASSUME StoreInv PROVE \A o \in Op : hist[o].past \subseteq Op
<1> SUFFICES ASSUME NEW o \in Op, NEW q \in hist[o].past PROVE q \in Op  BY Zenon
<1>1. q \in 1 .. (o - 1)  BY Zenon DEF StoreInv, Causal
<1>2. Len(hist) \in Nat  BY DEF StoreInv, StoreTypeOK
<1> QED  BY <1>1, <1>2 DEF Op

\* What every action passes to Commit: rows of the right type that differ from the
\* stored ones by fail-closed or announced values.
Legal(r, d, p, rs, act) ==
  /\ act \in Act
  /\ Overwrites(policy[r][d], p, Col, PolicyValue, NextOp)
  /\ Overwrites(rows[r][d], rs, Resource, BOOLEAN, NextOp)
  /\ \A res \in Resource : rs[res] # rows[r][d][res] =>
       rs[res] = {[op |-> NextOp, val |-> (act = "select")]}
  /\ p["admin_allowed"] # policy[r][d]["admin_allowed"] =>
       /\ p["admin_allowed"] = {[op |-> NextOp, val |-> (act \in {"choose", "allow"})]}
       /\ act = "choose" => policy[r][d]["admin_allowed"] = {}

\* The history after a change: one more record, the others as they were.
LEMMA CommitHist ==
  ASSUME StoreInv, NEW r \in Replica, NEW d \in Device, NEW p, NEW rs, NEW act,
         Legal(r, d, p, rs, act), Commit(r, d, p, rs, act),
         ~(p = policy[r][d] /\ rs = rows[r][d])
  PROVE  /\ hist' \in Seq(Change)
         /\ NextOp \in Nat /\ NextOp \notin Op
         /\ Op' = Op \cup {NextOp}
         /\ \A o \in Op : hist'[o] = hist[o]
         /\ hist'[NextOp].act = act /\ hist'[NextOp].dev = d
         /\ hist'[NextOp].past = seen[r]
         /\ hist'[NextOp].cols = Written(policy[r][d], p)
         /\ hist'[NextOp].rows = Written(rows[r][d], rs)
<1> DEFINE rec == [act  |-> act, dev  |-> d, past |-> seen[r],
                   cols |-> Written(policy[r][d], p), rows |-> Written(rows[r][d], rs)]
<1>1. hist' = Append(hist, rec)  BY Zenon DEF Commit
<1>2. rec \in Change
  BY Zenon, WrittenType DEF Legal, Change, StoreInv, StoreTypeOK
<1>3. hist \in Seq(Change) /\ Len(hist) \in Nat  BY DEF StoreInv, StoreTypeOK
<1> HIDE DEF rec
<1>4. hist' \in Seq(Change) /\ Len(hist') = Len(hist) + 1
      /\ (\A o \in 1 .. Len(hist) : hist'[o] = hist[o]) /\ hist'[Len(hist) + 1] = rec
  BY <1>1, <1>2, <1>3
<1>5. Op' = Op \cup {NextOp}  BY <1>3, <1>4 DEF Op, NextOp
<1> QED  BY <1>3, <1>4, <1>5 DEF Op, NextOp, rec

\* A change keeps the shape of the store.
LEMMA CommitType ==
  ASSUME StoreInv, NEW r \in Replica, NEW d \in Device, NEW p, NEW rs, NEW act,
         Legal(r, d, p, rs, act), Commit(r, d, p, rs, act),
         ~(p = policy[r][d] /\ rs = rows[r][d])
  PROVE  StoreTypeOK'
<1>1. hist' \in Seq(Change) /\ NextOp \in Nat  BY Zenon, CommitHist
<1>2. /\ policy' = [policy EXCEPT ![r][d] = p]
      /\ rows' = [rows EXCEPT ![r][d] = rs]
      /\ seen' = [seen EXCEPT ![r] = @ \cup {NextOp}]
  BY Zenon DEF Commit
<1>3. p \in [Col -> Cell(PolicyValue)] /\ rs \in [Resource -> Cell(BOOLEAN)]
  BY Zenon DEF Legal, Overwrites
<1>4. StoreTypeOK  BY Zenon DEF StoreInv
<1>5. policy' \in [Replica -> [Device -> [Col -> Cell(PolicyValue)]]]
  BY Zenon, <1>2, <1>3, <1>4 DEF StoreTypeOK
<1>6. rows' \in [Replica -> [Device -> [Resource -> Cell(BOOLEAN)]]]
  BY Zenon, <1>2, <1>3, <1>4 DEF StoreTypeOK
<1>7. seen' \in [Replica -> SUBSET Nat]
  BY Zenon, <1>1, <1>2, <1>4 DEF StoreTypeOK
<1> QED  BY Zenon, <1>1, <1>5, <1>6, <1>7 DEF StoreTypeOK

\* A change is made on top of everything its replica holds.
LEMMA CommitCausal ==
  ASSUME StoreInv, NEW r \in Replica, NEW d \in Device, NEW p, NEW rs, NEW act,
         Legal(r, d, p, rs, act), Commit(r, d, p, rs, act),
         ~(p = policy[r][d] /\ rs = rows[r][d])
  PROVE  Causal'
<1>1. /\ Op' = Op \cup {NextOp} /\ NextOp \notin Op
      /\ \A o \in Op : hist'[o] = hist[o]
      /\ hist'[NextOp].past = seen[r]
  BY Zenon, CommitHist
<1>2. seen' = [seen EXCEPT ![r] = @ \cup {NextOp}]  BY Zenon DEF Commit
<1>3. seen \in [Replica -> SUBSET Nat]  BY Zenon DEF StoreInv, StoreTypeOK
<1>4. ASSUME NEW s \in Replica
      PROVE  seen'[s] \subseteq Op' /\ \A o \in seen'[s] : hist'[o].past \subseteq seen'[s]
  BY <1>1, <1>2, <1>3 DEF StoreInv, Causal
<1>5. ASSUME NEW o \in Op'
      PROVE  /\ hist'[o].past \subseteq 1 .. (o - 1)
             /\ \A q \in hist'[o].past : hist'[q].past \subseteq hist'[o].past
  <2>1. CASE o \in Op
    <3>1. hist[o].past \subseteq 1 .. (o - 1)  BY Zenon, <2>1 DEF StoreInv, Causal
    <3>2. hist[o].past \subseteq Op  BY Zenon, <2>1, PastInOp
    <3> QED  BY Zenon, <1>1, <2>1, <3>1, <3>2 DEF StoreInv, Causal
  <2>2. CASE o = NextOp
    <3>1. seen[r] \subseteq Op /\ Op = 1 .. (NextOp - 1)
      BY DEF StoreInv, StoreTypeOK, Causal, Op, NextOp
    <3> QED  BY Zenon, <1>1, <2>2, <3>1 DEF StoreInv, Causal
  <2> QED  BY Zenon, <1>1, <2>1, <2>2
<1> QED  BY Zenon, <1>4, <1>5 DEF Causal

\* A change keeps every cell what CellInv says it is.
LEMMA CommitCells ==
  ASSUME StoreInv, NEW r \in Replica, NEW d \in Device, NEW p, NEW rs, NEW act,
         Legal(r, d, p, rs, act), Commit(r, d, p, rs, act),
         ~(p = policy[r][d] /\ rs = rows[r][d])
  PROVE  Cells'
<1> DEFINE n == NextOp
<1>1. /\ Op' = Op \cup {n} /\ n \notin Op
      /\ \A o \in Op : hist'[o] = hist[o]
      /\ hist'[n].dev = d /\ hist'[n].past = seen[r]
      /\ hist'[n].cols = Written(policy[r][d], p)
      /\ hist'[n].rows = Written(rows[r][d], rs)
  BY CommitHist
<1>2. /\ \A s \in Replica : seen'[s] = IF s = r THEN seen[s] \cup {n} ELSE seen[s]
      /\ \A s \in Replica, e \in Device :
           /\ policy'[s][e] = IF s = r /\ e = d THEN p ELSE policy[s][e]
           /\ rows'[s][e] = IF s = r /\ e = d THEN rs ELSE rows[s][e]
  <2>1. /\ policy' = [policy EXCEPT ![r][d] = p]
        /\ rows' = [rows EXCEPT ![r][d] = rs]
        /\ seen' = [seen EXCEPT ![r] = @ \cup {n}]
    BY Zenon DEF Commit
  <2>2. StoreTypeOK  BY Zenon DEF StoreInv
  <2> QED  BY Zenon, <2>1, <2>2 DEF StoreTypeOK
<1>3. /\ Past'[n] = seen[r]
      /\ \A o \in Op : Past'[o] = Past[o] /\ Past[o] \subseteq Op
  BY Zenon, <1>1, PastInOp DEF Past
<1>4. /\ \A c : c \in DOMAIN hist'[n].cols <=> c \in Col /\ p[c] # policy[r][d][c]
      /\ \A res : res \in DOMAIN hist'[n].rows <=> res \in Resource /\ rs[res] # rows[r][d][res]
      /\ \A c \in Col : p[c] # policy[r][d][c] =>
           p[c] = {[op |-> n, val |-> hist'[n].cols[c]]}
      /\ \A res \in Resource : rs[res] # rows[r][d][res] =>
           rs[res] = {[op |-> n, val |-> hist'[n].rows[res]]}
  <2>1. /\ Overwrites(policy[r][d], p, Col, PolicyValue, n)
        /\ Overwrites(rows[r][d], rs, Resource, BOOLEAN, n)
    BY Zenon DEF Legal
  <2> HIDE DEF n
  <2>2. /\ \A c : c \in DOMAIN Written(policy[r][d], p) <=> c \in Col /\ p[c] # policy[r][d][c]
        /\ \A c \in Col : p[c] # policy[r][d][c] =>
             p[c] = {[op |-> n, val |-> Written(policy[r][d], p)[c]]}
    BY <2>1, WrittenType
  <2>3. /\ \A res : res \in DOMAIN Written(rows[r][d], rs) <=> res \in Resource /\ rs[res] # rows[r][d][res]
        /\ \A res \in Resource : rs[res] # rows[r][d][res] =>
             rs[res] = {[op |-> n, val |-> Written(rows[r][d], rs)[res]]}
    BY <2>1, WrittenType
  <2> QED  BY Zenon, <1>1, <2>2, <2>3
<1> HIDE DEF n
<1>5. ASSUME NEW s \in Replica, NEW e \in Device, NEW c \in Col
      PROVE  CellInv(policy'[s][e][c], seen'[s], ColWriters(e, c)', ColValue(c)', Past')
  <2>1. CellInv(policy[s][e][c], seen[s], ColWriters(e, c), ColValue(c), Past)
    BY Zenon DEF StoreInv, Cells
  <2>2. seen[s] \subseteq Op  BY Zenon DEF StoreInv, Causal
  <2>3. /\ ColValue(c)' = [o \in Op' |-> hist'[o].cols[c]]
        /\ \A o \in Op : ColValue(c)'[o] = ColValue(c)[o]
    BY Zenon, <1>1 DEF ColValue
  <2>4. CASE s = r /\ e = d /\ p[c] # policy[r][d][c]
    <3>1. /\ c \in DOMAIN hist'[n].cols
          /\ p[c] = {[op |-> n, val |-> hist'[n].cols[c]]}
      BY Zenon, <1>4, <2>4
    <3>2. ColWriters(e, c)' = ColWriters(e, c) \cup {n}
      BY Zenon, <1>1, <2>4, <3>1 DEF ColWriters
    <3>3. seen'[s] = seen[s] \cup {n}  BY Zenon, <1>2, <2>4
    <3>4. policy'[s][e][c] = p[c]  BY Zenon, <1>2, <2>4
    <3>5. ColValue(c)'[n] = hist'[n].cols[c]  BY Zenon, <1>1, <2>3
    <3>6. \A o \in seen[s] : n \notin Past[o]  BY Zenon, <1>1, <1>3, <2>2
    <3>7. n \notin seen[s] /\ Past'[n] = seen[s] /\ \A o \in seen[s] : Past'[o] = Past[o]
      BY Zenon, <1>1, <1>3, <2>2, <2>4
    <3>8. CellInv({[op |-> n, val |-> hist'[n].cols[c]]}, seen[s] \cup {n},
                  ColWriters(e, c)', ColValue(c)', Past')
      BY <2>1, <3>2, <3>5, <3>6, <3>7 DEF CellInv
    <3> QED  BY Zenon, <3>1, <3>3, <3>4, <3>8
  <2>5. CASE ~(s = r /\ e = d /\ p[c] # policy[r][d][c])
    <3>1. policy'[s][e][c] = policy[s][e][c]  BY Zenon, <1>2, <2>5
    <3>2. seen'[s] \cap ColWriters(e, c)' = seen[s] \cap ColWriters(e, c)
      <4>1. CASE s = r
        <5>1. n \notin ColWriters(e, c)'
          BY Zenon, <1>1, <1>4, <2>5, <4>1 DEF ColWriters
        <5>2. \A o \in Op : o \in ColWriters(e, c)' <=> o \in ColWriters(e, c)
          BY Zenon, <1>1 DEF ColWriters
        <5> QED  BY Zenon, <1>1, <1>2, <2>2, <4>1, <5>1, <5>2
      <4>2. CASE s # r
        <5>1. \A o \in Op : o \in ColWriters(e, c)' <=> o \in ColWriters(e, c)
          BY Zenon, <1>1 DEF ColWriters
        <5> QED  BY Zenon, <1>2, <2>2, <4>2, <5>1
      <4> QED  BY Zenon, <4>1, <4>2
    <3>3. \A o \in seen[s] \cap ColWriters(e, c) : ColValue(c)'[o] = ColValue(c)[o] /\ Past'[o] = Past[o]
      BY Zenon, <1>3, <2>2, <2>3
    <3> QED  BY <2>1, <3>1, <3>2, <3>3, SkipCellInv
  <2> QED  BY Zenon, <2>4, <2>5
<1>6. ASSUME NEW s \in Replica, NEW e \in Device, NEW res \in Resource
      PROVE  CellInv(rows'[s][e][res], seen'[s], RowWriters(e, res)', RowValue(res)', Past')
  <2>1. CellInv(rows[s][e][res], seen[s], RowWriters(e, res), RowValue(res), Past)
    BY Zenon DEF StoreInv, Cells
  <2>2. seen[s] \subseteq Op  BY Zenon DEF StoreInv, Causal
  <2>3. /\ RowValue(res)' = [o \in Op' |-> hist'[o].rows[res]]
        /\ \A o \in Op : RowValue(res)'[o] = RowValue(res)[o]
    BY Zenon, <1>1 DEF RowValue
  <2>4. CASE s = r /\ e = d /\ rs[res] # rows[r][d][res]
    <3>1. /\ res \in DOMAIN hist'[n].rows
          /\ rs[res] = {[op |-> n, val |-> hist'[n].rows[res]]}
      BY Zenon, <1>4, <2>4
    <3>2. RowWriters(e, res)' = RowWriters(e, res) \cup {n}
      BY Zenon, <1>1, <2>4, <3>1 DEF RowWriters
    <3>3. seen'[s] = seen[s] \cup {n}  BY Zenon, <1>2, <2>4
    <3>4. rows'[s][e][res] = rs[res]  BY Zenon, <1>2, <2>4
    <3>5. RowValue(res)'[n] = hist'[n].rows[res]  BY Zenon, <1>1, <2>3
    <3>6. \A o \in seen[s] : n \notin Past[o]  BY Zenon, <1>1, <1>3, <2>2
    <3>7. n \notin seen[s] /\ Past'[n] = seen[s] /\ \A o \in seen[s] : Past'[o] = Past[o]
      BY Zenon, <1>1, <1>3, <2>2, <2>4
    <3>8. CellInv({[op |-> n, val |-> hist'[n].rows[res]]}, seen[s] \cup {n},
                  RowWriters(e, res)', RowValue(res)', Past')
      BY <2>1, <3>2, <3>5, <3>6, <3>7 DEF CellInv
    <3> QED  BY Zenon, <3>1, <3>3, <3>4, <3>8
  <2>5. CASE ~(s = r /\ e = d /\ rs[res] # rows[r][d][res])
    <3>1. rows'[s][e][res] = rows[s][e][res]  BY Zenon, <1>2, <2>5
    <3>2. seen'[s] \cap RowWriters(e, res)' = seen[s] \cap RowWriters(e, res)
      <4>1. CASE s = r
        <5>1. n \notin RowWriters(e, res)'
          BY Zenon, <1>1, <1>4, <2>5, <4>1 DEF RowWriters
        <5>2. \A o \in Op : o \in RowWriters(e, res)' <=> o \in RowWriters(e, res)
          BY Zenon, <1>1 DEF RowWriters
        <5> QED  BY Zenon, <1>1, <1>2, <2>2, <4>1, <5>1, <5>2
      <4>2. CASE s # r
        <5>1. \A o \in Op : o \in RowWriters(e, res)' <=> o \in RowWriters(e, res)
          BY Zenon, <1>1 DEF RowWriters
        <5> QED  BY Zenon, <1>2, <2>2, <4>2, <5>1
      <4> QED  BY Zenon, <4>1, <4>2
    <3>3. \A o \in seen[s] \cap RowWriters(e, res) : RowValue(res)'[o] = RowValue(res)[o] /\ Past'[o] = Past[o]
      BY Zenon, <1>3, <2>2, <2>3
    <3> QED  BY <2>1, <3>1, <3>2, <3>3, SkipCellInv
  <2> QED  BY Zenon, <2>4, <2>5
<1> QED  BY Zenon, <1>5, <1>6 DEF Cells

\* A change writes the values its act announces.
LEMMA CommitAuthors ==
  ASSUME StoreInv, NEW r \in Replica, NEW d \in Device, NEW p, NEW rs, NEW act,
         Legal(r, d, p, rs, act), Commit(r, d, p, rs, act),
         ~(p = policy[r][d] /\ rs = rows[r][d])
  PROVE  Authors'
<1> DEFINE n == NextOp
<1>1. /\ Op' = Op \cup {n} /\ n \notin Op
      /\ \A o \in Op : hist'[o] = hist[o]
      /\ hist'[n].act = act /\ hist'[n].dev = d /\ hist'[n].past = seen[r]
      /\ hist'[n].cols = Written(policy[r][d], p)
      /\ hist'[n].rows = Written(rows[r][d], rs)
  BY CommitHist
<1>2. \A o \in Op : hist[o].past \subseteq Op  BY Zenon, PastInOp
<1>3. ASSUME NEW o \in Op
      PROVE  /\ \A res \in DOMAIN hist'[o].rows : hist'[o].rows[res] = (hist'[o].act = "select")
             /\ "admin_allowed" \in DOMAIN hist'[o].cols =>
                  /\ hist'[o].cols["admin_allowed"] = (hist'[o].act \in {"choose", "allow"})
                  /\ hist'[o].act = "choose" =>
                       \A q \in hist'[o].past : hist'[q].dev = hist'[o].dev =>
                                                  "admin_allowed" \notin DOMAIN hist'[q].cols
  <2>1. hist'[o] = hist[o] /\ \A q \in hist[o].past : hist'[q] = hist[q]  BY Zenon, <1>1, <1>2
  <2> QED  BY <2>1 DEF StoreInv, Authors
<1>4. ASSUME NEW res \in DOMAIN hist'[n].rows
      PROVE  hist'[n].rows[res] = (act = "select")
  <2>1. /\ Overwrites(rows[r][d], rs, Resource, BOOLEAN, n)
        /\ \A x \in Resource : rs[x] # rows[r][d][x] => rs[x] = {[op |-> n, val |-> (act = "select")]}
    BY Zenon DEF Legal
  <2> HIDE DEF n
  <2>2. res \in Resource /\ rs[res] # rows[r][d][res]
        /\ rs[res] = {[op |-> n, val |-> Written(rows[r][d], rs)[res]]}
    BY <1>1, <1>4, <2>1, WrittenType
  <2>3. {[op |-> n, val |-> Written(rows[r][d], rs)[res]]} = {[op |-> n, val |-> (act = "select")]}
    BY Zenon, <2>1, <2>2
  <2>4. [op |-> n, val |-> Written(rows[r][d], rs)[res]] = [op |-> n, val |-> (act = "select")]
    BY Zenon, <2>3
  <2>5. [op |-> n, val |-> Written(rows[r][d], rs)[res]].val = [op |-> n, val |-> (act = "select")].val
    BY Zenon, <2>4
  <2> QED  BY Zenon, <1>1, <2>5
<1>5. ASSUME "admin_allowed" \in DOMAIN hist'[n].cols
      PROVE  /\ hist'[n].cols["admin_allowed"] = (act \in {"choose", "allow"})
             /\ act = "choose" => \A q \in seen[r] : hist'[q].dev = d =>
                                    "admin_allowed" \notin DOMAIN hist'[q].cols
  <2> DEFINE c == "admin_allowed"
             w == Written(policy[r][d], p)
  <2>1. /\ Overwrites(policy[r][d], p, Col, PolicyValue, n)
        /\ p[c] # policy[r][d][c] => /\ p[c] = {[op |-> n, val |-> (act \in {"choose", "allow"})]}
                                     /\ act = "choose" => policy[r][d][c] = {}
    BY Zenon DEF Legal
  <2> HIDE DEF n
  <2>2. c \in Col /\ p[c] # policy[r][d][c] /\ p[c] = {[op |-> n, val |-> w[c]]}
    BY <1>1, <1>5, <2>1, WrittenType
  <2>3. {[op |-> n, val |-> w[c]]} = {[op |-> n, val |-> (act \in {"choose", "allow"})]}
    BY Zenon, <2>1, <2>2
  <2>4. [op |-> n, val |-> w[c]] = [op |-> n, val |-> (act \in {"choose", "allow"})]
    BY Zenon, <2>3
  <2>5. [op |-> n, val |-> w[c]].val = [op |-> n, val |-> (act \in {"choose", "allow"})].val
    BY Zenon, <2>4
  <2>6. ASSUME act = "choose", NEW q \in seen[r], hist'[q].dev = d
        PROVE  c \notin DOMAIN hist'[q].cols
    <3>1. CellInv({}, seen[r], ColWriters(d, c), ColValue(c), Past)
      BY ZenonT(30), <2>1, <2>2, <2>6 DEF StoreInv, Cells
    <3>2. q \in Op  BY Zenon DEF StoreInv, Causal
    <3>3. q \notin ColWriters(d, c)  BY Zenon, <3>1 DEF CellInv
    <3> QED  BY Zenon, <1>1, <2>6, <3>2, <3>3 DEF ColWriters
  <2> QED  BY Zenon, <1>1, <2>5, <2>6
<1> HIDE DEF n
<1> QED  BY <1>1, <1>3, <1>4, <1>5 DEF Authors

\* Every legal change preserves the invariant on the store.
LEMMA CommitStoreInv ==
  ASSUME StoreInv, NEW r \in Replica, NEW d \in Device, NEW p, NEW rs, NEW act,
         Legal(r, d, p, rs, act), Commit(r, d, p, rs, act)
  PROVE  StoreInv'
<1>1. CASE p = policy[r][d] /\ rs = rows[r][d]
  <2>1. UNCHANGED <<policy, rows, seen, hist>>  BY Zenon, <1>1 DEF Commit, store
  <2> QED
    BY ZenonT(30), <2>1 DEF StoreInv, StoreTypeOK, Causal, Cells, Authors, Op, ColWriters,
       ColValue,
                RowWriters, RowValue, Past
<1>2. CASE ~(p = policy[r][d] /\ rs = rows[r][d])
  BY Zenon, <1>2, CommitType, CommitCausal, CommitCells, CommitAuthors DEF StoreInv
<1> QED  BY Zenon, <1>1, <1>2

\* Applying the state of another replica preserves the invariant on the store.
LEMMA SyncStoreInv ==
  ASSUME StoreInv, NEW r \in Replica, NEW s \in Replica, Sync(r, s)
  PROVE  StoreInv'
<1> USE DEF StoreInv
<1>1. /\ hist' = hist /\ Op' = Op /\ Past' = Past
      /\ \A d, x : ColWriters(d, x)' = ColWriters(d, x) /\ ColValue(x)' = ColValue(x)
      /\ \A d, x : RowWriters(d, x)' = RowWriters(d, x) /\ RowValue(x)' = RowValue(x)
  BY Zenon DEF Sync, Op, Past, ColWriters, ColValue, RowWriters, RowValue
<1>2. /\ \A t \in Replica : seen'[t] = IF t = r THEN seen[r] \cup seen[s] ELSE seen[t]
      /\ \A t \in Replica, d \in Device, c \in Col :
           policy'[t][d][c] =
             IF t = r THEN MergeCell(policy[r][d][c], seen[r], policy[s][d][c], seen[s])
                      ELSE policy[t][d][c]
      /\ \A t \in Replica, d \in Device, res \in Resource :
           rows'[t][d][res] =
             IF t = r THEN MergeCell(rows[r][d][res], seen[r], rows[s][d][res], seen[s])
                      ELSE rows[t][d][res]
  BY Zenon DEF Sync, StoreTypeOK
<1>3. StoreTypeOK'
  <2>1. ASSUME NEW V, NEW c1 \in Cell(V), NEW c2 \in Cell(V)
        PROVE  MergeCell(c1, seen[r], c2, seen[s]) \in Cell(V)
    BY Zenon DEF Cell, MergeCell
  <2>2. policy' \in [Replica -> [Device -> [Col -> Cell(PolicyValue)]]]
    BY <2>1 DEF StoreTypeOK, Sync
  <2>3. rows' \in [Replica -> [Device -> [Resource -> Cell(BOOLEAN)]]]
    BY <2>1 DEF StoreTypeOK, Sync
  <2>4. seen' \in [Replica -> SUBSET Nat]  BY Zenon DEF StoreTypeOK, Sync
  <2> QED  BY Zenon, <1>1, <2>2, <2>3, <2>4 DEF StoreTypeOK
<1>4. Causal'  BY ZenonT(30), <1>1, <1>2 DEF Causal
<1>5. Authors'  BY Zenon, <1>1 DEF Authors
<1>6. /\ \A o \in seen[r] : Past[o] \subseteq seen[r]
      /\ \A o \in seen[s] : Past[o] \subseteq seen[s]
      /\ \A o \in seen[r] \cup seen[s] : \A q \in Past[o] : Past[q] \subseteq Past[o]
  BY Zenon DEF Causal, Past
<1>7. ASSUME NEW t \in Replica, NEW d \in Device, NEW c \in Col
      PROVE  CellInv(policy'[t][d][c], seen'[t], ColWriters(d, c)', ColValue(c)', Past')
  <2>1. \A u \in Replica : CellInv(policy[u][d][c], seen[u], ColWriters(d, c), ColValue(c), Past)
    BY Zenon DEF Cells
  <2>2. CellInv(MergeCell(policy[r][d][c], seen[r], policy[s][d][c], seen[s]),
                seen[r] \cup seen[s], ColWriters(d, c), ColValue(c), Past)
    BY Zenon, <1>6, <2>1, MergeCellInv
  <2> QED  BY Zenon, <1>1, <1>2, <2>1, <2>2
<1>8. ASSUME NEW t \in Replica, NEW d \in Device, NEW res \in Resource
      PROVE  CellInv(rows'[t][d][res], seen'[t], RowWriters(d, res)', RowValue(res)', Past')
  <2>1. \A u \in Replica : CellInv(rows[u][d][res], seen[u], RowWriters(d, res), RowValue(res), Past)
    BY Zenon DEF Cells
  <2>2. CellInv(MergeCell(rows[r][d][res], seen[r], rows[s][d][res], seen[s]),
                seen[r] \cup seen[s], RowWriters(d, res), RowValue(res), Past)
    BY Zenon, <1>6, <2>1, MergeCellInv
  <2> QED  BY <1>1, <1>2, <2>1, <2>2
<1>9. Cells'  BY Zenon, <1>7, <1>8 DEF Cells
<1> QED  BY Zenon, <1>3, <1>4, <1>5, <1>9

---------------------------------------------------------------------------
(* Every action commits legal rows *)

\* A write leaves the cell or replaces it; it replaces a conflicted cell.
LEMMA WriteCases ==
  ASSUME NEW cell, NEW n, NEW v
  PROVE  /\ Write(cell, n, v) = cell \/ Write(cell, n, v) = {[op |-> n, val |-> v]}
         /\ Conflicted(cell) => Write(cell, n, v) = {[op |-> n, val |-> v]}
         /\ cell = {} => Write(cell, n, v) = {[op |-> n, val |-> v]}
BY Zenon DEF Write, Conflicted

\* The values the operations write are values of the columns.
LEMMA WrittenValues ==
  /\ \A c \in Col : FailClosed[c] \in PolicyValue
  /\ \A c \in TripleCol : NoTriple[c] \in PolicyValue
  /\ \A res \in Resource, c \in TripleCol : Triple(res)[c] \in PolicyValue
  /\ FailClosed["admin_allowed"] = FALSE
  /\ TRUE \in PolicyValue /\ FALSE \in PolicyValue /\ Null \in PolicyValue
BY Zenon DEF FailClosed, PolicyValue, NoTriple, Triple, Col, TripleCol

\* Resolving writes a column value, and FALSE in admin_allowed.
LEMMA ResolvedRow ==
  ASSUME NEW p, NEW cols, NEW n
  PROVE  /\ ResolvePolicy(p, cols, n) = [c \in Col |-> ResolvePolicy(p, cols, n)[c]]
         /\ \A c \in TripleCol : ResolvePolicy(p, cols, n)[c] = p[c]
              \/ \E v \in PolicyValue : ResolvePolicy(p, cols, n)[c] = {[op |-> n, val |-> v]}
         /\ \/ ResolvePolicy(p, cols, n)["admin_allowed"] = p["admin_allowed"]
            \/ ResolvePolicy(p, cols, n)["admin_allowed"] = {[op |-> n, val |-> FALSE]}
<1> DEFINE q == ResolvePolicy(p, cols, n)
<1>1. "admin_allowed" \in Col /\ TripleCol \subseteq Col  BY Zenon DEF Col
<1>2. /\ q = [c \in Col |-> q[c]]
      /\ \A c \in Col : q[c] = p[c] \/ q[c] = {[op |-> n, val |-> FailClosed[c]]}
  BY Zenon, WriteCases DEF ResolvePolicy
<1> HIDE DEF q
<1>3. ASSUME NEW c \in TripleCol
      PROVE  q[c] = p[c] \/ \E v \in PolicyValue : q[c] = {[op |-> n, val |-> v]}
  BY Zenon, <1>1, <1>2, WrittenValues
<1>4. q["admin_allowed"] = p["admin_allowed"] \/ q["admin_allowed"] = {[op |-> n, val |-> FALSE]}
  BY Zenon, <1>1, <1>2, WrittenValues
<1> QED  BY Zenon, <1>2, <1>3, <1>4 DEF q

\* A row made of stored cells and of writes of change NextOp is legal.
LEMMA LegalRows ==
  ASSUME StoreInv, NEW r \in Replica, NEW d \in Device, NEW p, NEW rs, NEW act \in Act,
         p = [c \in Col |-> p[c]], rs = [res \in Resource |-> rs[res]],
         \A c \in TripleCol : p[c] = policy[r][d][c]
                              \/ \E v \in PolicyValue : p[c] = {[op |-> NextOp, val |-> v]},
         \/ p["admin_allowed"] = policy[r][d]["admin_allowed"]
         \/ /\ p["admin_allowed"] = {[op |-> NextOp, val |-> (act \in {"choose", "allow"})]}
            /\ act = "choose" => policy[r][d]["admin_allowed"] = {},
         \A res \in Resource : rs[res] = rows[r][d][res]
                               \/ rs[res] = {[op |-> NextOp, val |-> (act = "select")]}
  PROVE  Legal(r, d, p, rs, act)
<1>1. NextOp \in Nat  BY DEF NextOp, StoreInv, StoreTypeOK
<1>2. \A V : \A v \in V : {[op |-> NextOp, val |-> v]} \in Cell(V)  BY <1>1 DEF Cell
<1>3. (act = "select") \in BOOLEAN /\ (act \in {"choose", "allow"}) \in PolicyValue
  BY DEF PolicyValue
<1>4. /\ policy[r][d] \in [Col -> Cell(PolicyValue)]
      /\ rows[r][d] \in [Resource -> Cell(BOOLEAN)]
  BY DEF StoreInv, StoreTypeOK
<1>5. \A c \in Col : p[c] = policy[r][d][c]
                     \/ \E v \in PolicyValue : p[c] = {[op |-> NextOp, val |-> v]}
  BY Zenon, <1>3 DEF Col
<1>6. \A c \in Col : p[c] \in Cell(PolicyValue)  BY <1>2, <1>4, <1>5
<1>7. p \in [Col -> Cell(PolicyValue)]  BY Zenon, <1>6
<1>8. Overwrites(policy[r][d], p, Col, PolicyValue, NextOp)
  BY Zenon, <1>5, <1>7 DEF Overwrites
<1>9. \A res \in Resource : rs[res] \in Cell(BOOLEAN)  BY ZenonT(30), <1>2, <1>3, <1>4
<1>10. rs \in [Resource -> Cell(BOOLEAN)]  BY Zenon, <1>9
<1>11. Overwrites(rows[r][d], rs, Resource, BOOLEAN, NextOp)
  BY Zenon, <1>3, <1>10 DEF Overwrites
<1> QED  BY Zenon, <1>8, <1>11 DEF Legal

\* The stored rows are functions over the columns and the resources.
LEMMA StoredRows ==
  ASSUME StoreInv, NEW r \in Replica, NEW d \in Device
  PROVE  /\ policy[r][d] = [c \in Col |-> policy[r][d][c]]
         /\ rows[r][d] = [res \in Resource |-> rows[r][d][res]]
BY DEF StoreInv, StoreTypeOK

\* Unchanged tables keep the invariant on them.
LEMMA StutterInv == ASSUME StoreInv, UNCHANGED store PROVE StoreInv'
BY ZenonT(30) DEF store, StoreInv, StoreTypeOK, Causal, Cells, Authors, Op, ColWriters,
   ColValue,
       RowWriters, RowValue, Past

CallsTypeOK == calls \in [Client -> {Idle} \cup Request]

\* A slot that is not idle holds a request.
LEMMA InFlight ==
  ASSUME CallsTypeOK, NEW k \in Client, calls[k].pc # "idle"
  PROVE  /\ calls[k] \in Request
         /\ calls[k].r \in Replica /\ calls[k].d \in Device /\ calls[k].allowed \in BOOLEAN
         /\ calls[k].res \in Resource \cup {Null}
<1>1. Idle.pc = "idle"  BY DEF Idle
<1>2. calls[k] \in Request  BY Zenon, <1>1 DEF CallsTypeOK
<1> QED  BY <1>2 DEF Request

\* The columns set_prevalidated writes are column values.
LEMMA TargetValues ==
  ASSUME NEW res \in Resource \cup {Null}
  PROVE  \A c \in TripleCol : Target(res)[c] \in PolicyValue
BY Zenon, WrittenValues DEF Target

LEMMA ResolveInv ==
  ASSUME StoreInv, CallsTypeOK, NEW k \in Client, Resolve(k)
  PROVE  StoreInv'
<1> DEFINE r == calls[k].r
           d == calls[k].d
           q == ResolvePolicy(policy[r][d], calls[k].cols, NextOp)
<1>1. r \in Replica /\ d \in Device  BY Zenon, InFlight DEF Resolve, Stands
<1>2. Commit(r, d, q, rows[r][d], "resolve")
  BY Zenon DEF Resolve, Execute, PolicyRow, ResourceRows
<1>3. ("resolve" \in {"choose", "allow"}) = FALSE /\ "resolve" \in Act  BY DEF Act
<1> HIDE DEF r, d
<1>4. /\ q = [c \in Col |-> q[c]]
      /\ \A c \in TripleCol : q[c] = policy[r][d][c]
                              \/ \E v \in PolicyValue : q[c] = {[op |-> NextOp, val |-> v]}
      /\ \/ q["admin_allowed"] = policy[r][d]["admin_allowed"]
         \/ q["admin_allowed"] = {[op |-> NextOp, val |-> FALSE]}
  BY ResolvedRow
<1> HIDE DEF q
<1>5. Legal(r, d, q, rows[r][d], "resolve")
  BY Zenon, <1>1, <1>3, <1>4, StoredRows, LegalRows
<1> QED  BY Zenon, <1>1, <1>2, <1>5, CommitStoreInv

LEMMA UpdatePolicyInv ==
  ASSUME StoreInv, CallsTypeOK, NEW k \in Client, UpdatePolicy(k)
  PROVE  StoreInv'
<1> DEFINE r == calls[k].r
           d == calls[k].d
           t == Target(calls[k].res)
           w == WriteTriple(policy[r][d], NextOp, t)
<1>1. r \in Replica /\ d \in Device /\ \A c \in TripleCol : t[c] \in PolicyValue
  BY Zenon, InFlight, TargetValues DEF UpdatePolicy, Stands
<1>2. Commit(r, d, w, rows[r][d], "choose")
  BY Zenon DEF UpdatePolicy, Execute, PolicyRow, ResourceRows
<1> HIDE DEF r, d, t
<1>3. w = [c \in Col |-> w[c]] /\ w["admin_allowed"] = policy[r][d]["admin_allowed"]
  BY Zenon DEF WriteTriple, Col, TripleCol
<1>4. ASSUME NEW c \in TripleCol
      PROVE  w[c] = policy[r][d][c] \/ \E v \in PolicyValue : w[c] = {[op |-> NextOp, val |-> v]}
  <2>1. w[c] = Write(policy[r][d][c], NextOp, t[c])  BY Zenon DEF WriteTriple, Col
  <2> QED  BY Zenon, <1>1, <2>1, WriteCases
<1> HIDE DEF w
<1>5. Legal(r, d, w, rows[r][d], "choose")
  BY Zenon, <1>1, <1>3, <1>4, StoredRows, LegalRows DEF Act
<1> QED  BY Zenon, <1>1, <1>2, <1>5, CommitStoreInv

LEMMA InsertRowInv ==
  ASSUME StoreInv, CallsTypeOK, NEW k \in Client, InsertRow(k)
  PROVE  StoreInv'
<1> DEFINE r == calls[k].r
           d == calls[k].d
           p == policy[r][d]
           t == Target(calls[k].res)
           allowed == calls[k].allowed
           w == InsertPolicy(p, NextOp, t, allowed)
           a == "admin_allowed"
           act == IF ~allowed THEN "restrict" ELSE IF calls[k].res = Null THEN "allow" ELSE "choose"
<1>1. /\ r \in Replica /\ d \in Device /\ allowed \in BOOLEAN
      /\ \A c \in TripleCol : t[c] \in PolicyValue
  BY Zenon, InFlight, TargetValues DEF InsertRow, Stands
<1>2. UNCHANGED store \/ (p[a] = {} /\ Commit(r, d, w, rows[r][d], act))
  BY Zenon DEF InsertRow, Execute, PolicyRow, ResourceRows, Exists
<1>3. act \in Act /\ (act \in {"choose", "allow"}) = allowed  BY <1>1 DEF Act
<1> HIDE DEF r, d, t, allowed, act
<1>4. CASE p[a] = {} /\ Commit(r, d, w, rows[r][d], act)
  <2>1. w = [c \in Col |-> w[c]] /\ w[a] = Write(p[a], NextOp, allowed)
    BY Zenon DEF InsertPolicy, Col, TripleCol
  <2>2. w[a] = {[op |-> NextOp, val |-> allowed]}  BY Zenon, <1>4, <2>1, WriteCases
  <2>3. ASSUME NEW c \in TripleCol
        PROVE  w[c] = p[c] \/ \E v \in PolicyValue : w[c] = {[op |-> NextOp, val |-> v]}
    <3>1. w[c] = Write(p[c], NextOp, t[c])  BY Zenon DEF InsertPolicy, Col
    <3> QED  BY Zenon, <1>1, <3>1, WriteCases
  <2> HIDE DEF w
  <2>4. Legal(r, d, w, rows[r][d], act)
    BY Zenon, <1>1, <1>3, <1>4, <2>1, <2>2, <2>3, StoredRows, LegalRows
  <2> QED  BY Zenon, <1>1, <1>4, <2>4, CommitStoreInv
<1> QED  BY Zenon, <1>2, <1>4, StutterInv

LEMMA WriteAdminAllowedInv ==
  ASSUME StoreInv, CallsTypeOK, NEW k \in Client, WriteAdminAllowed(k)
  PROVE  StoreInv'
<1> DEFINE r == calls[k].r
           d == calls[k].d
           p == policy[r][d]
           a == "admin_allowed"
           allowed == calls[k].allowed
           w == [p EXCEPT ![a] = Write(@, NextOp, allowed)]
           act == IF allowed THEN "allow" ELSE "restrict"
<1>1. r \in Replica /\ d \in Device /\ allowed \in BOOLEAN
  BY Zenon, InFlight DEF WriteAdminAllowed, Stands
<1>2. Commit(r, d, w, rows[r][d], act)
  BY Zenon DEF WriteAdminAllowed, Execute, PolicyRow, ResourceRows
<1>3. act \in Act /\ act # "choose" /\ (act \in {"choose", "allow"}) = allowed
  BY <1>1 DEF Act
<1> HIDE DEF r, d, allowed, act
<1>4. p \in [Col -> Cell(PolicyValue)]  BY Zenon, <1>1 DEF StoreInv, StoreTypeOK
<1>5. /\ w = [c \in Col |-> w[c]]
      /\ \A c \in TripleCol : w[c] = p[c]
      /\ w[a] = Write(p[a], NextOp, allowed)
  BY <1>4 DEF Col, TripleCol
<1> HIDE DEF w
<1>6. w[a] = p[a] \/ w[a] = {[op |-> NextOp, val |-> allowed]}  BY Zenon, <1>5, WriteCases
<1>7. Legal(r, d, w, rows[r][d], act)
  BY Zenon, <1>1, <1>3, <1>5, <1>6, StoredRows, LegalRows
<1> QED  BY Zenon, <1>1, <1>2, <1>7, CommitStoreInv

LEMMA DeselectAllInv ==
  ASSUME StoreInv, CallsTypeOK, NEW k \in Client, DeselectAll(k)
  PROVE  StoreInv'
<1> DEFINE r == calls[k].r
           d == calls[k].d
           p == policy[r][d]
           w == WriteTriple(p, NextOp, NoTriple)
           rs == DeselectRows(rows[r][d], NextOp)
           a == "admin_allowed"
<1>1. r \in Replica /\ d \in Device  BY Zenon, InFlight DEF DeselectAll, Stands
<1>2. Commit(r, d, p, rs, "deselect") \/ Commit(r, d, w, rs, "deselect")
  BY Zenon DEF DeselectAll, Execute, PolicyRow, ResourceRows
<1> HIDE DEF r, d
<1>3. w = [c \in Col |-> w[c]] /\ w[a] = p[a]  BY Zenon DEF WriteTriple, Col, TripleCol
<1>4. ASSUME NEW c \in TripleCol
      PROVE  w[c] = p[c] \/ \E v \in PolicyValue : w[c] = {[op |-> NextOp, val |-> v]}
  <2>1. w[c] = Write(p[c], NextOp, NoTriple[c])  BY Zenon DEF WriteTriple, Col
  <2>2. NoTriple[c] \in PolicyValue  BY Zenon, WrittenValues
  <2> QED  BY Zenon, <2>1, <2>2, WriteCases
<1>5. /\ rs = [x \in Resource |-> rs[x]]
      /\ \A x \in Resource : rs[x] = rows[r][d][x] \/ rs[x] = {[op |-> NextOp, val |-> FALSE]}
  BY Zenon, WriteCases DEF DeselectRows
<1>6. ("deselect" = "select") = FALSE /\ "deselect" \in Act  BY DEF Act
<1> HIDE DEF w, rs
<1>7. Legal(r, d, w, rs, "deselect")
  BY Zenon, <1>1, <1>3, <1>4, <1>5, <1>6, LegalRows
<1>8. Legal(r, d, p, rs, "deselect")
  BY Zenon, <1>1, <1>5, <1>6, StoredRows, LegalRows
<1> QED  BY Zenon, <1>1, <1>2, <1>7, <1>8, CommitStoreInv

LEMMA WriteRowInv ==
  ASSUME StoreInv, NEW k, calls[k].r \in Replica, calls[k].d \in Device,
         NEW v \in BOOLEAN, NEW act \in Act, (act = "select") = v,
         WriteRow(k, Write(ResourceRow(k), NextOp, v), act)
  PROVE  StoreInv'
<1> DEFINE r == calls[k].r
           d == calls[k].d
           res == calls[k].res
           rs == [rows[r][d] EXCEPT ![res] = Write(rows[r][d][res], NextOp, v)]
<1>1. Commit(r, d, policy[r][d], rs, act)
  BY Zenon DEF WriteRow, Execute, PolicyRow, ResourceRows, ResourceRow
<1>2. r \in Replica /\ d \in Device  BY Zenon
<1> HIDE DEF r, d, res
<1>3. /\ rs = [x \in Resource |-> rs[x]]
      /\ \A x \in Resource : rs[x] = rows[r][d][x] \/ rs[x] = {[op |-> NextOp, val |-> v]}
  <2>1. rows[r][d] \in [Resource -> Cell(BOOLEAN)]  BY Zenon, <1>2 DEF StoreInv, StoreTypeOK
  <2>2. rs = [x \in Resource |-> rs[x]]  BY <2>1
  <2>3. \A x \in Resource : \/ rs[x] = rows[r][d][x]
                            \/ rs[x] = Write(rows[r][d][x], NextOp, v)
    BY <2>1
  <2> HIDE DEF rs
  <2>4. \A x \in Resource : rs[x] = rows[r][d][x] \/ rs[x] = {[op |-> NextOp, val |-> v]}
    BY <2>3, WriteCases
  <2> QED  BY Zenon, <2>2, <2>4
<1> HIDE DEF rs
<1>4. Legal(r, d, policy[r][d], rs, act)  BY Zenon, <1>2, <1>3, StoredRows, LegalRows
<1> QED  BY Zenon, <1>1, <1>2, <1>4, CommitStoreInv

\* The three writes of a resource row: resolve_row, set_resource_selected and
\* deselect_resource_owned.
LEMMA RowWritesInv ==
  ASSUME StoreInv, CallsTypeOK, NEW k \in Client, ResolveRow(k) \/ SelectRow(k) \/ UnselectRow(k)
  PROVE  StoreInv'
<1>1. calls[k].r \in Replica /\ calls[k].d \in Device
  BY Zenon, InFlight DEF ResolveRow, SelectRow, UnselectRow, Stands
<1>2. /\ "resolve" \in Act /\ ("resolve" = "select") = FALSE
      /\ "unselect" \in Act /\ ("unselect" = "select") = FALSE
      /\ "select" \in Act /\ ("select" = "select") = TRUE
  BY DEF Act
<1>3. CASE ResolveRow(k)  BY Zenon, <1>1, <1>2, <1>3, WriteRowInv DEF ResolveRow
<1>4. CASE SelectRow(k)  BY Zenon, <1>1, <1>2, <1>4, WriteRowInv, StutterInv DEF SelectRow
<1>5. CASE UnselectRow(k)  BY Zenon, <1>1, <1>2, <1>5, WriteRowInv DEF UnselectRow
<1> QED  BY Zenon, <1>3, <1>4, <1>5

\* Every step of a request keeps the invariant on the tables.
LEMMA StepInv ==
  ASSUME StoreInv, CallsTypeOK, NEW k \in Client, RequestStep(k)
  PROVE  StoreInv'
<1>1. \/ UNCHANGED store \/ Resolve(k) \/ UpdatePolicy(k) \/ InsertRow(k) \/ WriteAdminAllowed(k)
      \/ DeselectAll(k) \/ ResolveRow(k) \/ SelectRow(k) \/ UnselectRow(k)
  BY Zenon DEF RequestStep, ReadConflicts, ReadRowConflicts, ReadPolicy, Clear, ReadRow
<1> QED
  BY Zenon, <1>1, StutterInv, ResolveInv, UpdatePolicyInv, InsertRowInv, WriteAdminAllowedInv,
     DeselectAllInv, RowWritesInv

---------------------------------------------------------------------------
(* The requests *)

\* A request goes to another statement, or ends.
LEMMA GotoType ==
  ASSUME CallsTypeOK, NEW k \in Client, calls[k] \in Request,
         Ends(k) \/ \E pc \in RequestPc : Goto(k, pc)
  PROVE  CallsTypeOK'
<1>1. CASE Ends(k)  BY Zenon, <1>1 DEF Ends, CallsTypeOK
<1>2. ASSUME NEW pc \in RequestPc, Goto(k, pc) PROVE CallsTypeOK'
  <2>1. [calls[k] EXCEPT !.pc = pc] \in Request  BY DEF Request
  <2>2. calls' = [calls EXCEPT ![k] = [calls[k] EXCEPT !.pc = pc]]  BY Zenon, <1>2 DEF Goto
  <2> QED  BY Zenon, <2>1, <2>2 DEF CallsTypeOK
<1> QED  BY Zenon, <1>1, <1>2

\* The reads a request may begin with.
LEMMA FirstReadType ==
  ASSUME CallsTypeOK, NEW k \in Client, NEW c \in Request, FirstRead(k, c)
  PROVE  CallsTypeOK'
<1> DEFINE p == policy[c.r][c.d]
<1>1. /\ \A pc \in RequestPc : [c EXCEPT !.pc = pc] \in Request
      /\ \A pc \in RequestPc : [c EXCEPT !.pc = pc, !.cols = Conflicts(p)] \in Request
  BY DEF Request, Conflicts
<1>2. \/ Ends(k)
      \/ \E pc \in RequestPc : calls' = [calls EXCEPT ![k] = [c EXCEPT !.pc = pc]]
      \/ \E pc \in RequestPc :
           calls' = [calls EXCEPT ![k] = [c EXCEPT !.pc = pc, !.cols = Conflicts(p)]]
  <2>1. CASE ReadConflicts(k, c)  BY Zenon, <2>1 DEF ReadConflicts, RequestPc
  <2>2. CASE ReadAnyConflicts(k, c)  BY Zenon, <2>2 DEF ReadAnyConflicts, RequestPc
  <2>3. CASE ReadRowConflicts(k, c)  BY Zenon, <2>3 DEF ReadRowConflicts, RequestPc
  <2> QED  BY Zenon, <2>1, <2>2, <2>3 DEF FirstRead
<1> QED  BY Zenon, <1>1, <1>2 DEF CallsTypeOK, Ends

\* Every request is one of Request.
LEMMA RequestsType ==
  ASSUME NEW r \in Replica, NEW d \in Device, NEW c \in Requests(r, d)
  PROVE  c \in Request
BY DEF Requests, Request, RequestPc

LEMMA StepType ==
  ASSUME CallsTypeOK, NEW k \in Client, RequestStep(k)
  PROVE  CallsTypeOK'
<1>1. calls[k] \in Request
  BY Zenon, InFlight DEF RequestStep, ReadConflicts, ReadRowConflicts, ReadPolicy, Clear, ReadRow,
     Resolve, UpdatePolicy, InsertRow, WriteAdminAllowed, DeselectAll, ResolveRow, SelectRow,
     UnselectRow, Stands
<1>2. CASE ReadConflicts(k, calls[k]) \/ ReadRowConflicts(k, calls[k])
  BY Zenon, <1>1, <1>2, FirstReadType DEF FirstRead
<1>3. CASE Resolve(k)
  <2>1. PICK pc \in RequestPc : calls' = [calls EXCEPT ![k].pc = pc, ![k].cols = {}]
    BY Zenon, <1>3 DEF Resolve, RequestPc
  <2>2. [calls[k] EXCEPT !.pc = pc, !.cols = {}] \in Request  BY <1>1 DEF Request
  <2>3. calls' = [calls EXCEPT ![k] = [calls[k] EXCEPT !.pc = pc, !.cols = {}]]
    BY <2>1 DEF CallsTypeOK
  <2> QED  BY Zenon, <2>2, <2>3 DEF CallsTypeOK
<1>4. CASE ReadPolicy(k)
  <2>1. CASE calls' = [calls EXCEPT ![k].op = "set", ![k].pc = "conflicts"]
    <3>1. [calls[k] EXCEPT !.op = "set", !.pc = "conflicts"] \in Request
      BY <1>1 DEF Request, RequestPc
    <3>2. calls' = [calls EXCEPT ![k] = [calls[k] EXCEPT !.op = "set", !.pc = "conflicts"]]
      BY <2>1 DEF CallsTypeOK
    <3> QED  BY Zenon, <3>1, <3>2 DEF CallsTypeOK
  <2>2. CASE Ends(k) \/ \E pc \in RequestPc : Goto(k, pc)  BY Zenon, <1>1, <2>2, GotoType
  <2> QED
    BY Zenon, <1>4, <2>1, <2>2 DEF ReadPolicy, SetDecides, AdminDecides, RowDecides,
       DeselectDecides, RequestPc
<1>5. CASE UpdatePolicy(k) \/ InsertRow(k) \/ WriteAdminAllowed(k) \/ DeselectAll(k)
  BY Zenon, <1>1, <1>5, GotoType
     DEF UpdatePolicy, InsertRow, WriteAdminAllowed, DeselectAll, RequestPc
<1>6. CASE Clear(k)  BY Zenon, <1>1, <1>6, GotoType DEF Clear, RequestPc
<1>7. CASE ReadRow(k)  BY Zenon, <1>1, <1>7, GotoType DEF ReadRow, RequestPc
<1>8. CASE ResolveRow(k) \/ SelectRow(k) \/ UnselectRow(k)
  BY Zenon, <1>1, <1>8, GotoType DEF ResolveRow, SelectRow, UnselectRow, RequestPc
<1> QED  BY Zenon, <1>2, <1>3, <1>4, <1>5, <1>6, <1>7, <1>8 DEF RequestStep

---------------------------------------------------------------------------
(* The theorems *)

LEMMA InitInv == Init => IInv
<1> SUFFICES ASSUME Init PROVE IInv  BY Zenon
<1>1. Op = {}  BY DEF Init, Op
<1>2. StoreTypeOK
  <2>1. policy \in [Replica -> [Device -> [Col -> Cell(PolicyValue)]]]  BY Zenon DEF Init, Cell
  <2>2. rows \in [Replica -> [Device -> [Resource -> Cell(BOOLEAN)]]]  BY Zenon DEF Init, Cell
  <2>3. hist \in Seq(Change) /\ seen \in [Replica -> SUBSET Nat]  BY DEF Init
  <2> QED  BY Zenon, <2>1, <2>2, <2>3 DEF StoreTypeOK
<1>3. Causal /\ Authors  BY Zenon, <1>1 DEF Init, Causal, Authors
<1>4. Cells  BY DEF Init, Cells, CellInv
<1>5. CallsTypeOK  BY Zenon DEF Init, CallsTypeOK
<1> QED  BY Zenon, <1>2, <1>3, <1>4, <1>5 DEF IInv, StoreInv, StoreTypeOK, TypeOK, CallsTypeOK

LEMMA NextInv == IInv /\ [Next]_vars => IInv'
<1> SUFFICES ASSUME IInv, [Next]_vars PROVE IInv'  BY Zenon
<1>1. StoreInv /\ TypeOK /\ CallsTypeOK  BY Zenon DEF IInv, TypeOK, CallsTypeOK
<1>2. SUFFICES StoreInv' /\ CallsTypeOK'
  BY Zenon DEF IInv, StoreInv, StoreTypeOK, TypeOK, CallsTypeOK
<1>3. ASSUME NEW k \in Client, NEW r \in Replica, NEW d \in Device, NEW c \in Requests(r, d),
             FirstRead(k, c)
      PROVE  StoreInv' /\ CallsTypeOK'
  <2>1. UNCHANGED store
    BY Zenon, <1>3 DEF FirstRead, ReadConflicts, ReadAnyConflicts, ReadRowConflicts
  <2>2. CallsTypeOK'  BY Zenon, <1>1, <1>3, RequestsType, FirstReadType
  <2> QED  BY Zenon, <1>1, <2>1, <2>2, StutterInv
<1>4. ASSUME NEW k \in Client, RequestStep(k)
      PROVE  StoreInv' /\ CallsTypeOK'
  BY Zenon, <1>1, <1>4, StepInv, StepType
<1>5. ASSUME NEW r \in Replica, NEW s \in Replica, Sync(r, s)
      PROVE  StoreInv' /\ CallsTypeOK'
  BY ZenonT(30), <1>1, <1>5, SyncStoreInv DEF Sync, CallsTypeOK
<1>6. ASSUME NEW r \in Replica, Crash(r)
      PROVE  StoreInv' /\ CallsTypeOK'
  BY Zenon, <1>1, <1>6, StutterInv DEF Crash, CallsTypeOK
<1>7. CASE UNCHANGED vars
  BY Zenon, <1>1, <1>7, StutterInv DEF vars, store, CallsTypeOK
<1> QED
  BY Zenon, <1>3, <1>4, <1>5, <1>6, <1>7 DEF Next

LEMMA Invariance == Spec => []IInv
BY InitInv, NextInv, PTL DEF Spec

\* The tables and the requests always have the shape TypeOK says.
THEOREM TypeCorrect == Spec => []TypeOK
<1>1. IInv => TypeOK  BY Zenon DEF IInv
<1> QED  BY <1>1, Invariance, PTL

\* For every number of replicas, devices and resources, a replica never reads a
\* resource as selected while it knows of a deselection of that row which no later
\* selection it knows of has answered: resource_selected resolves to deselected.
THEOREM DeselectionAlwaysWins == Spec => []DeselectionWins
<1>1. IInv => DeselectionWins
  <2> SUFFICES ASSUME IInv,
                      NEW r \in Replica, NEW d \in Device, NEW res \in Resource,
                      IsSelected(rows[r][d][res]),
                      NEW u \in seen[r],
                      hist[u].act \in {"unselect", "deselect"}, hist[u].dev = d,
                      res \in DOMAIN hist[u].rows
               PROVE  \E o \in Answered(r, d, u, "select") : res \in DOMAIN hist[o].rows
    BY Zenon DEF DeselectionWins
  <2> DEFINE cell == rows[r][d][res]
             W == RowWriters(d, res)
  <2>1. CellInv(cell, seen[r], W, RowValue(res), Past) /\ seen[r] \subseteq Op
    BY Zenon DEF IInv, StoreInv, Cells, Causal
  <2>2. u \in W  BY Zenon, <2>1 DEF RowWriters
  <2>3. PICK y \in cell : u = y.op \/ u \in Past[y.op]  BY Zenon, <2>1, <2>2 DEF CellInv
  <2>4. y.op \in seen[r] \cap W /\ y.val = RowValue(res)[y.op]
    <3>1. y.op \in seen[r] \cap W /\ y = [op |-> y.op, val |-> RowValue(res)[y.op]]
      BY Zenon, <2>1 DEF CellInv
    <3> QED  BY <3>1
  <2>5. y.op \in Op /\ res \in DOMAIN hist[y.op].rows /\ hist[y.op].dev = d
    BY Zenon, <2>1, <2>4 DEF RowWriters
  <2>6. hist[y.op].rows[res] = TRUE
    <3>1. y.val  BY Zenon DEF IsSelected
    <3>2. y.val \in BOOLEAN  BY DEF IInv, TypeOK, Cell
    <3> QED  BY Zenon, <2>4, <2>5, <3>1, <3>2 DEF RowValue
  <2>7. hist[y.op].act = "select"
    BY Zenon, <2>5, <2>6 DEF IInv, StoreInv, Authors
  <2>8. u \in hist[y.op].past  BY Zenon, <2>3, <2>5, <2>7 DEF Past
  <2> QED  BY Zenon, <2>4, <2>5, <2>7, <2>8 DEF Answered
<1> QED  BY <1>1, Invariance, PTL

\* For every number of replicas and devices, a replica never reads admin_allowed as
\* true while it knows of a restriction nobody who knew of it has lifted.
THEOREM RestrictionAlwaysWins == Spec => []RestrictionWins
<1>1. IInv => RestrictionWins
  <2> SUFFICES ASSUME IInv, NEW r \in Replica, NEW d \in Device, AdminReads(policy[r][d]),
                      NEW u \in seen[r], hist[u].act = "restrict", hist[u].dev = d,
                      "admin_allowed" \in DOMAIN hist[u].cols
               PROVE  Answered(r, d, u, "allow") # {}
    BY Zenon DEF RestrictionWins
  <2> DEFINE a == "admin_allowed"
             cell == policy[r][d][a]
             W == ColWriters(d, a)
  <2>1. CellInv(cell, seen[r], W, ColValue(a), Past) /\ seen[r] \subseteq Op
    BY Zenon DEF IInv, StoreInv, Cells, Causal, Col
  <2>2. u \in W  BY Zenon, <2>1 DEF ColWriters
  <2>3. PICK y \in cell : u = y.op \/ u \in Past[y.op]  BY Zenon, <2>1, <2>2 DEF CellInv
  <2>4. y.op \in seen[r] \cap W /\ y.val = ColValue(a)[y.op]
    <3>1. y.op \in seen[r] \cap W /\ y = [op |-> y.op, val |-> ColValue(a)[y.op]]
      BY Zenon, <2>1 DEF CellInv
    <3> QED  BY <3>1
  <2>5. y.op \in Op /\ a \in DOMAIN hist[y.op].cols /\ hist[y.op].dev = d
    BY Zenon, <2>1, <2>4 DEF ColWriters
  <2>6. hist[y.op].act \in {"choose", "allow"}
    <3>1. y.val  BY Zenon DEF AdminReads
    <3>2. hist[y.op].cols[a] = (hist[y.op].act \in {"choose", "allow"})
      BY Zenon, <2>5 DEF IInv, StoreInv, Authors
    <3>3. y.val = hist[y.op].cols[a]  BY Zenon, <2>4, <2>5 DEF ColValue
    <3> QED  BY Zenon, <3>1, <3>2, <3>3
  <2>7. u \in hist[y.op].past  BY Zenon, <2>3, <2>5, <2>6 DEF Past
  <2>8. hist[y.op].act # "choose"  BY Zenon, <2>5, <2>7 DEF IInv, StoreInv, Authors
  <2> QED  BY Zenon, <2>4, <2>5, <2>6, <2>7, <2>8 DEF Answered
<1> QED  BY <1>1, Invariance, PTL

\* Replicas that hold the same changes hold the same rows, whatever the order of
\* exchanges and whoever resolved the conflicts, for every number of replicas.
THEOREM ReplicasConverge == Spec => []Convergence
<1>1. IInv => Convergence
  <2> SUFFICES ASSUME IInv, NEW r \in Replica, NEW s \in Replica, seen[r] = seen[s]
               PROVE  policy[r] = policy[s] /\ rows[r] = rows[s]
    BY Zenon DEF Convergence
  <2>1. \A d \in Device, c \in Col : policy[r][d][c] = policy[s][d][c]
    BY CellUnique DEF IInv, StoreInv, Cells
  <2>2. \A d \in Device, res \in Resource : rows[r][d][res] = rows[s][d][res]
    BY CellUnique DEF IInv, StoreInv, Cells
  <2>3. /\ policy[r] \in [Device -> [Col -> Cell(PolicyValue)]]
        /\ policy[s] \in [Device -> [Col -> Cell(PolicyValue)]]
        /\ rows[r] \in [Device -> [Resource -> Cell(BOOLEAN)]]
        /\ rows[s] \in [Device -> [Resource -> Cell(BOOLEAN)]]
    BY Zenon DEF IInv, TypeOK
  <2>4. /\ \A d \in Device : policy[r][d] = policy[s][d]
        /\ \A d \in Device : rows[r][d] = rows[s][d]
    BY <2>1, <2>2, <2>3
  <2> QED  BY <2>3, <2>4
<1> QED  BY <1>1, Invariance, PTL

---------------------------------------------------------------------------
(* Resolving                                                               *)

\* A write of FALSE makes no cell read as true.
LEMMA WriteFalse ==
  ASSUME NEW cell, NEW n, NEW new, new = Write(cell, n, FALSE) \/ new = cell,
         new # {}, \A s \in new : s.val
  PROVE  new = cell
<1>1. CASE new = {[op |-> n, val |-> FALSE]}
  <2>1. [op |-> n, val |-> FALSE].val = FALSE  OBVIOUS
  <2> QED  BY Zenon, <1>1, <2>1
<1> QED  BY Zenon, <1>1, WriteCases

\* A change that makes neither admin_allowed nor a resource read as true admits
\* nothing where the policy could be read.
NoneAdmitted ==
  \A r \in Replica, d \in Device, res \in Resource :
    Readable(r, d) /\ Admitted(r, d, res)' => Admitted(r, d, res)

LEMMA CommitNoneAdmitted ==
  ASSUME StoreInv, NEW r \in Replica, NEW d \in Device, NEW p, NEW rs, NEW act,
         Commit(r, d, p, rs, act), AdminReads(p) => AdminReads(policy[r][d]),
         \A res \in Resource : IsSelected(rs[res]) => IsSelected(rows[r][d][res])
  PROVE  NoneAdmitted
<1>1. ASSUME NEW s \in Replica, NEW e \in Device
      PROVE  /\ policy'[s][e] = policy[s][e] \/ (s = r /\ e = d /\ policy'[s][e] = p)
             /\ rows'[s][e] = rows[s][e] \/ (s = r /\ e = d /\ rows'[s][e] = rs)
  <2>1. CASE UNCHANGED <<policy, rows>>  BY Zenon, <2>1
  <2>2. CASE policy' = [policy EXCEPT ![r][d] = p] /\ rows' = [rows EXCEPT ![r][d] = rs]
    <3>1. StoreTypeOK  BY Zenon DEF StoreInv
    <3> QED  BY Zenon, <2>2, <3>1 DEF StoreTypeOK
  <2> QED  BY Zenon, <2>1, <2>2 DEF Commit, store
<1>2. ASSUME NEW s \in Replica, NEW e \in Device, NEW res \in Resource,
             Readable(s, e), Admitted(s, e, res)'
      PROVE  Admitted(s, e, res)
  <2>1. AdminReads(policy'[s][e]) /\ IsSelected(rows'[s][e][res])  BY Zenon, <1>2 DEF Admitted
  <2>2. AdminReads(policy[s][e])  BY Zenon, <1>1, <2>1
  <2>3. IsSelected(rows[s][e][res])  BY Zenon, <1>1, <2>1
  <2> QED  BY Zenon, <1>2, <2>2, <2>3 DEF Admitted
<1> QED  BY Zenon, <1>2 DEF NoneAdmitted

LEMMA CommitAct ==
  ASSUME StoreInv, NEW r, NEW d, NEW p, NEW rs, NEW act, Commit(r, d, p, rs, act),
         hist' # hist
  PROVE  hist'[NextOp].act = act
<1> DEFINE rec == [act  |-> act, dev  |-> d, past |-> seen[r],
                   cols |-> Written(policy[r][d], p), rows |-> Written(rows[r][d], rs)]
<1>1. hist' = Append(hist, rec)  BY Zenon DEF Commit, store
<1>2. hist \in Seq(Change) /\ Len(hist) \in Nat  BY DEF StoreInv, StoreTypeOK
<1>3. rec.act = act  OBVIOUS
<1> HIDE DEF rec
<1>4. hist'[Len(hist) + 1] = rec  BY <1>1, <1>2
<1> QED  BY Zenon, <1>3, <1>4 DEF NextOp

LEMMA NextResolving ==
  ASSUME IInv, [Next]_vars, hist' # hist, hist'[NextOp].act = "resolve"
  PROVE  NoneAdmitted
<1>1. StoreInv /\ CallsTypeOK  BY Zenon DEF IInv, TypeOK, CallsTypeOK
<1>2. ASSUME NEW k \in Client, Resolve(k) PROVE NoneAdmitted
  <2> DEFINE r == calls[k].r
             d == calls[k].d
             p == policy[r][d]
             q == ResolvePolicy(p, calls[k].cols, NextOp)
  <2>1. r \in Replica /\ d \in Device  BY Zenon, <1>1, <1>2, InFlight DEF Resolve, Stands
  <2>2. Commit(r, d, q, rows[r][d], "resolve")
    BY Zenon, <1>2 DEF Resolve, Execute, PolicyRow, ResourceRows
  <2>3. AdminReads(q) => AdminReads(p)
    <3> SUFFICES ASSUME AdminReads(q) PROVE AdminReads(p)  OBVIOUS
    <3> DEFINE a == "admin_allowed"
    <3>1. q[a] = Write(p[a], NextOp, FALSE) \/ q[a] = p[a]
      BY Zenon, WrittenValues DEF ResolvePolicy, Col
    <3>2. q[a] # {} /\ \A s \in q[a] : s.val  BY Zenon DEF AdminReads, Exists
    <3> HIDE DEF q
    <3>3. q[a] = p[a]  BY Zenon, <3>1, <3>2, WriteFalse
    <3> QED  BY Zenon, <3>2, <3>3 DEF AdminReads, Exists
  <2> HIDE DEF r, d, q
  <2> QED  BY Zenon, <1>1, <2>1, <2>2, <2>3, CommitNoneAdmitted
<1>3. ASSUME NEW k \in Client, ResolveRow(k) PROVE NoneAdmitted
  <2> DEFINE r == calls[k].r
             d == calls[k].d
             res == calls[k].res
             rs == [rows[r][d] EXCEPT ![res] = Write(rows[r][d][res], NextOp, FALSE)]
  <2>1. r \in Replica /\ d \in Device  BY Zenon, <1>1, <1>3, InFlight DEF ResolveRow, Stands
  <2>2. Commit(r, d, policy[r][d], rs, "resolve")
    BY Zenon, <1>3 DEF ResolveRow, WriteRow, Execute, PolicyRow, ResourceRows, ResourceRow
  <2> HIDE DEF r, d, res
  <2>3. \A x \in Resource : rs[x] = rows[r][d][x] \/ rs[x] = {[op |-> NextOp, val |-> FALSE]}
    <3>1. rows[r][d] \in [Resource -> Cell(BOOLEAN)]
      BY Zenon, <1>1, <2>1 DEF StoreInv, StoreTypeOK
    <3>2. \A x \in Resource : \/ rs[x] = rows[r][d][x]
                              \/ rs[x] = Write(rows[r][d][x], NextOp, FALSE)
      BY <3>1
    <3> HIDE DEF rs
    <3> QED  BY Zenon, <3>2, WriteCases
  <2>4. [op |-> NextOp, val |-> FALSE].val = FALSE  OBVIOUS
  <2> HIDE DEF rs
  <2>5. \A x \in Resource : IsSelected(rs[x]) => IsSelected(rows[r][d][x])
    BY Zenon, <2>3, <2>4 DEF IsSelected
  <2> QED  BY Zenon, <1>1, <2>1, <2>2, <2>5, CommitNoneAdmitted
<1>4. ASSUME NEW k \in Client, RequestStep(k), ~Resolve(k), ~ResolveRow(k) PROVE FALSE
  <2>1. \/ UNCHANGED store
        \/ \E r, d, p, rs :
             \E act \in {"choose", "select", "deselect", "unselect", "restrict", "allow"} :
               Commit(r, d, p, rs, act)
    <3>1. CASE UpdatePolicy(k)  BY Zenon, <3>1 DEF UpdatePolicy, Execute
    <3>2. CASE InsertRow(k)  BY Zenon, <3>2 DEF InsertRow, Execute
    <3>3. CASE WriteAdminAllowed(k)  BY Zenon, <3>3 DEF WriteAdminAllowed, Execute
    <3>4. CASE DeselectAll(k)  BY Zenon, <3>4 DEF DeselectAll, Execute
    <3>5. CASE SelectRow(k)  BY Zenon, <3>5 DEF SelectRow, WriteRow, Execute
    <3>6. CASE UnselectRow(k)  BY Zenon, <3>6 DEF UnselectRow, WriteRow, Execute
    <3> QED
      BY Zenon, <1>4, <3>1, <3>2, <3>3, <3>4, <3>5, <3>6
         DEF RequestStep, ReadConflicts, ReadRowConflicts, ReadPolicy, Clear, ReadRow
  <2>2. CASE UNCHANGED store  BY Zenon, <2>2 DEF store
  <2>3. ASSUME NEW r, NEW d, NEW p, NEW rs,
               NEW act \in {"choose", "select", "deselect", "unselect", "restrict", "allow"},
               Commit(r, d, p, rs, act)
        PROVE  FALSE
    <3>1. hist'[NextOp].act = act  BY Zenon, <1>1, <2>3, CommitAct
    <3> QED  BY <3>1
  <2> QED  BY Zenon, <2>1, <2>2, <2>3
<1>5. UNCHANGED hist => FALSE  BY Zenon
<1> QED
  BY Zenon, <1>2, <1>3, <1>4, <1>5 DEF Next, FirstRead, ReadConflicts, ReadAnyConflicts,
     ReadRowConflicts, Sync, Crash, store, vars

\* Whoever resolves conflicts, in a read or in a request refused afterwards, and however
\* stale the reading of them was, turns no answer of replication_admission from no into
\* yes, at any replica and for any number of them: it can only make readable a policy
\* that was not (resolve_convergent_conflicts, resource_selected, deselect_owned).
THEOREM ResolvingAdmitsNothing == Spec => ResolvingNeverAdmits
<1>1. IInv /\ [Next]_vars =>
        [hist' # hist /\ hist'[NextOp].act = "resolve" =>
           \A r \in Replica, d \in Device, res \in Resource :
             Readable(r, d) /\ Admitted(r, d, res)' => Admitted(r, d, res)]_vars
  BY Zenon, NextResolving DEF NoneAdmitted
<1> QED  BY Invariance, <1>1, PTL DEF Spec, ResolvingNeverAdmits

-----------------------------------------------------------------------------
(* Users, passwords and recoveries                                         *)

CallRecord ==
  [pc : {"idle", "resetRead", "deactivate", "updateUser", "contactRead", "contactWrite",
         "demote", "byHandle", "byEmail", "byId", "password", "principal", "issue"},
   user : Nat, todo : SUBSET Nat, found : SUBSET Nat, target : Nat, kind : {"email", "phone"},
   address : SUBSET (Handle \cup Address), phone : SUBSET Address, alone : BOOLEAN,
   stale : SUBSET Nat]

\* At most one address.
Single(addresses) == addresses \subseteq Address /\ \A a, b \in addresses : a = b

\* A reset has deactivated what it has found and no longer has to do.
ResetOK(x) ==
  x.pc = "deactivate" =>
    /\ x.todo \subseteq x.found /\ x.found \subseteq CredentialsOf(x.user)
    /\ (x.found \ x.todo) \cap active = {}

\* A login authenticated with a password of the user that was not replaced before it began.
LoginOK(x) ==
  /\ x.stale \subseteq retired
  /\ x.pc \in {"principal", "issue"} => x.target \in CredentialsOf(x.user) \ x.stale

\* An upsert knows the addresses of its user, all of them if it is alone.
UpsertOK(x) ==
  /\ x.pc \in {"updateUser", "contactRead", "contactWrite"} => Single(x.address)
  /\ x.pc \in {"updateUser", "contactRead", "contactWrite", "demote"} => Single(x.phone)
  /\ x.pc = "contactWrite" => x.address # {}
  /\ x.pc \in {"contactWrite", "demote"} =>
       /\ x.todo \subseteq ContactsOf(x.user, x.kind)
       /\ x.target # 0 => x.target \in ContactsOf(x.user, x.kind) \ x.todo
  /\ (x.pc = "contactWrite" /\ x.alone) =>
       ContactsOf(x.user, x.kind) \subseteq x.todo \cup {x.target}
  /\ x.pc = "demote" => x.target # 0
  /\ (x.pc = "demote" /\ x.alone) =>
       /\ x.target \in primary
       /\ ContactsOf(x.user, x.kind) \cap primary \subseteq x.todo \cup {x.target}

CallOK(x) ==
  /\ x \in CallRecord
  /\ x.user \in DOMAIN accounts \cup {0}
  /\ x.pc \notin {"idle", "byHandle", "byEmail"} => x.user \in DOMAIN accounts
  /\ ResetOK(x) /\ LoginOK(x) /\ UpsertOK(x)

AccountRowsOK ==
  /\ accounts \in Seq(UserRow) /\ users \subseteq DOMAIN accounts
  /\ credentials \in Seq(CredentialRow) /\ active \cup retired \subseteq DOMAIN credentials
  /\ contacts \in Seq(EmailRow \cup PhoneRow) /\ primary \subseteq DOMAIN contacts
  /\ \A i \in DOMAIN credentials : credentials[i].user \in DOMAIN accounts
  /\ \A i \in DOMAIN contacts : contacts[i].user \in DOMAIN accounts
  /\ \A i, j \in DOMAIN contacts : contacts[i] = contacts[j] => i = j
  /\ halted \subseteq DOMAIN accounts
  /\ active \cap retired = {}

CallsOK == DOMAIN tasks = Call /\ \A c \in Call : CallOK(tasks[c])

AccountInv == AccountRowsOK /\ CallsOK /\ ResetLeavesPassword

LEMMA NoCallOK == CallOK(NoCall)
<1>1. /\ NoCall \in CallRecord /\ NoCall.pc = "idle" /\ NoCall.user = 0 /\ NoCall.stale = {}
  BY Zenon DEF NoCall, CallRecord
<1>. QED BY Zenon, <1>1 DEF CallOK, ResetOK, LoginOK, UpsertOK

LEMMA AccountInitInv == AccountInit => AccountInv
<1>. SUFFICES ASSUME AccountInit PROVE AccountInv BY Zenon
<1>1. AccountRowsOK BY DEF AccountInit, AccountRowsOK
<1>2. DOMAIN tasks = Call /\ \A c \in Call : tasks[c] = NoCall BY Zenon DEF AccountInit
<1>3. CallsOK BY <1>2, NoCallOK, Zenon DEF CallsOK
<1>4. DOMAIN accounts = {} BY DEF AccountInit
<1>5. ResetLeavesPassword BY <1>4, Zenon DEF ResetLeavesPassword
<1>. QED BY <1>1, <1>3, <1>5, Zenon DEF AccountInv

\* A request that does not change stays as it is while rows are added.
LEMMA ResetKept ==
  ASSUME NEW x, ResetOK(x), x.pc = "deactivate" => CredentialsOf(x.user) \subseteq CredentialsOf(x.user)',
         active' \cap DOMAIN credentials \subseteq active
  PROVE ResetOK(x)'
<1>1. CredentialsOf(x.user) \subseteq DOMAIN credentials BY Zenon DEF CredentialsOf
<1>. QED BY <1>1, Zenon DEF ResetOK

LEMMA LoginKept ==
  ASSUME NEW x, LoginOK(x), CredentialsOf(x.user) \subseteq CredentialsOf(x.user)',
         retired \subseteq retired'
  PROVE LoginOK(x)'
BY Zenon DEF LoginOK

LEMMA UpsertKept ==
  ASSUME NEW x, UpsertOK(x), contacts' = contacts, primary' = primary
  PROVE UpsertOK(x)'
<1>1. ContactsOf(x.user, x.kind)' = ContactsOf(x.user, x.kind) BY Zenon DEF ContactsOf
<1>. QED BY <1>1, Zenon DEF UpsertOK

LEMMA CallKept ==
  ASSUME NEW x, CallOK(x), DOMAIN accounts \subseteq DOMAIN accounts',
         CredentialsOf(x.user) \subseteq CredentialsOf(x.user)',
         active' \cap DOMAIN credentials \subseteq active, retired \subseteq retired',
         contacts' = contacts, primary' = primary
  PROVE CallOK(x)'
<1>1. ResetOK(x)' BY ResetKept, Zenon DEF CallOK
<1>2. LoginOK(x)' BY LoginKept, Zenon DEF CallOK
<1>3. UpsertOK(x)' BY UpsertKept, Zenon DEF CallOK
<1>. QED BY <1>1, <1>2, <1>3, Zenon DEF CallOK

LEMMA RowsStay ==
  ASSUME NEW x, CallOK(x), UNCHANGED accountRows
  PROVE CallOK(x)'
<1>1. /\ accounts' = accounts /\ credentials' = credentials /\ active' = active
      /\ retired' = retired /\ contacts' = contacts /\ primary' = primary
  BY Zenon DEF accountRows
<1>2. CredentialsOf(x.user)' = CredentialsOf(x.user) BY <1>1, Zenon DEF CredentialsOf
<1>3. active' \cap DOMAIN credentials \subseteq active BY <1>1, Zenon
<1>. QED BY <1>1, <1>2, <1>3, CallKept, Zenon

LEMMA CallOf ==
  ASSUME AccountInv, NEW c \in Call
  PROVE CallOK(tasks[c]) /\ tasks[c] \in CallRecord
BY Zenon DEF AccountInv, CallsOK, CallOK

LEMMA Stepped ==
  ASSUME CallsOK, NEW c \in Call, NEW call, Step(c, call)
  PROVE /\ DOMAIN tasks' = Call /\ tasks'[c] = call
        /\ \A d \in Call : d # c => tasks'[d] = tasks[d]
BY Zenon DEF CallsOK, Step

\* A request moves on and the rows stay.
LEMMA Moves ==
  ASSUME AccountInv, NEW c \in Call, NEW call, CallOK(call), tasks[c].pc # "deactivate",
         Step(c, call), UNCHANGED accountRows
  PROVE AccountInv'
<1>0. AccountRowsOK /\ CallsOK /\ ResetLeavesPassword BY Zenon DEF AccountInv
<1>1. /\ DOMAIN tasks' = Call /\ tasks'[c] = call
      /\ \A d \in Call : d # c => tasks'[d] = tasks[d]
  BY <1>0, Stepped, Zenon
<1>2. AccountRowsOK' BY <1>0, Zenon DEF AccountRowsOK, accountRows
<1>3. ASSUME NEW d \in Call PROVE CallOK(tasks[d])'
  <2>1. PICK x : x = tasks'[d] BY Zenon
  <2>2. CallOK(x) BY <2>1, <1>0, <1>1, Zenon DEF CallsOK
  <2>3. CallOK(x)' BY <2>2, RowsStay, Zenon
  <2>. QED BY <2>1, <2>3, Zenon
<1>4. CallsOK' BY <1>1, <1>3, Zenon DEF CallsOK
<1>5. ASSUME NEW u \in DOMAIN accounts'
      PROVE (u \in halted \/ Resetting(u) \/ CredentialsOf(u) \cap active # {})'
  <2>1. u \in DOMAIN accounts /\ halted' = halted /\ active' = active /\ credentials' = credentials
    BY Zenon DEF accountRows
  <2>2. Resetting(u) => Resetting(u)' BY <1>1, Zenon DEF Resetting, At
  <2>3. CredentialsOf(u)' = CredentialsOf(u) BY <2>1, Zenon DEF CredentialsOf
  <2>. QED BY <1>0, <2>1, <2>2, <2>3, Zenon DEF ResetLeavesPassword
<1>6. ResetLeavesPassword' BY <1>5, Zenon DEF ResetLeavesPassword
<1>. QED BY <1>2, <1>4, <1>6, Zenon DEF AccountInv

\* A request that has neither read credentials nor an address to set.
LEMMA QuietOK ==
  ASSUME NEW y \in CallRecord, y.pc \in {"resetRead", "byHandle", "byEmail", "byId", "password"},
         y.user \in DOMAIN accounts \/ (y.user = 0 /\ y.pc \in {"byHandle", "byEmail"}),
         y.stale \subseteq retired
  PROVE CallOK(y)
BY Zenon DEF CallOK, ResetOK, LoginOK, UpsertOK

LEMMA Ids ==
  ASSUME AccountRowsOK
  PROVE /\ DOMAIN accounts \subseteq Nat /\ DOMAIN credentials \subseteq Nat
        /\ DOMAIN contacts \subseteq Nat /\ 0 \notin DOMAIN contacts /\ retired \subseteq Nat
<1>1. accounts \in Seq(UserRow) /\ credentials \in Seq(CredentialRow)
      /\ contacts \in Seq(EmailRow \cup PhoneRow) /\ retired \subseteq DOMAIN credentials
  BY Zenon DEF AccountRowsOK
<1>2. DOMAIN accounts = 1 .. Len(accounts) /\ DOMAIN credentials = 1 .. Len(credentials)
      /\ DOMAIN contacts = 1 .. Len(contacts)
  BY <1>1
<1>. QED BY <1>1, <1>2

LEMMA BeginOK ==
  ASSUME AccountInv, NEW c \in Call, NEW call, Begin(c, call), CallOK(call), UNCHANGED accountRows
  PROVE AccountInv'
<1>1. tasks[c].pc # "deactivate" /\ Step(c, call) BY SMTT(30) DEF Begin, Step, NoCall
<1>. QED BY <1>1, Moves, Zenon

LEMMA DoneOK ==
  ASSUME AccountInv, NEW c \in Call, Done(c), tasks[c].pc # "deactivate", UNCHANGED accountRows
  PROVE AccountInv'
<1>1. Step(c, NoCall) BY Zenon DEF Done, Step
<1>. QED BY <1>1, NoCallOK, Moves, Zenon

LEMMA ResetPasswordStep ==
  ASSUME AccountInv, NEW c \in Call, NEW u \in users, ResetPassword(c, u)
  PROVE AccountInv'
<1>. DEFINE y == [NoCall EXCEPT !.pc = "resetRead", !.user = u]
<1>0. AccountRowsOK BY Zenon DEF AccountInv
<1>1. u \in DOMAIN accounts BY <1>0, Zenon DEF AccountRowsOK
<1>2. u \in Nat BY <1>0, <1>1, Ids, Zenon
<1>3. y \in CallRecord /\ y.pc = "resetRead" /\ y.user = u /\ y.stale = {}
  BY Zenon, <1>2 DEF NoCall, CallRecord
<1>4. Begin(c, y) /\ UNCHANGED accountRows BY Zenon DEF ResetPassword
<1>. HIDE DEF y
<1>5. CallOK(y) BY Zenon, <1>1, <1>3, QuietOK
<1>. QED BY <1>4, <1>5, BeginOK, Zenon

LEMMA LoginStep ==
  ASSUME AccountInv, NEW c \in Call, NEW name \in Handle \cup Address, Login(c, name)
  PROVE AccountInv'
<1>. DEFINE y == [NoCall EXCEPT !.pc = "byHandle", !.address = {name}, !.stale = retired]
<1>0. retired \subseteq Nat BY Ids, Zenon DEF AccountInv
<1>1. y \in CallRecord /\ y.pc = "byHandle" /\ y.user = 0 /\ y.stale = retired
  BY Zenon, <1>0 DEF NoCall, CallRecord
<1>2. Begin(c, y) /\ UNCHANGED accountRows BY Zenon DEF Login
<1>. HIDE DEF y
<1>3. CallOK(y) BY Zenon, <1>1, QuietOK
<1>. QED BY <1>2, <1>3, BeginOK, Zenon

\* Finding the user of a login.
LEMMA FindUserStep ==
  ASSUME AccountInv, NEW c \in Call, ByHandle(c) \/ ByEmail(c) \/ ById(c)
  PROVE AccountInv'
<1>0. AccountRowsOK BY Zenon DEF AccountInv
<1>1. PICK x : x = tasks[c] BY Zenon
<1>2. CallOK(x) /\ x \in CallRecord BY <1>1, CallOf, Zenon
<1>3. x.pc \in {"byHandle", "byEmail", "byId"} /\ UNCHANGED accountRows
  BY Zenon, <1>1 DEF ByHandle, ByEmail, ById, At
<1>4. x.stale \subseteq retired BY <1>2, Zenon DEF CallOK, LoginOK
<1>5. CASE Done(c) BY Zenon, <1>1, <1>3, <1>5, DoneOK
<1>6. ASSUME NEW u \in DOMAIN accounts, NEW p \in {"byId", "password"},
             Step(c, [x EXCEPT !.pc = p, !.user = u, !.address = {}])
      PROVE AccountInv'
  <2>. DEFINE y == [x EXCEPT !.pc = p, !.user = u, !.address = {}]
  <2>1. u \in Nat BY <1>0, Ids, Zenon
  <2>2. y \in CallRecord /\ y.pc = p /\ y.user = u /\ y.stale = x.stale
    BY Zenon, <1>2, <2>1 DEF CallRecord
  <2>3. Step(c, y) BY <1>6, Zenon
  <2>. HIDE DEF y
  <2>4. CallOK(y) BY Zenon, <1>4, <2>2, QuietOK
  <2>. QED BY Zenon, <1>1, <1>3, <2>3, <2>4, Moves
<1>7. CASE ByHandle(c)
  <2>. DEFINE named == {u \in users : accounts[u].handle \in x.address}
              y == [x EXCEPT !.pc = "byEmail"]
  <2>1. CASE named = {}
    <3>1. Step(c, y) /\ x.pc = "byHandle" BY Zenon, <1>1, <1>7, <2>1 DEF ByHandle, At
    <3>2. y \in CallRecord /\ y.pc = "byEmail" /\ y.user = x.user /\ y.stale = x.stale
      BY Zenon, <1>2 DEF CallRecord
    <3>. HIDE DEF y
    <3>3. x.user \in DOMAIN accounts \cup {0} BY <1>2, Zenon DEF CallOK
    <3>4. CallOK(y) BY Zenon, <1>4, <3>2, <3>3, QuietOK
    <3>. QED BY Zenon, <1>1, <1>3, <3>1, <3>4, Moves
  <2>2. CASE named # {}
    <3>1. PICK u \in named : Step(c, [x EXCEPT !.pc = "password", !.user = u, !.address = {}])
      BY Zenon, <1>1, <1>7, <2>2 DEF ByHandle
    <3>2. u \in DOMAIN accounts BY <1>0, <3>1, Zenon DEF AccountRowsOK
    <3>. QED BY <1>6, <3>1, <3>2, Zenon
  <2>. QED BY Zenon, <2>1, <2>2
<1>8. CASE ByEmail(c)
  <2>. DEFINE matching == {i \in DOMAIN contacts : contacts[i].kind = "email"
                                               /\ contacts[i].address \in x.address}
              best == IF matching \cap primary = {} THEN matching ELSE matching \cap primary
  <2>1. CASE matching = {} BY Zenon, <1>1, <1>5, <1>8, <2>1 DEF ByEmail
  <2>2. CASE matching # {}
    <3>1. PICK i \in best : Step(c, [x EXCEPT !.pc = "byId", !.user = contacts[i].user,
                                             !.address = {}])
      BY Zenon, <1>1, <1>8, <2>2 DEF ByEmail
    <3>2. i \in DOMAIN contacts BY Zenon
    <3>3. contacts[i].user \in DOMAIN accounts BY <1>0, <3>2, Zenon DEF AccountRowsOK
    <3>. QED BY <1>6, <3>1, <3>3, Zenon
  <2>. QED BY Zenon, <2>1, <2>2
<1>9. CASE ById(c)
  <2>. DEFINE y == [x EXCEPT !.pc = "password"]
  <2>1. CASE x.user \in users
    <3>1. Step(c, y) BY Zenon, <1>1, <1>9, <2>1 DEF ById, Require
    <3>2. y \in CallRecord /\ y.pc = "password" /\ y.user = x.user /\ y.stale = x.stale
      BY Zenon, <1>2 DEF CallRecord
    <3>. HIDE DEF y
    <3>3. x.user \in DOMAIN accounts BY <1>0, <2>1, Zenon DEF AccountRowsOK
    <3>4. CallOK(y) BY Zenon, <1>4, <3>2, <3>3, QuietOK
    <3>. QED BY Zenon, <1>1, <1>3, <3>1, <3>4, Moves
  <2>2. CASE x.user \notin users BY Zenon, <1>1, <1>5, <1>9, <2>2 DEF ById, Require
  <2>. QED BY Zenon, <2>1, <2>2
<1>. QED BY Zenon, <1>7, <1>8, <1>9

\* Taking a password, checking the principal again, answering.
LEMMA PasswordStep ==
  ASSUME AccountInv, NEW c \in Call, FindPassword(c) \/ FindPrincipal(c) \/ IssueTokens(c)
  PROVE AccountInv'
<1>0. AccountRowsOK BY Zenon DEF AccountInv
<1>1. PICK x : x = tasks[c] BY Zenon
<1>2. CallOK(x) /\ x \in CallRecord BY <1>1, CallOf, Zenon
<1>3. x.pc \in {"password", "principal", "issue"} /\ UNCHANGED accountRows
  BY Zenon, <1>1 DEF FindPassword, FindPrincipal, IssueTokens, At
<1>4. x.stale \subseteq retired /\ x.user \in DOMAIN accounts
  BY Zenon, <1>2, <1>3 DEF CallOK, LoginOK
<1>5. CASE Done(c) BY Zenon, <1>1, <1>3, <1>5, DoneOK
<1>6. ASSUME NEW y \in CallRecord, y.pc \in {"principal", "issue"}, y.user = x.user,
             y.stale = x.stale, y.target \in CredentialsOf(x.user) \ x.stale
      PROVE CallOK(y)
  BY Zenon, <1>4, <1>6 DEF CallOK, ResetOK, LoginOK, UpsertOK
<1>7. CASE FindPassword(c) /\ ~Done(c)
  <2>1. PICK i \in CredentialsOf(x.user) \cap active :
          Step(c, [x EXCEPT !.pc = "principal", !.target = i])
    BY <1>1, <1>7, Zenon DEF FindPassword
  <2>. DEFINE y == [x EXCEPT !.pc = "principal", !.target = i]
  <2>2. i \in Nat /\ i \notin x.stale
    <3>1. i \in DOMAIN credentials BY Zenon DEF CredentialsOf
    <3>2. i \notin retired BY <1>0, Zenon DEF AccountRowsOK
    <3>. QED BY <1>0, <1>4, <3>1, <3>2, Ids, Zenon
  <2>3. y \in CallRecord /\ y.pc = "principal" /\ y.user = x.user /\ y.stale = x.stale
        /\ y.target = i
    BY Zenon, <1>2, <2>2 DEF CallRecord
  <2>. HIDE DEF y
  <2>4. CallOK(y) BY Zenon, <1>6, <2>2, <2>3
  <2>5. Step(c, y) BY Zenon, <2>1 DEF y
  <2>. QED BY Zenon, <1>1, <1>3, <2>4, <2>5, Moves
<1>8. CASE FindPrincipal(c) /\ ~Done(c)
  <2>. DEFINE y == [x EXCEPT !.pc = "issue"]
  <2>1. Step(c, y) /\ x.pc = "principal" BY <1>1, <1>8, Zenon DEF FindPrincipal, Require, At
  <2>2. x.target \in CredentialsOf(x.user) \ x.stale BY Zenon, <1>2, <2>1 DEF CallOK, LoginOK
  <2>3. y \in CallRecord /\ y.pc = "issue" /\ y.user = x.user /\ y.stale = x.stale
        /\ y.target = x.target
    BY Zenon, <1>2 DEF CallRecord
  <2>. HIDE DEF y
  <2>4. CallOK(y) BY Zenon, <1>6, <2>2, <2>3
  <2>. QED BY Zenon, <1>1, <1>3, <2>1, <2>4, Moves
<1>. QED BY <1>5, <1>7, <1>8, Zenon DEF IssueTokens

LEMMA ReadCredentialsStep ==
  ASSUME AccountInv, NEW c \in Call, ReadCredentials(c)
  PROVE AccountInv'
<1>1. PICK x : x = tasks[c] BY Zenon
<1>2. CallOK(x) /\ x \in CallRecord BY <1>1, CallOf, Zenon
<1>. DEFINE y == [x EXCEPT !.pc = "deactivate", !.todo = CredentialsOf(x.user),
                           !.found = CredentialsOf(x.user)]
<1>3. x.pc = "resetRead" /\ Step(c, y) /\ UNCHANGED accountRows
  BY <1>1, Zenon DEF ReadCredentials, At
<1>4. CredentialsOf(x.user) \subseteq Nat
  <2>1. CredentialsOf(x.user) \subseteq DOMAIN credentials BY Zenon DEF CredentialsOf
  <2>. QED BY <2>1, Ids, Zenon DEF AccountInv
<1>5. y \in CallRecord /\ y.pc = "deactivate" /\ y.user = x.user /\ y.stale = x.stale
      /\ y.todo = CredentialsOf(x.user) /\ y.found = CredentialsOf(x.user)
  BY Zenon, <1>2, <1>4 DEF CallRecord
<1>. HIDE DEF y
<1>6. x.stale \subseteq retired /\ x.user \in DOMAIN accounts
  BY Zenon, <1>2, <1>3 DEF CallOK, LoginOK
<1>7. ResetOK(y) BY <1>5, Zenon DEF ResetOK
<1>8. CallOK(y) BY Zenon, <1>5, <1>6, <1>7 DEF CallOK, LoginOK, UpsertOK
<1>. QED BY Zenon, <1>1, <1>3, <1>8, Moves

\* A profile update that has not read the addresses it is to change.
LEMMA UpdateOK ==
  ASSUME NEW y \in CallRecord, y.pc \in {"updateUser", "contactRead"}, y.user \in DOMAIN accounts,
         y.stale \subseteq retired, Single(y.address), Single(y.phone)
  PROVE CallOK(y)
BY Zenon DEF CallOK, ResetOK, LoginOK, UpsertOK

LEMMA UpdateUserInfoStep ==
  ASSUME AccountInv, NEW c \in Call, NEW u \in users, NEW e \in Contact, UpdateUserInfo(c, u, e)
  PROVE AccountInv'
<1>. DEFINE y == [NoCall EXCEPT !.pc = "updateUser", !.user = u,
                                !.address = e.email, !.phone = e.phone]
<1>0. AccountRowsOK BY Zenon DEF AccountInv
<1>1. u \in DOMAIN accounts BY <1>0, Zenon DEF AccountRowsOK
<1>2. u \in Nat BY <1>0, <1>1, Ids, Zenon
<1>3. Single(e.email) /\ Single(e.phone) BY Zenon, ContactAssumption DEF Single
<1>4. e.email \subseteq Address /\ e.phone \subseteq Address BY <1>3, Zenon DEF Single
<1>5. y \in CallRecord /\ y.pc = "updateUser" /\ y.user = u /\ y.stale = {}
      /\ y.address = e.email /\ y.phone = e.phone
  BY Zenon, <1>2, <1>4 DEF NoCall, CallRecord
<1>6. Begin(c, y) /\ UNCHANGED accountRows BY Zenon DEF UpdateUserInfo
<1>. HIDE DEF y
<1>7. CallOK(y) BY Zenon, <1>1, <1>3, <1>5, UpdateOK
<1>. QED BY <1>6, <1>7, BeginOK, Zenon

LEMMA UpdateUserStep ==
  ASSUME AccountInv, NEW c \in Call, UpdateUser(c)
  PROVE AccountInv'
<1>1. PICK x : x = tasks[c] BY Zenon
<1>2. CallOK(x) /\ x \in CallRecord BY <1>1, CallOf, Zenon
<1>. DEFINE y == [x EXCEPT !.pc = "contactRead"]
<1>3. x.pc = "updateUser" /\ UNCHANGED accountRows /\ (Step(c, y) \/ Done(c))
  BY <1>1, Zenon DEF UpdateUser, Require, At
<1>4. y \in CallRecord /\ y.pc = "contactRead" /\ y.user = x.user /\ y.stale = x.stale
      /\ y.address = x.address /\ y.phone = x.phone
  BY Zenon, <1>2 DEF CallRecord
<1>. HIDE DEF y
<1>5. /\ x.user \in DOMAIN accounts /\ x.stale \subseteq retired
      /\ Single(x.address) /\ Single(x.phone)
  BY Zenon, <1>2, <1>3 DEF CallOK, LoginOK, UpsertOK
<1>6. CallOK(y) BY Zenon, <1>4, <1>5, UpdateOK
<1>7. CASE Step(c, y) BY Zenon, <1>1, <1>3, <1>6, <1>7, Moves
<1>8. CASE Done(c) BY Zenon, <1>1, <1>3, <1>8, DoneOK
<1>. QED BY Zenon, <1>3, <1>7, <1>8

LEMMA NextContactStep ==
  ASSUME AccountInv, NEW c \in Call, NextContact(c)
  PROVE AccountInv'
<1>0. AccountRowsOK BY Zenon DEF AccountInv
<1>1. PICK x : x = tasks[c] BY Zenon
<1>2. CallOK(x) /\ x \in CallRecord BY <1>1, CallOf, Zenon
<1>. DEFINE y == [NoCall EXCEPT !.pc = "contactRead", !.user = x.user,
                                !.kind = "phone", !.address = x.phone]
<1>3. /\ x.pc \in {"contactRead", "demote"} /\ UNCHANGED accountRows /\ (Step(c, y) \/ Done(c))
  BY Zenon, <1>1 DEF NextContact, At
<1>4. x.user \in DOMAIN accounts /\ Single(x.phone)
  BY Zenon, <1>2, <1>3 DEF CallOK, UpsertOK
<1>5. x.user \in Nat /\ x.phone \subseteq Address BY <1>0, <1>4, Ids, Zenon DEF Single
<1>6. y \in CallRecord /\ y.pc = "contactRead" /\ y.user = x.user /\ y.stale = {}
      /\ y.address = x.phone /\ y.phone = {}
  BY Zenon, <1>5 DEF NoCall, CallRecord
<1>. HIDE DEF y
<1>7. Single(y.phone) BY Zenon, <1>6 DEF Single
<1>8. CallOK(y) BY Zenon, <1>4, <1>6, <1>7, UpdateOK
<1>9. CASE Step(c, y) BY Zenon, <1>1, <1>3, <1>8, <1>9, Moves
<1>10. CASE Done(c) BY Zenon, <1>1, <1>3, <1>10, DoneOK
<1>. QED BY Zenon, <1>3, <1>9, <1>10

\* The unique index: a user has an address once.
LEMMA SameContact ==
  ASSUME AccountRowsOK, NEW u, NEW kind, NEW i \in ContactsOf(u, kind), NEW j \in ContactsOf(u, kind),
         contacts[i].address = contacts[j].address
  PROVE i = j
<1>1. i \in DOMAIN contacts /\ j \in DOMAIN contacts
      /\ contacts[i].user = contacts[j].user /\ contacts[i].kind = contacts[j].kind
  BY Zenon DEF ContactsOf
<1>2. contacts[i] \in EmailRow \cup PhoneRow /\ contacts[j] \in EmailRow \cup PhoneRow
  BY SMTT(30), <1>1 DEF AccountRowsOK
<1>3. contacts[i] = contacts[j] BY SMTT(30), <1>1, <1>2 DEF EmailRow, PhoneRow
<1>. QED BY <1>1, <1>3, Zenon DEF AccountRowsOK

LEMMA ReadContactsStep ==
  ASSUME AccountInv, NEW c \in Call, ReadContacts(c)
  PROVE AccountInv'
<1>0. AccountRowsOK BY Zenon DEF AccountInv
<1>1. PICK x : x = tasks[c] BY Zenon
<1>2. CallOK(x) /\ x \in CallRecord BY <1>1, CallOf, Zenon
<1>. DEFINE mine == ContactsOf(x.user, x.kind)
            same == {i \in mine : contacts[i].address \in x.address}
<1>3. x.pc = "contactRead" /\ x.address # {} /\ UNCHANGED accountRows
  BY <1>1, Zenon DEF ReadContacts, At
<1>4. PICK i \in IF same = {} THEN {0} ELSE same :
        Step(c, [x EXCEPT !.pc = "contactWrite", !.target = i, !.todo = mine \ same, !.alone = TRUE])
  BY Zenon, <1>1 DEF ReadContacts
<1>. DEFINE y == [x EXCEPT !.pc = "contactWrite", !.target = i, !.todo = mine \ same, !.alone = TRUE]
<1>5. /\ x.user \in DOMAIN accounts /\ x.stale \subseteq retired
      /\ Single(x.address) /\ Single(x.phone)
  BY Zenon, <1>2, <1>3 DEF CallOK, LoginOK, UpsertOK
<1>6. mine \subseteq DOMAIN contacts BY Zenon DEF ContactsOf
<1>7. mine \subseteq Nat /\ 0 \notin mine BY <1>0, <1>6, Ids, Zenon
<1>8. i \in Nat BY <1>4, <1>7
<1>9. y \in CallRecord /\ y.pc = "contactWrite" /\ y.user = x.user /\ y.stale = x.stale
      /\ y.address = x.address /\ y.phone = x.phone /\ y.target = i /\ y.todo = mine \ same
      /\ y.kind = x.kind
  BY Zenon, <1>2, <1>7, <1>8 DEF CallRecord
<1>10. ASSUME NEW j \in same, NEW k \in same PROVE j = k
  <2>1. contacts[j].address = contacts[k].address BY <1>5, <1>10, Zenon DEF Single
  <2>. QED BY <1>0, <2>1, SameContact, Zenon
<1>11. i # 0 => i \in same BY Zenon, <1>4
<1>12. i # 0 => i \in mine \ (mine \ same) BY <1>11, Zenon
<1>13. same \subseteq {i} BY Zenon, <1>4, <1>10
<1>14. mine \subseteq (mine \ same) \cup {i} BY <1>13, Zenon
<1>. HIDE DEF y, mine, same
<1>15. UpsertOK(y) BY Zenon, <1>3, <1>5, <1>9, <1>12, <1>14 DEF UpsertOK, mine
<1>16. CallOK(y) BY Zenon, <1>5, <1>9, <1>15 DEF CallOK, LoginOK, ResetOK
<1>17. Step(c, y) BY Zenon, <1>4 DEF y
<1>. QED BY Zenon, <1>1, <1>3, <1>16, <1>17, Moves


LEMMA Appended ==
  ASSUME NEW S, NEW s \in Seq(S), NEW e \in S
  PROVE /\ Append(s, e) \in Seq(S)
        /\ DOMAIN s = 1 .. Len(s) /\ Len(s) \in Nat
        /\ DOMAIN Append(s, e) = DOMAIN s \cup {Len(s) + 1} /\ Len(s) + 1 \notin DOMAIN s
        /\ Append(s, e)[Len(s) + 1] = e /\ \A i \in DOMAIN s : Append(s, e)[i] = s[i]
OBVIOUS

\* A credential is added for u.
LEMMA CredentialAdded ==
  ASSUME AccountRowsOK, NEW u \in Nat, credentials' = Append(credentials, [user |-> u])
  PROVE /\ credentials' \in Seq(CredentialRow)
        /\ DOMAIN credentials' = DOMAIN credentials \cup {Len(credentials) + 1}
        /\ Len(credentials) + 1 \notin DOMAIN credentials
        /\ credentials'[Len(credentials) + 1].user = u
        /\ \A i \in DOMAIN credentials : credentials'[i] = credentials[i]
        /\ \A v : CredentialsOf(v) \subseteq CredentialsOf(v)'
        /\ Len(credentials) + 1 \in CredentialsOf(u)'
<1>1. credentials \in Seq(CredentialRow) BY Zenon DEF AccountRowsOK
<1>2. [user |-> u] \in CredentialRow BY Zenon DEF CredentialRow
<1>3. /\ credentials' \in Seq(CredentialRow)
      /\ DOMAIN credentials' = DOMAIN credentials \cup {Len(credentials) + 1}
      /\ Len(credentials) + 1 \notin DOMAIN credentials
      /\ credentials'[Len(credentials) + 1].user = u
      /\ \A i \in DOMAIN credentials : credentials'[i] = credentials[i]
  BY SMTT(30), <1>1, <1>2, Appended
<1>4. ASSUME NEW v, NEW i \in CredentialsOf(v) PROVE i \in CredentialsOf(v)'
  BY Zenon, <1>3, <1>4 DEF CredentialsOf
<1>5. Len(credentials) + 1 \in CredentialsOf(u)' BY Zenon, <1>3 DEF CredentialsOf
<1>. QED BY <1>3, <1>4, <1>5, Zenon

\* Rows are added and no contact changes: the requests that do not move.
LEMMA OthersKept ==
  ASSUME CallsOK, NEW d \in Call, tasks'[d] = tasks[d], DOMAIN accounts \subseteq DOMAIN accounts',
         \A v : CredentialsOf(v) \subseteq CredentialsOf(v)',
         active' \cap DOMAIN credentials \subseteq active, retired \subseteq retired',
         contacts' = contacts, primary' = primary
  PROVE CallOK(tasks[d])'
<1>1. PICK x : x = tasks[d] BY Zenon
<1>2. CallOK(x) BY <1>1, Zenon DEF CallsOK
<1>3. CredentialsOf(x.user) \subseteq CredentialsOf(x.user)' BY Zenon
<1>4. CallOK(x)' BY <1>2, <1>3, CallKept, Zenon
<1>. QED BY <1>1, <1>4, Zenon

LEMMA DeleteUserStep ==
  ASSUME AccountInv, NEW u \in users, DeleteUser(u)
  PROVE AccountInv'
<1>0. AccountRowsOK /\ CallsOK /\ ResetLeavesPassword BY Zenon DEF AccountInv
<1>1. /\ accounts' = accounts /\ users' = users \ {u} /\ credentials' = credentials
      /\ active' = active /\ retired' = retired /\ contacts' = contacts /\ primary' = primary
      /\ halted' = halted /\ tasks' = tasks
  BY Zenon DEF DeleteUser
<1>2. AccountRowsOK' BY <1>0, <1>1, Zenon DEF AccountRowsOK
<1>3. \A v : CredentialsOf(v) \subseteq CredentialsOf(v)' BY <1>1, Zenon DEF CredentialsOf
<1>4. active' \cap DOMAIN credentials \subseteq active BY <1>1, Zenon
<1>5. \A d \in Call : CallOK(tasks[d])' BY <1>0, <1>1, <1>3, <1>4, OthersKept, Zenon
<1>6. CallsOK' BY <1>0, <1>1, <1>5, Zenon DEF CallsOK
<1>7. ResetLeavesPassword'
  BY <1>0, <1>1, Zenon DEF ResetLeavesPassword, Resetting, At, CredentialsOf
<1>. QED BY <1>2, <1>6, <1>7, Zenon DEF AccountInv

LEMMA CreateUserStep ==
  ASSUME AccountInv, NEW h \in Handle, CreateUser(h)
  PROVE AccountInv'
<1>0. AccountRowsOK /\ CallsOK /\ ResetLeavesPassword BY Zenon DEF AccountInv
<1>1. /\ accounts' = Append(accounts, [handle |-> h])
      /\ users' = users \cup {Len(accounts) + 1}
      /\ credentials' = Append(credentials, [user |-> Len(accounts) + 1])
      /\ active' = active \cup {Len(credentials) + 1}
      /\ contacts' = contacts /\ primary' = primary /\ retired' = retired /\ halted' = halted
      /\ tasks' = tasks
  BY Zenon DEF CreateUser
<1>2. accounts \in Seq(UserRow) /\ [handle |-> h] \in UserRow
  BY Zenon, <1>0 DEF AccountRowsOK, UserRow
<1>3. PICK u \in Nat : u = Len(accounts) + 1 BY <1>2
<1>4. PICK k : k = Len(credentials) + 1 BY Zenon
<1>5. accounts' \in Seq(UserRow) /\ DOMAIN accounts' = DOMAIN accounts \cup {u}
  BY Zenon, <1>1, <1>2, <1>3, Appended
<1>6. /\ credentials' \in Seq(CredentialRow)
      /\ DOMAIN credentials' = DOMAIN credentials \cup {k} /\ k \notin DOMAIN credentials
      /\ credentials'[k].user = u
      /\ \A i \in DOMAIN credentials : credentials'[i] = credentials[i]
      /\ \A v : CredentialsOf(v) \subseteq CredentialsOf(v)'
      /\ k \in CredentialsOf(u)'
  BY Zenon, <1>0, <1>1, <1>3, <1>4, CredentialAdded
<1>7. active' = active \cup {k} /\ users' = users \cup {u} BY Zenon, <1>1, <1>3, <1>4
<1>8. AccountRowsOK'
  <2>1. users' \subseteq DOMAIN accounts' BY <1>0, <1>5, <1>7, Zenon DEF AccountRowsOK
  <2>2. active' \cup retired' \subseteq DOMAIN credentials'
    BY <1>0, <1>1, <1>6, <1>7, Zenon DEF AccountRowsOK
  <2>3. \A i \in DOMAIN credentials' : credentials'[i].user \in DOMAIN accounts'
    BY <1>0, <1>5, <1>6, Zenon DEF AccountRowsOK
  <2>4. halted' \subseteq DOMAIN accounts' /\ \A i \in DOMAIN contacts' : contacts'[i].user \in DOMAIN accounts'
    BY <1>0, <1>1, <1>5, Zenon DEF AccountRowsOK
  <2>5. active' \cap retired' = {} BY <1>0, <1>1, <1>6, <1>7, ZenonT(30) DEF AccountRowsOK
  <2>. QED BY <1>0, <1>1, <1>5, <1>6, <2>1, <2>2, <2>3, <2>4, <2>5, Zenon DEF AccountRowsOK
<1>9. active' \cap DOMAIN credentials \subseteq active BY <1>6, <1>7, Zenon
<1>10. DOMAIN accounts \subseteq DOMAIN accounts' BY <1>5, Zenon
<1>11. \A d \in Call : CallOK(tasks[d])' BY <1>0, <1>1, <1>6, <1>9, <1>10, OthersKept, Zenon
<1>12. CallsOK' BY <1>0, <1>1, <1>11, Zenon DEF CallsOK
<1>13. ASSUME NEW v \in DOMAIN accounts'
       PROVE (v \in halted \/ Resetting(v) \/ CredentialsOf(v) \cap active # {})'
  <2>1. CASE v = u BY <1>6, <1>7, <2>1, Zenon
  <2>2. CASE v \in DOMAIN accounts
    <3>1. Resetting(v) => Resetting(v)' BY <1>1, Zenon DEF Resetting, At
    <3>2. CredentialsOf(v) \cap active \subseteq CredentialsOf(v)' \cap active'
      BY <1>6, <1>7, Zenon
    <3>3. v \in halted \/ Resetting(v) \/ CredentialsOf(v) \cap active # {}
      BY <1>0, <2>2, Zenon DEF ResetLeavesPassword
    <3>. QED BY <1>1, <3>1, <3>2, <3>3, Zenon
  <2>. QED BY <1>5, <2>1, <2>2, Zenon
<1>14. ResetLeavesPassword' BY <1>13, Zenon DEF ResetLeavesPassword
<1>. QED BY <1>8, <1>12, <1>14, Zenon DEF AccountInv

LEMMA DeactivateStep ==
  ASSUME AccountInv, NEW c \in Call, Deactivate(c)
  PROVE AccountInv'
<1>0. AccountRowsOK /\ CallsOK /\ ResetLeavesPassword BY Zenon DEF AccountInv
<1>1. PICK x : x = tasks[c] BY Zenon
<1>2. CallOK(x) /\ x \in CallRecord BY <1>1, CallOf, Zenon
<1>3. PICK i \in x.todo : active' = active \ {i} /\ Step(c, [x EXCEPT !.todo = x.todo \ {i}])
  BY Zenon, <1>1 DEF Deactivate
<1>4. /\ accounts' = accounts /\ users' = users /\ credentials' = credentials
      /\ contacts' = contacts /\ primary' = primary /\ retired' = retired /\ halted' = halted
      /\ x.pc = "deactivate"
  BY <1>1, Zenon DEF Deactivate, At
<1>5. PICK y : y = [x EXCEPT !.todo = x.todo \ {i}] BY Zenon
<1>6. y \in CallRecord /\ y.pc = "deactivate" /\ y.user = x.user /\ y.stale = x.stale
      /\ y.todo = x.todo \ {i} /\ y.found = x.found
  BY Zenon, <1>2, <1>4, <1>5 DEF CallRecord
<1>7. Step(c, y) BY Zenon, <1>3, <1>5
<1>8. \A v : CredentialsOf(v)' = CredentialsOf(v) BY <1>4, Zenon DEF CredentialsOf
<1>9. /\ x.user \in DOMAIN accounts /\ x.stale \subseteq retired
      /\ x.todo \subseteq x.found /\ x.found \subseteq CredentialsOf(x.user)
      /\ (x.found \ x.todo) \cap active = {}
  BY Zenon, <1>2, <1>4 DEF CallOK, LoginOK, ResetOK
<1>10. ResetOK(y)' BY <1>3, <1>6, <1>8, <1>9, Zenon DEF ResetOK
<1>11. CallOK(y)' BY Zenon, <1>4, <1>6, <1>9, <1>10 DEF CallOK, LoginOK, UpsertOK
<1>12. /\ DOMAIN tasks' = Call /\ tasks'[c] = y
       /\ \A d \in Call : d # c => tasks'[d] = tasks[d]
  BY <1>0, <1>7, Stepped, Zenon
<1>13. active' \cap DOMAIN credentials \subseteq active BY <1>3, Zenon
<1>14. \A d \in Call : d # c => CallOK(tasks[d])'
  BY <1>0, <1>4, <1>8, <1>12, <1>13, OthersKept, Zenon
<1>15. CallsOK' BY <1>11, <1>12, <1>14, Zenon DEF CallsOK
<1>16. AccountRowsOK' BY <1>0, <1>3, <1>4, Zenon DEF AccountRowsOK
<1>17. ASSUME NEW v \in DOMAIN accounts'
       PROVE (v \in halted \/ Resetting(v) \/ CredentialsOf(v) \cap active # {})'
  <2>1. Resetting(x.user)' BY <1>6, <1>12, Zenon DEF Resetting, At
  <2>2. CASE v # x.user
    <3>1. i \notin CredentialsOf(v)
      <4>1. i \in CredentialsOf(x.user) BY <1>9, Zenon
      <4>. QED BY <2>2, <4>1, Zenon DEF CredentialsOf
    <3>2. Resetting(v) => Resetting(v)' BY <1>1, <2>2, <1>12, Zenon DEF Resetting, At
    <3>. QED BY <1>0, <1>3, <1>4, <1>8, <3>1, <3>2, Zenon DEF ResetLeavesPassword
  <2>. QED BY <2>1, <2>2, Zenon
<1>18. ResetLeavesPassword' BY <1>17, Zenon DEF ResetLeavesPassword
<1>. QED BY <1>15, <1>16, <1>18, Zenon DEF AccountInv

LEMMA InsertCredentialStep ==
  ASSUME AccountInv, NEW c \in Call, InsertCredential(c)
  PROVE AccountInv'
<1>0. AccountRowsOK /\ CallsOK /\ ResetLeavesPassword BY Zenon DEF AccountInv
<1>1. PICK x : x = tasks[c] BY Zenon
<1>2. CallOK(x) /\ x \in CallRecord BY <1>1, CallOf, Zenon
<1>3. PICK u \in Nat : u = x.user BY Zenon, <1>2 DEF CallRecord
<1>4. PICK k : k = Len(credentials) + 1 BY Zenon
<1>5. /\ x.pc = "deactivate" /\ x.todo = {}
      /\ credentials' = Append(credentials, [user |-> u]) /\ active' = active \cup {k}
      /\ retired' = retired \cup x.found /\ halted' = halted \ {u} /\ Step(c, NoCall)
      /\ accounts' = accounts /\ users' = users /\ contacts' = contacts /\ primary' = primary
  BY Zenon, <1>1, <1>3, <1>4 DEF InsertCredential, At, Done, Step
<1>6. /\ credentials' \in Seq(CredentialRow)
      /\ DOMAIN credentials' = DOMAIN credentials \cup {k} /\ k \notin DOMAIN credentials
      /\ credentials'[k].user = u
      /\ \A i \in DOMAIN credentials : credentials'[i] = credentials[i]
      /\ \A v : CredentialsOf(v) \subseteq CredentialsOf(v)'
      /\ k \in CredentialsOf(u)'
  BY Zenon, <1>0, <1>4, <1>5, CredentialAdded
<1>7. u \in DOMAIN accounts /\ x.found \subseteq CredentialsOf(u) /\ x.found \cap active = {}
  BY Zenon, <1>2, <1>3, <1>5 DEF CallOK, ResetOK
<1>8. x.found \subseteq DOMAIN credentials BY <1>7, Zenon DEF CredentialsOf
<1>9. AccountRowsOK' BY <1>0, <1>5, <1>6, <1>7, <1>8, ZenonT(30) DEF AccountRowsOK
<1>10. active' \cap DOMAIN credentials \subseteq active BY <1>5, <1>6, Zenon
<1>11. retired \subseteq retired' /\ DOMAIN accounts \subseteq DOMAIN accounts' BY <1>5, Zenon
<1>12. /\ DOMAIN tasks' = Call /\ tasks'[c] = NoCall
       /\ \A d \in Call : d # c => tasks'[d] = tasks[d]
  BY <1>0, <1>5, Stepped, Zenon
<1>13. CallOK(tasks[c])'
  <2>1. CallOK(NoCall)' BY NoCallOK, PTL
  <2>. QED BY <1>12, <2>1, Zenon
<1>14. \A d \in Call : d # c => CallOK(tasks[d])'
  BY <1>0, <1>5, <1>6, <1>10, <1>11, <1>12, OthersKept, Zenon
<1>15. CallsOK' BY <1>12, <1>13, <1>14, Zenon DEF CallsOK
<1>16. ASSUME NEW v \in DOMAIN accounts'
       PROVE (v \in halted \/ Resetting(v) \/ CredentialsOf(v) \cap active # {})'
  <2>1. CASE v = u BY <1>5, <1>6, <2>1, Zenon
  <2>2. CASE v # u
    <3>1. Resetting(v) => Resetting(v)' BY <1>1, <1>3, <2>2, <1>12, Zenon DEF Resetting, At
    <3>. QED BY <1>0, <1>5, <1>6, <2>2, <3>1, Zenon DEF ResetLeavesPassword
  <2>. QED BY <2>1, <2>2, Zenon
<1>17. ResetLeavesPassword' BY <1>16, Zenon DEF ResetLeavesPassword
<1>. QED BY <1>9, <1>15, <1>17, Zenon DEF AccountInv

LEMMA AbandonStep ==
  ASSUME AccountInv, NEW c \in Call, Abandon(c)
  PROVE AccountInv'
<1>0. AccountRowsOK /\ CallsOK /\ ResetLeavesPassword BY Zenon DEF AccountInv
<1>1. CASE tasks[c].pc # "deactivate"
  <2>1. UNCHANGED accountRows /\ Done(c) BY Zenon, <1>1 DEF Abandon, At, accountRows
  <2>. QED BY <1>1, <2>1, DoneOK, Zenon
<1>2. CASE tasks[c].pc = "deactivate"
  <2>1. PICK x : x = tasks[c] BY Zenon
  <2>2. CallOK(x) BY <2>1, CallOf, Zenon
  <2>3. /\ halted' = halted \cup {x.user} /\ Step(c, NoCall)
        /\ accounts' = accounts /\ users' = users /\ credentials' = credentials
        /\ active' = active /\ contacts' = contacts /\ primary' = primary /\ retired' = retired
    BY Zenon, <1>2, <2>1 DEF Abandon, At, Done, Step
  <2>4. x.user \in DOMAIN accounts BY Zenon, <1>2, <2>1, <2>2 DEF CallOK
  <2>5. AccountRowsOK' BY <1>0, <2>3, <2>4, Zenon DEF AccountRowsOK
  <2>6. /\ DOMAIN tasks' = Call /\ tasks'[c] = NoCall
        /\ \A d \in Call : d # c => tasks'[d] = tasks[d]
    BY <1>0, <2>3, Stepped, Zenon
  <2>7. \A v : CredentialsOf(v)' = CredentialsOf(v) BY <2>3, Zenon DEF CredentialsOf
  <2>8. active' \cap DOMAIN credentials \subseteq active BY <2>3, Zenon
  <2>9. CallOK(tasks[c])'
    <3>1. CallOK(NoCall)' BY NoCallOK, PTL
    <3>. QED BY <2>6, <3>1, Zenon
  <2>10. \A d \in Call : d # c => CallOK(tasks[d])'
    BY <1>0, <2>3, <2>6, <2>7, <2>8, OthersKept, Zenon
  <2>11. CallsOK' BY <2>6, <2>9, <2>10, Zenon DEF CallsOK
  <2>12. ASSUME NEW v \in DOMAIN accounts'
         PROVE (v \in halted \/ Resetting(v) \/ CredentialsOf(v) \cap active # {})'
    <3>1. CASE v = x.user BY <2>3, <3>1, Zenon
    <3>2. CASE v # x.user
      <4>1. Resetting(v) => Resetting(v)' BY <2>1, <3>2, <2>6, Zenon DEF Resetting, At
      <4>. QED BY <1>0, <2>3, <2>7, <3>2, <4>1, Zenon DEF ResetLeavesPassword
    <3>. QED BY <3>1, <3>2, Zenon
  <2>13. ResetLeavesPassword' BY <2>12, Zenon DEF ResetLeavesPassword
  <2>. QED BY <2>5, <2>11, <2>13, Zenon DEF AccountInv
<1>. QED BY Zenon, <1>1, <1>2


\* A write to the addresses of a user changes the other requests in alone only.
LEMMA Intruded ==
  ASSUME CallsOK, NEW c \in Call, NEW call, Intrude(c, call)
  PROVE /\ DOMAIN tasks' = Call /\ tasks'[c] = call
        /\ \A d \in Call : d # c =>
             /\ tasks'[d] \in CallRecord
             /\ tasks'[d].pc = tasks[d].pc /\ tasks'[d].user = tasks[d].user
             /\ tasks'[d].todo = tasks[d].todo /\ tasks'[d].found = tasks[d].found
             /\ tasks'[d].target = tasks[d].target /\ tasks'[d].kind = tasks[d].kind
             /\ tasks'[d].address = tasks[d].address /\ tasks'[d].phone = tasks[d].phone
             /\ tasks'[d].stale = tasks[d].stale
             /\ tasks'[d].alone =>
                  tasks[d].alone /\ ~(tasks[d].user = call.user /\ tasks[d].kind = call.kind)
<1>1. DOMAIN tasks' = Call /\ tasks'[c] = call BY Zenon DEF Intrude
<1>2. ASSUME NEW d \in Call, d # c
      PROVE /\ tasks'[d] \in CallRecord
            /\ tasks'[d].pc = tasks[d].pc /\ tasks'[d].user = tasks[d].user
            /\ tasks'[d].todo = tasks[d].todo /\ tasks'[d].found = tasks[d].found
            /\ tasks'[d].target = tasks[d].target /\ tasks'[d].kind = tasks[d].kind
            /\ tasks'[d].address = tasks[d].address /\ tasks'[d].phone = tasks[d].phone
            /\ tasks'[d].stale = tasks[d].stale
            /\ tasks'[d].alone =>
                 tasks[d].alone /\ ~(tasks[d].user = call.user /\ tasks[d].kind = call.kind)
  <2>1. PICK x \in CallRecord : x = tasks[d] BY Zenon DEF CallsOK, CallOK
  <2>2. PICK b \in BOOLEAN : /\ tasks'[d] = [x EXCEPT !.alone = b]
                             /\ b => x.alone /\ ~(x.user = call.user /\ x.kind = call.kind)
    BY Zenon, <1>2, <2>1 DEF Intrude, CallRecord
  <2>3. PICK y : y = [x EXCEPT !.alone = b] BY Zenon
  <2>4. /\ y \in CallRecord /\ y.pc = x.pc /\ y.user = x.user
        /\ y.todo = x.todo /\ y.found = x.found /\ y.target = x.target /\ y.kind = x.kind
        /\ y.address = x.address /\ y.phone = x.phone /\ y.stale = x.stale
    BY Zenon, <2>3 DEF CallRecord
  <2>5. y.alone = b BY Zenon, <2>3 DEF CallRecord
  <2>. QED BY Zenon, <2>1, <2>2, <2>3, <2>4, <2>5
<1>. QED BY <1>1, <1>2, Zenon

\* What another request, x before and y after, knows of the addresses is still true.
LEMMA UpsertIntruded ==
  ASSUME NEW x, NEW y, NEW user, NEW kind, UpsertOK(x),
         y.pc = x.pc /\ y.user = x.user /\ y.todo = x.todo /\ y.target = x.target
           /\ y.kind = x.kind /\ y.address = x.address /\ y.phone = x.phone,
         y.alone => x.alone /\ ~(x.user = user /\ x.kind = kind),
         \A v, k : ContactsOf(v, k) \subseteq ContactsOf(v, k)',
         \A v, k : ~(v = user /\ k = kind) =>
           ContactsOf(v, k)' = ContactsOf(v, k)
           /\ ContactsOf(v, k) \cap primary' = ContactsOf(v, k) \cap primary
  PROVE UpsertOK(y)'
<1>1. ContactsOf(x.user, x.kind) \subseteq ContactsOf(x.user, x.kind)' BY Zenon
<1>2. y.alone => /\ ContactsOf(x.user, x.kind)' = ContactsOf(x.user, x.kind)
                 /\ ContactsOf(x.user, x.kind) \cap primary' = ContactsOf(x.user, x.kind) \cap primary
  BY ZenonT(30)
<1>3. y.pc \in {"contactWrite", "demote"} =>
        /\ y.todo \subseteq ContactsOf(y.user, y.kind)'
        /\ y.target # 0 => y.target \in ContactsOf(y.user, y.kind)' \ y.todo
  BY <1>1, Zenon DEF UpsertOK
<1>4. (y.pc = "contactWrite" /\ y.alone) =>
        ContactsOf(y.user, y.kind)' \subseteq y.todo \cup {y.target}
  BY <1>2, Zenon DEF UpsertOK
<1>5. ASSUME y.pc = "demote", y.alone
      PROVE /\ y.target \in primary'
            /\ ContactsOf(y.user, y.kind)' \cap primary' \subseteq y.todo \cup {y.target}
  <2>1. /\ x.target \in ContactsOf(x.user, x.kind) /\ x.target \in primary
        /\ ContactsOf(x.user, x.kind) \cap primary \subseteq x.todo \cup {x.target}
    BY Zenon, <1>5 DEF UpsertOK
  <2>. QED BY <1>2, <1>5, <2>1, Zenon
<1>6. /\ y.pc \in {"updateUser", "contactRead", "contactWrite"} => Single(y.address)
      /\ y.pc \in {"updateUser", "contactRead", "contactWrite", "demote"} => Single(y.phone)
      /\ y.pc = "contactWrite" => y.address # {}
      /\ y.pc = "demote" => y.target # 0
  BY Zenon DEF UpsertOK
<1>. QED BY <1>3, <1>4, <1>5, <1>6, Zenon DEF UpsertOK

LEMMA IntrudeStep ==
  ASSUME AccountInv, NEW c \in Call, NEW call, Intrude(c, call), tasks[c].pc # "deactivate",
         UNCHANGED <<accounts, credentials, active, retired, halted>>, AccountRowsOK', CallOK(call)',
         \A v, k : ContactsOf(v, k) \subseteq ContactsOf(v, k)',
         \A v, k : ~(v = call.user /\ k = call.kind) =>
           ContactsOf(v, k)' = ContactsOf(v, k)
           /\ ContactsOf(v, k) \cap primary' = ContactsOf(v, k) \cap primary
  PROVE AccountInv'
<1>0. CallsOK /\ ResetLeavesPassword BY Zenon DEF AccountInv
<1>1. /\ DOMAIN tasks' = Call /\ tasks'[c] = call
      /\ \A d \in Call : d # c =>
           /\ tasks'[d] \in CallRecord
           /\ tasks'[d].pc = tasks[d].pc /\ tasks'[d].user = tasks[d].user
           /\ tasks'[d].todo = tasks[d].todo /\ tasks'[d].found = tasks[d].found
           /\ tasks'[d].target = tasks[d].target /\ tasks'[d].kind = tasks[d].kind
           /\ tasks'[d].address = tasks[d].address /\ tasks'[d].phone = tasks[d].phone
           /\ tasks'[d].stale = tasks[d].stale
           /\ tasks'[d].alone =>
                tasks[d].alone /\ ~(tasks[d].user = call.user /\ tasks[d].kind = call.kind)
  BY <1>0, Intruded, ZenonT(30)
<1>2. \A v : CredentialsOf(v)' = CredentialsOf(v) BY Zenon DEF CredentialsOf
<1>3. ASSUME NEW d \in Call, d # c PROVE CallOK(tasks[d])'
  <2>1. PICK x : x = tasks[d] BY Zenon
  <2>2. PICK y : y = tasks'[d] BY Zenon
  <2>3. CallOK(x) BY <1>0, <2>1, Zenon DEF CallsOK
  <2>4. UpsertOK(x) BY <2>3, Zenon DEF CallOK
  <2>5. /\ y.pc = x.pc /\ y.user = x.user /\ y.todo = x.todo /\ y.target = x.target
        /\ y.kind = x.kind /\ y.address = x.address /\ y.phone = x.phone
        /\ y.found = x.found /\ y.stale = x.stale /\ y \in CallRecord
        /\ y.alone => x.alone /\ ~(x.user = call.user /\ x.kind = call.kind)
    BY <1>1, <1>3, <2>1, <2>2, Zenon
  <2>6. UpsertOK(y)' BY SMTT(30), <2>4, <2>5, UpsertIntruded
  <2>7. ResetOK(y)' BY <1>2, <2>3, <2>5, Zenon DEF CallOK, ResetOK
  <2>8. LoginOK(y)' BY <1>2, <2>3, <2>5, Zenon DEF CallOK, LoginOK
  <2>9. CallOK(y)' BY <2>3, <2>5, <2>6, <2>7, <2>8, Zenon DEF CallOK
  <2>. QED BY <2>2, <2>9, Zenon
<1>4. CallsOK' BY <1>1, <1>3, Zenon DEF CallsOK
<1>5. ASSUME NEW v \in DOMAIN accounts'
      PROVE (v \in halted \/ Resetting(v) \/ CredentialsOf(v) \cap active # {})'
  <2>1. Resetting(v) => Resetting(v)' BY <1>1, ZenonT(30) DEF Resetting, At
  <2>2. v \in halted \/ Resetting(v) \/ CredentialsOf(v) \cap active # {}
    BY <1>0, Zenon DEF ResetLeavesPassword
  <2>. QED BY <1>2, <2>1, <2>2, Zenon
<1>6. ResetLeavesPassword' BY <1>5, Zenon DEF ResetLeavesPassword
<1>. QED BY <1>4, <1>6, Zenon DEF AccountInv

\* The mark of one address, i, is set or removed.
LEMMA MarkElsewhere ==
  ASSUME NEW user, NEW kind, NEW i \in ContactsOf(user, kind), contacts' = contacts,
         primary' = primary \cup {i} \/ primary' = primary \ {i}
  PROVE /\ \A v, k : ContactsOf(v, k)' = ContactsOf(v, k)
        /\ \A v, k : ~(v = user /\ k = kind) =>
             ContactsOf(v, k) \cap primary' = ContactsOf(v, k) \cap primary
<1>1. \A v, k : ContactsOf(v, k)' = ContactsOf(v, k) BY Zenon DEF ContactsOf
<1>2. ASSUME NEW v, NEW k, ~(v = user /\ k = kind) PROVE i \notin ContactsOf(v, k)
  BY <1>2, Zenon DEF ContactsOf
<1>. QED BY <1>1, <1>2, Zenon

LEMMA MarkPrimaryStep ==
  ASSUME AccountInv, NEW c \in Call, MarkPrimary(c)
  PROVE AccountInv'
<1>0. AccountRowsOK BY Zenon DEF AccountInv
<1>1. PICK x : x = tasks[c] BY Zenon
<1>2. CallOK(x) /\ x \in CallRecord BY <1>1, CallOf, Zenon
<1>3. PICK y : y = [x EXCEPT !.pc = "demote", !.address = {}] BY Zenon
<1>4. /\ x.pc = "contactWrite" /\ x.target # 0 /\ primary' = primary \cup {x.target}
      /\ Intrude(c, y) /\ contacts' = contacts /\ users' = users
      /\ UNCHANGED <<accounts, credentials, active, retired, halted>>
  BY <1>1, <1>3, Zenon DEF MarkPrimary, At
<1>5. /\ y \in CallRecord /\ y.pc = "demote" /\ y.user = x.user /\ y.stale = x.stale
      /\ y.phone = x.phone /\ y.target = x.target /\ y.todo = x.todo /\ y.kind = x.kind
  BY Zenon, <1>2, <1>3 DEF CallRecord
<1>6. y.alone => x.alone BY Zenon, <1>2, <1>3 DEF CallRecord
<1>7. /\ x.user \in DOMAIN accounts /\ x.stale \subseteq retired /\ Single(x.phone)
      /\ x.todo \subseteq ContactsOf(x.user, x.kind)
      /\ x.target \in ContactsOf(x.user, x.kind) \ x.todo
      /\ x.alone => ContactsOf(x.user, x.kind) \subseteq x.todo \cup {x.target}
  BY Zenon, <1>2, <1>4 DEF CallOK, LoginOK, UpsertOK
<1>8. /\ \A v, k : ContactsOf(v, k)' = ContactsOf(v, k)
      /\ \A v, k : ~(v = x.user /\ k = x.kind) =>
           ContactsOf(v, k) \cap primary' = ContactsOf(v, k) \cap primary
  BY SMTT(30), <1>4, <1>7, MarkElsewhere
<1>9. x.target \in DOMAIN contacts BY <1>7, Zenon DEF ContactsOf
<1>10. AccountRowsOK' BY <1>0, <1>4, <1>9, Zenon DEF AccountRowsOK
<1>11. UpsertOK(y)'
  <2>1. ContactsOf(y.user, y.kind)' = ContactsOf(x.user, x.kind) BY <1>5, <1>8, Zenon
  <2>. QED BY Zenon, <1>4, <1>5, <1>6, <1>7, <2>1 DEF UpsertOK
<1>12. CallOK(y)' BY Zenon, <1>4, <1>5, <1>7, <1>11 DEF CallOK, LoginOK, ResetOK
<1>13. tasks[c].pc # "deactivate" BY Zenon, <1>1, <1>4
<1>. QED BY <1>4, <1>5, <1>8, <1>10, <1>12, <1>13, IntrudeStep, Zenon

LEMMA DemoteStep ==
  ASSUME AccountInv, NEW c \in Call, Demote(c)
  PROVE AccountInv'
<1>0. AccountRowsOK BY Zenon DEF AccountInv
<1>1. PICK x : x = tasks[c] BY Zenon
<1>2. CallOK(x) /\ x \in CallRecord BY <1>1, CallOf, Zenon
<1>3. PICK i \in x.todo : /\ primary' = primary \ {i}
                          /\ Intrude(c, [x EXCEPT !.todo = x.todo \ {i}])
  BY Zenon, <1>1 DEF Demote
<1>4. PICK y : y = [x EXCEPT !.todo = x.todo \ {i}] BY Zenon
<1>5. /\ x.pc = "demote" /\ Intrude(c, y) /\ contacts' = contacts /\ users' = users
      /\ UNCHANGED <<accounts, credentials, active, retired, halted>>
  BY <1>1, <1>3, <1>4, Zenon DEF Demote, At
<1>6. /\ y \in CallRecord /\ y.pc = "demote" /\ y.user = x.user /\ y.stale = x.stale
      /\ y.phone = x.phone /\ y.target = x.target /\ y.todo = x.todo \ {i} /\ y.kind = x.kind
  BY Zenon, <1>2, <1>4, <1>5 DEF CallRecord
<1>7. y.alone => x.alone BY Zenon, <1>2, <1>4 DEF CallRecord
<1>8. /\ x.user \in DOMAIN accounts /\ x.stale \subseteq retired /\ Single(x.phone)
      /\ x.todo \subseteq ContactsOf(x.user, x.kind) /\ x.target # 0
      /\ x.target \in ContactsOf(x.user, x.kind) \ x.todo
      /\ x.alone => /\ x.target \in primary
                    /\ ContactsOf(x.user, x.kind) \cap primary \subseteq x.todo \cup {x.target}
  BY Zenon, <1>2, <1>5 DEF CallOK, LoginOK, UpsertOK
<1>9. /\ \A v, k : ContactsOf(v, k)' = ContactsOf(v, k)
      /\ \A v, k : ~(v = x.user /\ k = x.kind) =>
           ContactsOf(v, k) \cap primary' = ContactsOf(v, k) \cap primary
  <2>1. i \in ContactsOf(x.user, x.kind) BY <1>8, Zenon
  <2>. QED BY <1>3, <1>5, <2>1, MarkElsewhere
<1>10. AccountRowsOK' BY <1>0, <1>3, <1>5, Zenon DEF AccountRowsOK
<1>11. UpsertOK(y)'
  <2>1. ContactsOf(y.user, y.kind)' = ContactsOf(x.user, x.kind) BY <1>6, <1>9, Zenon
  <2>. QED BY <1>3, <1>6, <1>7, <1>8, <2>1 DEF UpsertOK
<1>12. CallOK(y)' BY Zenon, <1>5, <1>6, <1>8, <1>11 DEF CallOK, LoginOK, ResetOK
<1>13. tasks[c].pc # "deactivate" BY Zenon, <1>1, <1>5
<1>. QED BY <1>5, <1>6, <1>9, <1>10, <1>12, <1>13, IntrudeStep, Zenon

\* A row that is not there yet is added for its user and its kind.
LEMMA ContactAdded ==
  ASSUME AccountRowsOK, NEW row \in EmailRow \cup PhoneRow, row.user \in DOMAIN accounts,
         \A i \in DOMAIN contacts : contacts[i] # row,
         contacts' = Append(contacts, row), primary' = primary \cup {Len(contacts) + 1},
         UNCHANGED <<accounts, users, credentials, active, retired, halted>>
  PROVE /\ AccountRowsOK' /\ Len(contacts) + 1 \in Nat \ {0} /\ Len(contacts) + 1 \notin DOMAIN contacts
        /\ \A v, k : ContactsOf(v, k) \subseteq ContactsOf(v, k)'
        /\ \A v, k : ~(v = row.user /\ k = row.kind) =>
             ContactsOf(v, k)' = ContactsOf(v, k)
             /\ ContactsOf(v, k) \cap primary' = ContactsOf(v, k) \cap primary
        /\ ContactsOf(row.user, row.kind)' =
             ContactsOf(row.user, row.kind) \cup {Len(contacts) + 1}
<1>1. contacts \in Seq(EmailRow \cup PhoneRow) BY Zenon DEF AccountRowsOK
<1>2. PICK n : n = Len(contacts) + 1 BY Zenon
<1>3. /\ contacts' \in Seq(EmailRow \cup PhoneRow)
      /\ DOMAIN contacts' = DOMAIN contacts \cup {n} /\ n \notin DOMAIN contacts
      /\ contacts'[n] = row /\ \A i \in DOMAIN contacts : contacts'[i] = contacts[i]
  BY SMTT(30), <1>1, <1>2, Appended
<1>4. n \in Nat \ {0} BY <1>1, <1>2
<1>5. AccountRowsOK'
  <2>1. \A i \in DOMAIN contacts' : contacts'[i].user \in DOMAIN accounts'
    BY <1>3, Zenon DEF AccountRowsOK
  <2>2. \A i, j \in DOMAIN contacts' : contacts'[i] = contacts'[j] => i = j
    BY <1>3, ZenonT(30) DEF AccountRowsOK
  <2>3. primary' \subseteq DOMAIN contacts' BY <1>2, <1>3, Zenon DEF AccountRowsOK
  <2>. QED BY <1>3, <2>1, <2>2, <2>3, Zenon DEF AccountRowsOK
<1>6. \A v, k : ContactsOf(v, k) \subseteq ContactsOf(v, k)' BY <1>3, Zenon DEF ContactsOf
<1>7. ASSUME NEW v, NEW k, ~(v = row.user /\ k = row.kind)
      PROVE /\ ContactsOf(v, k)' = ContactsOf(v, k)
            /\ ContactsOf(v, k) \cap primary' = ContactsOf(v, k) \cap primary
  <2>1. ContactsOf(v, k)' = ContactsOf(v, k) BY Zenon, <1>3, <1>7 DEF ContactsOf
  <2>2. n \notin ContactsOf(v, k) BY <1>3, Zenon DEF ContactsOf
  <2>. QED BY <1>2, <2>1, <2>2, Zenon
<1>8. ContactsOf(row.user, row.kind)' = ContactsOf(row.user, row.kind) \cup {n}
  BY Zenon, <1>3 DEF ContactsOf
<1>. QED BY <1>2, <1>3, <1>4, <1>5, <1>6, <1>7, <1>8, Zenon

LEMMA InsertPrimaryStep ==
  ASSUME AccountInv, NEW c \in Call, InsertPrimary(c)
  PROVE AccountInv'
<1>0. AccountRowsOK BY Zenon DEF AccountInv
<1>1. PICK x : x = tasks[c] BY Zenon
<1>2. CallOK(x) /\ x \in CallRecord BY <1>1, CallOf, Zenon
<1>3. x.pc = "contactWrite" /\ x.target = 0 BY <1>1, Zenon DEF InsertPrimary, At
<1>4. tasks[c].pc # "deactivate" BY Zenon, <1>1, <1>3
<1>5. PICK row : row = [user |-> x.user, kind |-> x.kind,
                        address |-> CHOOSE a \in x.address : TRUE]
  BY Zenon
<1>6. /\ x.user \in DOMAIN accounts /\ x.stale \subseteq retired
      /\ Single(x.phone) /\ Single(x.address) /\ x.address # {}
      /\ x.todo \subseteq ContactsOf(x.user, x.kind)
      /\ x.alone => ContactsOf(x.user, x.kind) \subseteq x.todo \cup {0}
  BY Zenon, <1>2, <1>3 DEF CallOK, LoginOK, UpsertOK
<1>7. CASE Done(c) /\ UNCHANGED <<contacts, primary>>
  <2>1. UNCHANGED accountRows BY Zenon, <1>7 DEF InsertPrimary, accountRows
  <2>. QED BY <1>4, <1>7, <2>1, DoneOK, Zenon
<1>8. CASE /\ \A i \in DOMAIN contacts : contacts[i] # row
           /\ contacts' = Append(contacts, row) /\ primary' = primary \cup {Len(contacts) + 1}
           /\ Intrude(c, [x EXCEPT !.pc = "demote", !.address = {}, !.target = Len(contacts) + 1])
  <2>1. (CHOOSE a \in x.address : TRUE) \in Address BY <1>6, Zenon DEF Single
  <2>2. x.user \in Nat /\ x.kind \in {"email", "phone"} BY Zenon, <1>2 DEF CallRecord
  <2>3. /\ row \in EmailRow \cup PhoneRow /\ row.user = x.user /\ row.kind = x.kind
    BY Zenon, <1>5, <2>1, <2>2 DEF EmailRow, PhoneRow
  <2>4. UNCHANGED <<accounts, users, credentials, active, retired, halted>>
    BY Zenon DEF InsertPrimary
  <2>5. PICK n : n = Len(contacts) + 1 BY Zenon
  <2>6. /\ AccountRowsOK' /\ n \in Nat \ {0} /\ n \notin DOMAIN contacts
        /\ \A v, k : ContactsOf(v, k) \subseteq ContactsOf(v, k)'
        /\ \A v, k : ~(v = x.user /\ k = x.kind) =>
             ContactsOf(v, k)' = ContactsOf(v, k)
             /\ ContactsOf(v, k) \cap primary' = ContactsOf(v, k) \cap primary
        /\ ContactsOf(x.user, x.kind)' = ContactsOf(x.user, x.kind) \cup {n}
    <3>1. row.user \in DOMAIN accounts BY <1>6, <2>3, Zenon
    <3>. QED BY <1>0, <1>8, <2>3, <2>4, <2>5, <3>1, ContactAdded
  <2>7. PICK y : y = [x EXCEPT !.pc = "demote", !.address = {}, !.target = n] BY Zenon
  <2>8. /\ y \in CallRecord /\ y.pc = "demote" /\ y.user = x.user /\ y.stale = x.stale
        /\ y.phone = x.phone /\ y.target = n /\ y.todo = x.todo /\ y.kind = x.kind
    BY Zenon, <1>2, <2>6, <2>7 DEF CallRecord
  <2>9. y.alone => x.alone BY Zenon, <1>2, <2>7 DEF CallRecord
  <2>10. Intrude(c, y) BY <1>8, <2>5, <2>7, Zenon
  <2>11. n \in primary' BY <1>8, <2>5, Zenon
  <2>12. 0 \notin ContactsOf(x.user, x.kind) /\ n \notin x.todo
    <3>1. 0 \notin DOMAIN contacts BY <1>0, Ids, Zenon
    <3>. QED BY <1>6, <2>6, <3>1, Zenon DEF ContactsOf
  <2>13. UpsertOK(y)'
    <3>1. x.todo \subseteq ContactsOf(x.user, x.kind)' BY <1>6, <2>6, Zenon
    <3>2. n \in ContactsOf(x.user, x.kind)' \ x.todo BY <2>6, <2>12, Zenon
    <3>3. x.alone => ContactsOf(x.user, x.kind)' \cap primary' \subseteq x.todo \cup {n}
      BY <1>6, <2>6, <2>12, Zenon
    <3>4. n # 0 BY Zenon, <2>6
    <3>. QED BY Zenon, <1>6, <2>8, <2>9, <2>11, <3>1, <3>2, <3>3, <3>4 DEF UpsertOK
  <2>14. CallOK(y)' BY Zenon, <1>6, <2>4, <2>8, <2>13 DEF CallOK, LoginOK, ResetOK
  <2>. QED BY Zenon, <1>4, <2>4, <2>6, <2>8, <2>10, <2>14, IntrudeStep
<1>9. \/ Done(c) /\ UNCHANGED <<contacts, primary>>
      \/ /\ \A i \in DOMAIN contacts : contacts[i] # row
         /\ contacts' = Append(contacts, row) /\ primary' = primary \cup {Len(contacts) + 1}
         /\ Intrude(c, [x EXCEPT !.pc = "demote", !.address = {}, !.target = Len(contacts) + 1])
  BY Zenon, <1>1, <1>5 DEF InsertPrimary
<1>. QED BY <1>7, <1>8, <1>9, Zenon


LEMMA UpsertStep ==
  ASSUME AccountInv, NEW c \in Call, UpsertEmail(c) \/ UpsertPhone(c)
  PROVE AccountInv'
<1>1. ReadContacts(c) \/ MarkPrimary(c) \/ InsertPrimary(c) \/ Demote(c)
  BY Zenon DEF UpsertEmail, UpsertPhone
<1>. QED BY <1>1, ReadContactsStep, MarkPrimaryStep, InsertPrimaryStep, DemoteStep, Zenon

LEMMA AccountStep == AccountInv /\ [AccountNext]_accountVars => AccountInv'
<1>. SUFFICES ASSUME AccountInv, [AccountNext]_accountVars PROVE AccountInv' BY Zenon
<1>1. CASE \E h \in Handle : CreateUser(h) BY <1>1, CreateUserStep, Zenon
<1>2. CASE \E u \in users : DeleteUser(u) BY <1>2, DeleteUserStep, Zenon
<1>3. ASSUME NEW c \in Call,
             \/ \E u \in users : ResetPassword(c, u)
             \/ ReadCredentials(c) \/ Deactivate(c) \/ InsertCredential(c) \/ Abandon(c)
      PROVE AccountInv'
  BY <1>3, ResetPasswordStep, ReadCredentialsStep, DeactivateStep, InsertCredentialStep,
     AbandonStep, Zenon
<1>4. ASSUME NEW c \in Call,
             \/ \E u \in users, e \in Contact : UpdateUserInfo(c, u, e)
             \/ UpdateUser(c) \/ NextContact(c) \/ UpsertEmail(c) \/ UpsertPhone(c)
      PROVE AccountInv'
  BY <1>4, UpdateUserInfoStep, UpdateUserStep, NextContactStep, UpsertStep, Zenon
<1>5. ASSUME NEW c \in Call,
             \/ \E name \in Handle \cup Address : Login(c, name)
             \/ ByHandle(c) \/ ByEmail(c) \/ ById(c)
             \/ FindPassword(c) \/ FindPrincipal(c) \/ IssueTokens(c)
      PROVE AccountInv'
  BY <1>5, LoginStep, FindUserStep, PasswordStep, Zenon
<1>6. CASE UNCHANGED accountVars
  <2>1. /\ accounts' = accounts /\ users' = users /\ credentials' = credentials
        /\ active' = active /\ contacts' = contacts /\ primary' = primary
        /\ retired' = retired /\ halted' = halted /\ tasks' = tasks
    BY Zenon, <1>6 DEF accountVars
  <2>2. AccountRowsOK' BY Zenon, <2>1 DEF AccountInv, AccountRowsOK
  <2>3. CallsOK'
    <3>1. ASSUME NEW c \in Call PROVE CallOK(tasks[c])'
      <4>1. PICK x : x = tasks[c] BY Zenon
      <4>2. CallOK(x) BY Zenon, <4>1 DEF AccountInv, CallsOK
      <4>3. ResetOK(x)' BY Zenon, <2>1, <4>2 DEF CallOK, ResetOK, CredentialsOf
      <4>4. LoginOK(x)' BY Zenon, <2>1, <4>2 DEF CallOK, LoginOK, CredentialsOf
      <4>5. UpsertOK(x)' BY Zenon, <2>1, <4>2 DEF CallOK, UpsertOK, ContactsOf
      <4>. QED BY Zenon, <2>1, <4>1, <4>2, <4>3, <4>4, <4>5 DEF CallOK
    <3>. QED BY Zenon, <2>1, <3>1 DEF AccountInv, CallsOK
  <2>4. ResetLeavesPassword'
    BY Zenon, <2>1 DEF AccountInv, ResetLeavesPassword, Resetting, At, CredentialsOf
  <2>. QED BY Zenon, <2>2, <2>3, <2>4 DEF AccountInv
<1>. QED BY <1>1, <1>2, <1>3, <1>4, <1>5, <1>6, Zenon DEF AccountNext

\* The invariant of users, credentials, recoveries and logins.
THEOREM AccountInvariant == AccountSpec => []AccountInv
BY AccountInitInv, AccountStep, PTL DEF AccountSpec

\* Type correctness of UserAccounts.
THEOREM AccountTypeCorrect == AccountSpec => []AccountTypeOK
<1>1. AccountInv => AccountTypeOK
  BY Zenon DEF AccountInv, AccountRowsOK, CallsOK, CallOK, AccountTypeOK
<1>. QED BY <1>1, AccountInvariant, PTL

\* A login is answered with tokens only for the user whose password it authenticated with,
\* and with none that a reset completed before it began had replaced
\* (find_user_password_by_user_id, replace_user_password).
THEOREM LoginsCurrent == AccountSpec => []LoginIsCurrent
<1>1. AccountInv => LoginIsCurrent
  BY Zenon DEF AccountInv, CallsOK, CallOK, LoginOK, LoginIsCurrent, At
<1>. QED BY <1>1, AccountInvariant, PTL

\* However many resets of one user overlap, the user keeps an active password once they
\* are over, unless one of them stopped after it had begun to deactivate
\* (replace_user_password).
THEOREM ResetsLeavePassword == AccountSpec => []ResetLeavesPassword
<1>1. AccountInv => ResetLeavesPassword BY Zenon DEF AccountInv
<1>. QED BY <1>1, AccountInvariant, PTL

\* An address made primary while no other request wrote the addresses of its user is the
\* only primary one, whatever overlapping or abandoned updates left behind (update_user_info).
THEOREM LoneUpsert == AccountSpec => []LoneUpsertDecides
<1>1. ASSUME AccountInv, NEW c \in Call, At(c, "demote"), tasks[c].todo = {}, tasks[c].alone
      PROVE ContactsOf(tasks[c].user, tasks[c].kind) \cap primary = {tasks[c].target}
  <2>1. PICK x : x = tasks[c] BY Zenon
  <2>2. UpsertOK(x) BY <1>1, <2>1, Zenon DEF AccountInv, CallsOK, CallOK
  <2>3. /\ x.target \in ContactsOf(x.user, x.kind) /\ x.target \in primary
        /\ ContactsOf(x.user, x.kind) \cap primary \subseteq x.todo \cup {x.target}
    BY Zenon, <1>1, <2>1, <2>2 DEF UpsertOK, At
  <2>. QED BY <1>1, <2>1, <2>3, Zenon
<1>2. AccountInv => LoneUpsertDecides BY <1>1, Zenon DEF LoneUpsertDecides
<1>. QED BY <1>2, AccountInvariant, PTL
===============================================================================
