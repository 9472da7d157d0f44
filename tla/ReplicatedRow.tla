--------------------------- MODULE ReplicatedRow ---------------------------
(***************************************************************************)
(* The replicated row store (ofdb with its Automerge row codec) as the     *)
(* repositories under src/crates use it.  The engine itself is external.   *)
(*                                                                         *)
(* A cell is one column of one row at one replica: the set of its          *)
(* siblings, each a value with the change that wrote it.  A cell with two  *)
(* different values is what row_conflicts / row_conflict_values report.    *)
(* An absent row has empty cells.                                          *)
(***************************************************************************)
EXTENDS Naturals

Values(cell) == {s.val : s \in cell}

\* row_conflicts: the column holds concurrent writes of different values.
Conflicted(cell) == \E a, b \in cell : a.val # b.val

\* The value of a cell without a conflict.
ValueOf(cell) == CHOOSE v \in Values(cell) : TRUE

\* An INSERT, an UPDATE or resolve_row replaces every sibling the replica
\* sees.  Writing the value a column already holds is not a change.
Write(cell, op, v) ==
  IF cell # {} /\ \A s \in cell : s.val = v THEN cell ELSE {[op |-> op, val |-> v]}

\* Applying the exported state of another replica: a sibling survives when both
\* sides hold it, or when the other side has never seen the change behind it
\* (otherwise the other side has overwritten it).
MergeCell(c1, seen1, c2, seen2) ==
  (c1 \cap c2) \cup {s \in c1 : s.op \notin seen2} \cup {s \in c2 : s.op \notin seen1}

=============================================================================
