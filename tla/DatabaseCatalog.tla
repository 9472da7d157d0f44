--------------------------- MODULE DatabaseCatalog ---------------------------
(***************************************************************************)
(* The catalog file of one storage namespace: DatabaseCatalog of           *)
(* storage-service.  Every method takes the catalog lock, reads the file,  *)
(* and replaces it if it changes the record of the database it is about.   *)
(* A method is a function of that record: the set of the results it can    *)
(* have, each with the record it leaves and whether it answered Ok.        *)
(***************************************************************************)

Record == {"absent", "live", "deleted"}

\* The file is replaced by rename.  An error before it leaves the old catalog,
\* an error after it (the directory sync) leaves the new one.
Replace(old, new) ==
  {[record |-> new, ok |-> TRUE], [record |-> old, ok |-> FALSE], [record |-> new, ok |-> FALSE]}

\* A method that only reads the file, or changes nothing.
Keep(old) == {[record |-> old, ok |-> TRUE], [record |-> old, ok |-> FALSE]}

\* create: the identifier is fresh.
CatalogCreate(r) == Replace(r, "live")

\* register_selected: what the catalog already knows of the database stands.
RegisterSelected(r) == IF r = "absent" THEN Replace(r, "live") ELSE Keep(r)

\* delete
CatalogDelete(r) == IF r = "live" THEN Replace(r, "deleted") ELSE Keep(r)

\* apply_tombstone: also for a database the catalog does not know.
ApplyTombstone(r) == IF r = "deleted" THEN Keep(r) ELSE Replace(r, "deleted")

=============================================================================
