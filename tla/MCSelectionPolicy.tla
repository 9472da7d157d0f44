------------------------- MODULE MCSelectionPolicy -------------------------
(* Two resources that differ in application, kind and id. *)
EXTENDS SelectionPolicy, TLC

CONSTANTS r1, r2, d1, docs, photos, appA, appB, database, filesystem, k1, k2

MCAppOf == docs :> appA @@ photos :> appB
MCKindOf == docs :> database @@ photos :> filesystem

\* The resources may change roles if their applications and kinds do, too.
MCSwap == docs :> photos @@ photos :> docs @@ appA :> appB @@ appB :> appA
            @@ database :> filesystem @@ filesystem :> database
MCSymmetry == Permutations({r1, r2}) \cup Permutations(Client) \cup {MCSwap}

=============================================================================
