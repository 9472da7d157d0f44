----------------------------- MODULE Residency -----------------------------
(* The residency policy of a device: which paths of which namespace it      *)
(* keeps in full (src/crates/storage-service/src/residency.rs).             *)
(*                                                                          *)
(* One owner loads the policy, changes it in memory and saves it; nothing   *)
(* in the repository calls the type yet.  A save writes a temporary file    *)
(* and renames it over the policy file; the process may be killed between   *)
(* any two steps.                                                           *)
(*                                                                          *)
(* A path is the sequence of its components: validate_path admits no empty, *)
(* "." or ".." component, so the string and the sequence determine each     *)
(* other.  So do a namespace and its key: validate_user_sub admits no ':',  *)
(* so namespace_key never gives two namespaces one key.                     *)
EXTENDS Naturals, Sequences, FiniteSets

CONSTANTS
    StorageNamespace,   \* pairs of a user and an application
    PolicyPath,         \* the paths rules are made and asked for
    Unsaved,            \* there is no file
    Torn                \* a file that is not a whole policy

ASSUME PathAssumption == \A p \in PolicyPath : p \in Seq(STRING)

VARIABLES
    policy,         \* the policy in memory, Unsaved before it is loaded
    saver,          \* the step of save in progress
    policyFile,     \* storage-residency.json
    temporary,      \* storage-residency.tmp: "none", "torn" or "whole"
    kept            \* history: the policy saved last, and the one being saved

residencyVars == <<policy, saver, policyFile, temporary, kept>>

-----------------------------------------------------------------------------

Residences == {"full", "passthrough"}

\* ResidencyPolicy: rules is a map of maps.
Applications == {n[2] : n \in StorageNamespace}
Rules == UNION {[D -> Residences] : D \in SUBSET PolicyPath}
ResidencyPolicy == [device_default : Residences, excluded : SUBSET Applications,
                    rules : [StorageNamespace -> Rules]]

DefaultPolicy == [device_default |-> "passthrough", excluded |-> {},
                  rules |-> [n \in StorageNamespace |-> <<>>]]

\* Mutant: the last component is never dropped.
ExactRule(rules, path) ==
    IF path \in DOMAIN rules THEN rules[path]
    ELSE IF <<>> \in DOMAIN rules THEN rules[<<>>] ELSE "none"

\* matching_rule: the path itself, then its ancestors, then the root.
MatchingRule(rules, path) ==
    LET upTo[n \in 0 .. Len(path)] ==
            IF SubSeq(path, 1, n) \in DOMAIN rules THEN rules[SubSeq(path, 1, n)]
            ELSE IF n = 0 THEN "none" ELSE upTo[n - 1]
    IN upTo[Len(path)]

\* residency.
ResidencyOf(p, n, path) ==
    LET rule == MatchingRule(p.rules[n], path)
    IN IF rule = "none" THEN p.device_default ELSE rule

ResidencyInit ==
    /\ policy = Unsaved
    /\ saver = "idle"
    /\ policyFile = Unsaved
    /\ temporary = "none"
    /\ kept = <<Unsaved, Unsaved>>

InMemory == policy # Unsaved /\ saver = "idle"
    /\ UNCHANGED <<saver, policyFile, temporary, kept>>

\* load: no file is the default policy; a torn file is an error.
Load ==
    /\ policy = Unsaved
    /\ policyFile # Torn
    /\ policy' = IF policyFile = Unsaved THEN DefaultPolicy ELSE policyFile
    /\ kept' = <<policyFile, policyFile>>
    /\ UNCHANGED <<saver, policyFile, temporary>>

SetDeviceDefault(r) ==
    /\ InMemory
    /\ policy' = [policy EXCEPT !.device_default = r]

SetApplicationExcluded(a, excluded) ==
    /\ InMemory
    /\ policy' = [policy EXCEPT !.excluded = IF excluded THEN @ \cup {a} ELSE @ \ {a}]

\* set_residency: a rule of the path replaces the one it had.
SetResidency(n, path, r) ==
    /\ InMemory
    /\ policy' = [policy EXCEPT !.rules[n] =
                    [q \in DOMAIN @ \cup {path} |-> IF q = path THEN r ELSE @[q]]]

\* Mutant: the policy file itself is opened for writing.
SaveInPlace ==
    /\ policy # Unsaved /\ saver = "idle"
    /\ saver' = "write"
    /\ policyFile' = Torn
    /\ kept' = <<kept[1], policy>>
    /\ UNCHANGED <<policy, temporary>>

\* save: the temporary file is created or emptied ...
SaveBegins ==
    /\ policy # Unsaved /\ saver = "idle"
    /\ saver' = "write"
    /\ temporary' = "torn"
    /\ kept' = <<kept[1], policy>>
    /\ UNCHANGED <<policy, policyFile>>

\* ... and written, which may fail ...
SaveWrites ==
    /\ saver = "write"
    /\ \/ temporary' = "whole" /\ saver' = "rename" /\ UNCHANGED kept
       \/ saver' = "idle" /\ kept' = <<kept[1], kept[1]>> /\ UNCHANGED temporary
    /\ UNCHANGED <<policy, policyFile>>

\* ... and takes the place of the policy file, unless the rename fails.
SaveRenames ==
    /\ saver = "rename"
    /\ saver' = "idle"
    /\ \/ policyFile' = policy /\ temporary' = "none" /\ kept' = <<policy, policy>>
       \/ kept' = <<kept[1], kept[1]>> /\ UNCHANGED <<policyFile, temporary>>
    /\ UNCHANGED policy

\* The process is killed; the files stay as they are.
KillOwner ==
    /\ policy # Unsaved
    /\ policy' = Unsaved
    /\ saver' = "idle"
    /\ UNCHANGED <<policyFile, temporary, kept>>

ResidencyNext ==
    \/ Load \/ SaveBegins \/ SaveWrites \/ SaveRenames \/ KillOwner
    \/ \E r \in Residences :
        \/ SetDeviceDefault(r)
        \/ \E n \in StorageNamespace, path \in PolicyPath : SetResidency(n, path, r)
    \/ \E a \in Applications, excluded \in BOOLEAN : SetApplicationExcluded(a, excluded)

ResidencySpec == ResidencyInit /\ [][ResidencyNext]_residencyVars

-----------------------------------------------------------------------------

\* Type invariant: the policy in memory and the files.
ResidencyTypeOK ==
    /\ policy \in ResidencyPolicy \cup {Unsaved}
    /\ saver \in {"idle", "write", "rename"}
    /\ policyFile \in ResidencyPolicy \cup {Unsaved, Torn}
    /\ temporary \in {"none", "torn", "whole"}
    /\ DOMAIN kept = 1 .. 2

\* Whatever rules were set in whatever order, a path resides where its nearest
\* ancestor with a rule says, itself included, and where the device default says
\* when it has none (residency and the loop of matching_rule).
NearestRuleWins ==
    policy # Unsaved =>
        \A n \in StorageNamespace, path \in PolicyPath :
            LET ruled == {q \in DOMAIN policy.rules[n] :
                            Len(q) =< Len(path) /\ q = SubSeq(path, 1, Len(q))}
            IN IF ruled = {}
               THEN ResidencyOf(policy, n, path) = policy.device_default
               ELSE \E q \in ruled :
                        /\ \A other \in ruled : Len(other) =< Len(q)
                        /\ ResidencyOf(policy, n, path) = policy.rules[n][q]

\* The policy file holds the policy whose save returned last or, while a save has
\* not returned, the one being saved: a kill never leaves a torn file, a save
\* that fails leaves the old policy, one that returns is found by a load (save).
SavedSurvives == policyFile \in {kept[1], kept[2]}
=============================================================================
