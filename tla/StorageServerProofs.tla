------------------------- MODULE StorageServerProofs -------------------------
(*****************************************************************************)
(* The storage server's parts for every value of their constants: residency  *)
(* policies (Residency), the life of the process with its endpoint, key and  *)
(* tasks (ServerLife) and overlapping requests (StorageRequests).  They      *)
(* share no variable; each has an inductive invariant of its own.  What a    *)
(* loop or a CHOOSE over the natural numbers finds is proved from the least  *)
(* counterexample (Smallest).                                                *)
(*****************************************************************************)
EXTENDS Residency, ServerLife, StorageRequests, FiniteSetTheorems,
        WellFoundedInduction, TLAPS

-----------------------------------------------------------------------------
(* Least and greatest natural numbers                                      *)

\* A set of naturals that is not empty has a smallest element.
LEMMA Smallest ==
  ASSUME NEW S, S \subseteq Nat, S # {}
  PROVE \E m \in S : \A n \in S : m =< n
<1>1. IsWellFoundedOn(OpToRel(<, Nat), Nat) BY Zenon, NatLessThanWellFounded
<1>2. PICK m \in S : \A n \in S : ~ (<<n, m>> \in OpToRel(<, Nat))
  BY <1>1, WFMin, Zenon
<1>3. \A n \in S : ~ (n < m) BY Zenon, <1>2 DEF OpToRel
<1>. QED BY <1>3

\* ... and one that is bounded has a largest.
LEMMA Largest ==
  ASSUME NEW S, S \subseteq Nat, S # {}, NEW b \in Nat, \A n \in S : n =< b
  PROVE \E m \in S : \A n \in S : n =< m
<1>. DEFINE U == {u \in Nat : \A n \in S : n =< u}
<1>1. PICK m \in U : \A u \in U : m =< u BY Zenon, Smallest, b \in U
<1>2. m \in S
  <2>. SUFFICES ASSUME m \notin S PROVE FALSE BY Zenon
  <2>1. \A n \in S : n < m BY <1>1
  <2>2. PICK n \in S : TRUE BY Zenon
  <2>3. m - 1 \in Nat /\ \A k \in S : k =< m - 1 BY <2>1, <2>2
  <2>. QED BY <2>3, <1>1
<1>. QED BY Zenon, <1>1, <1>2

-----------------------------------------------------------------------------
(* Residency policies                                                      *)

\* The lengths up to n of the ancestors of a path that have a rule, the longest of
\* them, and its rule: what matching_rule should find.
RuledUpTo(rules, path, n) == {m \in 0 .. n : SubSeq(path, 1, m) \in DOMAIN rules}
Deepest(lengths) == CHOOSE m \in lengths : \A k \in lengths : k =< m
RuleFound(rules, path) ==
  [n \in 0 .. Len(path) |->
    IF RuledUpTo(rules, path, n) = {} THEN "none"
    ELSE rules[SubSeq(path, 1, Deepest(RuledUpTo(rules, path, n)))]]

\* One turn of the loop of matching_rule, for every length at once.
LoopTurn(rules, path, f) ==
  [n \in 0 .. Len(path) |->
    IF SubSeq(path, 1, n) \in DOMAIN rules THEN rules[SubSeq(path, 1, n)]
    ELSE IF n = 0 THEN "none" ELSE f[n - 1]]

LEMMA DeepestIs ==
  ASSUME NEW n \in Nat, NEW S, S \subseteq 0 .. n, S # {}
  PROVE Deepest(S) \in S /\ \A k \in S : k =< Deepest(S)
<1>1. S \subseteq Nat /\ \A k \in S : k =< n OBVIOUS
<1>2. \E m \in S : \A k \in S : k =< m BY Zenon, <1>1, Largest
<1>. QED BY Zenon, <1>2 DEF Deepest

LEMMA DeepestUnique ==
  ASSUME NEW n \in Nat, NEW S, S \subseteq 0 .. n, NEW m \in S, \A k \in S : k =< m
  PROVE Deepest(S) = m
<1>1. Deepest(S) \in S /\ m =< Deepest(S) BY Zenon, DeepestIs
<1>2. Deepest(S) =< m BY Zenon, <1>1
<1>3. Deepest(S) \in 0 .. n /\ m \in 0 .. n BY Zenon, <1>1
<1>. HIDE DEF Deepest
<1>. QED BY <1>1, <1>2, <1>3

\* The rule of the deepest ancestor is what the loop computes from itself ...
LEMMA FoundTurns ==
  ASSUME NEW rules, NEW path, Len(path) \in Nat
  PROVE RuleFound(rules, path) = LoopTurn(rules, path, RuleFound(rules, path))
<1>. DEFINE R(n) == RuledUpTo(rules, path, n)
            found == RuleFound(rules, path)
<1>. SUFFICES ASSUME NEW n \in 0 .. Len(path)
              PROVE found[n] = IF SubSeq(path, 1, n) \in DOMAIN rules
                               THEN rules[SubSeq(path, 1, n)]
                               ELSE IF n = 0 THEN "none" ELSE found[n - 1]
  BY Zenon DEF RuleFound, LoopTurn
<1>1. R(n) \subseteq 0 .. n BY Zenon DEF RuledUpTo
<1>2. found[n] = IF R(n) = {} THEN "none" ELSE rules[SubSeq(path, 1, Deepest(R(n)))]
  BY Zenon DEF RuleFound
<1>3. CASE SubSeq(path, 1, n) \in DOMAIN rules
  <2>1. n \in R(n) /\ \A k \in R(n) : k =< n BY <1>3 DEF RuledUpTo
  <2>2. Deepest(R(n)) = n BY <1>1, <2>1, DeepestUnique
  <2>. QED BY Zenon, <1>2, <1>3, <2>1, <2>2
<1>4. CASE SubSeq(path, 1, n) \notin DOMAIN rules /\ n = 0
  <2>1. R(n) = {} BY <1>4 DEF RuledUpTo
  <2>. QED BY Zenon, <1>2, <1>4, <2>1
<1>5. CASE SubSeq(path, 1, n) \notin DOMAIN rules /\ n # 0
  <2>1. n - 1 \in 0 .. Len(path) BY <1>5
  <2>2. R(n) = R(n - 1) BY <1>5 DEF RuledUpTo
  <2>3. found[n - 1] = IF R(n - 1) = {} THEN "none"
                       ELSE rules[SubSeq(path, 1, Deepest(R(n - 1)))]
    BY Zenon, <2>1 DEF RuleFound
  <2>. QED BY Zenon, <1>2, <1>5, <2>2, <2>3
<1>. QED BY Zenon, <1>3, <1>4, <1>5

\* ... and nothing else is: take the smallest length two answers differ at.
LEMMA FoundUnique ==
  ASSUME NEW rules, NEW path, Len(path) \in Nat, NEW f, f = LoopTurn(rules, path, f)
  PROVE f = RuleFound(rules, path)
<1>. DEFINE found == RuleFound(rules, path)
            D == {n \in 0 .. Len(path) : f[n] # found[n]}
<1>1. \A n \in 0 .. Len(path) :
        f[n] = IF SubSeq(path, 1, n) \in DOMAIN rules THEN rules[SubSeq(path, 1, n)]
               ELSE IF n = 0 THEN "none" ELSE f[n - 1]
  BY Zenon DEF LoopTurn
<1>2. found = LoopTurn(rules, path, found) BY Zenon, FoundTurns
<1>3. \A n \in 0 .. Len(path) :
        found[n] = IF SubSeq(path, 1, n) \in DOMAIN rules THEN rules[SubSeq(path, 1, n)]
                   ELSE IF n = 0 THEN "none" ELSE found[n - 1]
  <2>. HIDE DEF found
  <2>. QED BY Zenon, <1>2 DEF LoopTurn
<1>4. D = {}
  <2>. SUFFICES ASSUME D # {} PROVE FALSE BY Zenon
  <2>0. D \subseteq Nat OBVIOUS
  <2>1. PICK m \in D : \A n \in D : m =< n
    <3>. HIDE DEF D
    <3>. QED BY Zenon, <2>0, Smallest
  <2>2. SubSeq(path, 1, m) \notin DOMAIN rules /\ m # 0 BY Zenon, <2>1, <1>1, <1>3
  <2>3. m - 1 \in 0 .. Len(path) /\ m - 1 \notin D BY <2>1, <2>2
  <2>. QED BY Zenon, <2>1, <2>2, <2>3, <1>1, <1>3
<1>5. f = [n \in 0 .. Len(path) |-> f[n]] BY Zenon DEF LoopTurn
<1>6. found = [n \in 0 .. Len(path) |-> found[n]] BY Zenon DEF RuleFound
<1>. QED BY Zenon, <1>4, <1>5, <1>6

LEMMA MatchingRuleIs ==
  ASSUME NEW rules, NEW path, Len(path) \in Nat
  PROVE MatchingRule(rules, path) = RuleFound(rules, path)[Len(path)]
<1>. DEFINE loop == CHOOSE f : f = LoopTurn(rules, path, f)
<1>1. loop = LoopTurn(rules, path, loop) BY Zenon, FoundTurns
<1>2. loop = RuleFound(rules, path) BY Zenon, <1>1, FoundUnique
<1>3. MatchingRule(rules, path) = loop[Len(path)] BY Zenon DEF MatchingRule, LoopTurn
<1>. QED BY Zenon, <1>2, <1>3

\* The rules of a namespace are a function from some of the paths.
LEMMA RulesAre ==
  ASSUME NEW r
  PROVE r \in Rules <=> r \in [DOMAIN r -> Residences] /\ DOMAIN r \subseteq PolicyPath
  BY Zenon DEF Rules

\* What the loop finds is the rule of the nearest ancestor, or "none".
LEMMA MatchingRuleNearest ==
  ASSUME NEW rules \in Rules, NEW path \in PolicyPath
  PROVE LET ruled == {q \in DOMAIN rules : Len(q) =< Len(path) /\ q = SubSeq(path, 1, Len(q))}
        IN IF ruled = {} THEN MatchingRule(rules, path) = "none"
           ELSE \E q \in ruled : /\ \A other \in ruled : Len(other) =< Len(q)
                                 /\ MatchingRule(rules, path) = rules[q]
<1>. DEFINE ruled == {q \in DOMAIN rules : Len(q) =< Len(path) /\ q = SubSeq(path, 1, Len(q))}
            R == RuledUpTo(rules, path, Len(path))
<1>1. path \in Seq(STRING) /\ Len(path) \in Nat BY PathAssumption
<1>2. \A q \in DOMAIN rules : q \in Seq(STRING) /\ Len(q) \in Nat
  BY RulesAre, PathAssumption
<1>3. MatchingRule(rules, path) = IF R = {} THEN "none" ELSE rules[SubSeq(path, 1, Deepest(R))]
  <2>1. MatchingRule(rules, path) = RuleFound(rules, path)[Len(path)]
    BY Zenon, <1>1, MatchingRuleIs
  <2>2. Len(path) \in 0 .. Len(path) BY <1>1
  <2>. QED BY Zenon, <2>1, <2>2 DEF RuleFound
<1>4. \A q \in ruled : Len(q) \in R
  <2>1. \A q \in ruled : q \in DOMAIN rules /\ Len(q) =< Len(path) /\ q = SubSeq(path, 1, Len(q))
    BY Zenon
  <2>2. \A q \in ruled : Len(q) \in 0 .. Len(path) BY <2>1, <1>1, <1>2
  <2>3. \A q \in ruled : SubSeq(path, 1, Len(q)) \in DOMAIN rules BY Zenon, <2>1
  <2>. HIDE DEF ruled
  <2>. QED BY Zenon, <2>2, <2>3 DEF RuledUpTo
<1>5. \A m \in R : SubSeq(path, 1, m) \in ruled /\ Len(SubSeq(path, 1, m)) = m
  <2>. SUFFICES ASSUME NEW m \in R PROVE SubSeq(path, 1, m) \in ruled /\ Len(SubSeq(path, 1, m)) = m
    BY Zenon
  <2>1. m \in 0 .. Len(path) /\ SubSeq(path, 1, m) \in DOMAIN rules BY Zenon DEF RuledUpTo
  <2>2. Len(SubSeq(path, 1, m)) = m BY <1>1, <2>1
  <2>3. m =< Len(path) BY <1>1, <2>1
  <2>4. /\ Len(SubSeq(path, 1, m)) =< Len(path)
        /\ SubSeq(path, 1, m) = SubSeq(path, 1, Len(SubSeq(path, 1, m)))
    BY Zenon, <2>2, <2>3
  <2>. QED BY Zenon, <2>1, <2>2, <2>4
<1>6. R \subseteq 0 .. Len(path) BY Zenon DEF RuledUpTo
<1>7. CASE R = {}
  <2>1. ruled = {}
    <3>. HIDE DEF ruled, R
    <3>. QED BY Zenon, <1>4, <1>7
  <2>. QED BY Zenon, <2>1, <1>3, <1>7
<1>8. CASE R # {}
  <2>. DEFINE m == Deepest(R)
  <2>1. m \in R /\ \A k \in R : k =< m BY Zenon, <1>1, <1>6, <1>8, DeepestIs
  <2>. HIDE DEF ruled, m, R
  <2>2. SubSeq(path, 1, m) \in ruled /\ Len(SubSeq(path, 1, m)) = m BY Zenon, <1>5, <2>1
  <2>3. \A other \in ruled : Len(other) =< Len(SubSeq(path, 1, m)) BY Zenon, <1>4, <2>1, <2>2
  <2>4. MatchingRule(rules, path) = rules[SubSeq(path, 1, m)] BY Zenon, <1>3, <1>8 DEF m
  <2>. QED BY Zenon, <2>2, <2>3, <2>4 DEF ruled
<1>. QED BY Zenon, <1>7, <1>8

ResidencyInv ==
  /\ ResidencyTypeOK
  /\ kept[1] = policyFile

LEMMA ResidencyInitInv == ResidencyInit => ResidencyInv
  BY DEF ResidencyInit, ResidencyInv, ResidencyTypeOK

\* Setting a rule keeps the rules of a namespace rules.
LEMMA RuleSet ==
  ASSUME NEW old \in Rules, NEW path \in PolicyPath, NEW r \in Residences
  PROVE [q \in DOMAIN old \cup {path} |-> IF q = path THEN r ELSE old[q]] \in Rules
<1>. DEFINE new == [q \in DOMAIN old \cup {path} |-> IF q = path THEN r ELSE old[q]]
<1>1. old \in [DOMAIN old -> Residences] /\ DOMAIN old \subseteq PolicyPath
  BY Zenon, RulesAre
<1>2. new \in [DOMAIN old \cup {path} -> Residences] BY Zenon, <1>1
<1>3. DOMAIN old \cup {path} \subseteq PolicyPath BY Zenon, <1>1
<1>. QED BY Zenon, <1>2, <1>3 DEF Rules

LEMMA DefaultTyped == DefaultPolicy \in ResidencyPolicy
<1>1. <<>> \in Rules
  <2>1. <<>> \in [{} -> Residences] OBVIOUS
  <2>. QED BY Zenon, <2>1 DEF Rules
<1>. QED BY Zenon, <1>1 DEF DefaultPolicy, ResidencyPolicy, Residences

LEMMA ResidencyStep == ResidencyInv /\ [ResidencyNext]_residencyVars => ResidencyInv'
<1>. SUFFICES ASSUME ResidencyInv, [ResidencyNext]_residencyVars PROVE ResidencyInv' BY Zenon
<1>. USE DEF ResidencyInv, ResidencyTypeOK
<1>1. CASE Load BY <1>1, DefaultTyped DEF Load
<1>2. ASSUME NEW r \in Residences, SetDeviceDefault(r) PROVE ResidencyInv'
  BY Zenon, <1>2 DEF SetDeviceDefault, InMemory, ResidencyPolicy
<1>3. ASSUME NEW n \in StorageNamespace, NEW path \in PolicyPath, NEW r \in Residences,
             SetResidency(n, path, r)
      PROVE ResidencyInv'
  <2>1. policy \in ResidencyPolicy BY Zenon, <1>3 DEF SetResidency, InMemory
  <2>. DEFINE new == [q \in DOMAIN policy.rules[n] \cup {path} |->
                        IF q = path THEN r ELSE policy.rules[n][q]]
  <2>2. policy' = [policy EXCEPT !.rules[n] = new] BY Zenon, <1>3 DEF SetResidency
  <2>3. policy.rules[n] \in Rules BY Zenon, <1>3, <2>1 DEF ResidencyPolicy
  <2>4. new \in Rules BY Zenon, <1>3, <2>3, RuleSet
  <2>5. policy' \in ResidencyPolicy
    <3>. HIDE DEF new
    <3>. QED BY Zenon, <1>3, <2>1, <2>2, <2>4 DEF ResidencyPolicy
  <2>. QED BY Zenon, <1>3, <2>5 DEF SetResidency, InMemory
<1>4. ASSUME NEW a \in Applications, NEW excluded \in BOOLEAN, SetApplicationExcluded(a, excluded)
      PROVE ResidencyInv'
  BY Zenon, <1>4 DEF SetApplicationExcluded, InMemory, ResidencyPolicy
<1>5. CASE SaveBegins BY <1>5 DEF SaveBegins
<1>6. CASE SaveWrites BY <1>6 DEF SaveWrites
<1>7. CASE SaveRenames BY <1>7 DEF SaveRenames
<1>8. CASE KillOwner BY Zenon, <1>8 DEF KillOwner
<1>9. CASE UNCHANGED residencyVars BY Zenon, <1>9 DEF residencyVars
<1>. QED BY Zenon, <1>1, <1>2, <1>3, <1>4, <1>5, <1>6, <1>7, <1>8, <1>9 DEF ResidencyNext

\* Type correctness of Residency: the policy in memory and in the files.
THEOREM ResidencyTypeCorrect == ResidencySpec => []ResidencyTypeOK
<1>1. ResidencyInv => ResidencyTypeOK BY Zenon DEF ResidencyInv
<1>. QED BY <1>1, ResidencyInitInv, ResidencyStep, PTL DEF ResidencySpec

\* Whenever a save fails or is killed, a load finds the policy whose save returned last
\* or the one being saved (save).
THEOREM SavedPolicySurvives == ResidencySpec => []SavedSurvives
<1>1. ResidencyInv => SavedSurvives BY Zenon DEF ResidencyInv, SavedSurvives
<1>. QED BY <1>1, ResidencyInitInv, ResidencyStep, PTL DEF ResidencySpec

\* The loop of matching_rule finds the rule of the nearest ancestor, for paths of every
\* length and rules of every number, set in every order (residency).
THEOREM NearestRule == ResidencySpec => []NearestRuleWins
<1>1. ResidencyInv => NearestRuleWins
  <2>. SUFFICES ASSUME ResidencyInv, policy # Unsaved, NEW n \in StorageNamespace,
                       NEW path \in PolicyPath
                PROVE LET ruled == {q \in DOMAIN policy.rules[n] :
                                      Len(q) =< Len(path) /\ q = SubSeq(path, 1, Len(q))}
                      IN IF ruled = {}
                         THEN ResidencyOf(policy, n, path) = policy.device_default
                         ELSE \E q \in ruled :
                                /\ \A other \in ruled : Len(other) =< Len(q)
                                /\ ResidencyOf(policy, n, path) = policy.rules[n][q]
    BY Zenon DEF NearestRuleWins
  <2>. DEFINE rules == policy.rules[n]
              ruled == {q \in DOMAIN rules : Len(q) =< Len(path) /\ q = SubSeq(path, 1, Len(q))}
  <2>1. rules \in Rules BY Zenon DEF ResidencyInv, ResidencyTypeOK, ResidencyPolicy
  <2>2. \A q \in DOMAIN rules : rules[q] # "none"
    <3>1. \A q \in DOMAIN rules : rules[q] \in Residences BY Zenon, <2>1, RulesAre
    <3>. QED BY Zenon, <3>1 DEF Residences
  <2>3. IF ruled = {} THEN MatchingRule(rules, path) = "none"
        ELSE \E q \in ruled : /\ \A other \in ruled : Len(other) =< Len(q)
                              /\ MatchingRule(rules, path) = rules[q]
    BY Zenon, <2>1, MatchingRuleNearest
  <2>4. ruled \subseteq DOMAIN rules BY Zenon
  <2>5. ResidencyOf(policy, n, path) = IF MatchingRule(rules, path) = "none"
                                       THEN policy.device_default ELSE MatchingRule(rules, path)
    BY Zenon DEF ResidencyOf
  <2>6. IF ruled = {} THEN ResidencyOf(policy, n, path) = policy.device_default
        ELSE \E q \in ruled : /\ \A other \in ruled : Len(other) =< Len(q)
                              /\ ResidencyOf(policy, n, path) = rules[q]
    <3>. HIDE DEF ruled, rules
    <3>. QED BY Zenon, <2>2, <2>3, <2>4, <2>5
  <2>. QED BY Zenon, <2>6
<1>. QED BY <1>1, ResidencyInitInv, ResidencyStep, PTL DEF ResidencySpec

-----------------------------------------------------------------------------
(* The process and its endpoint key                                        *)

\* The endpoint key and the history around it.  The file is partial only while it is
\* being written, unsynced only until it is synced, and the key peers saw is the stored
\* one, unless a start ended while it was creating the key.
KeyOK ==
  /\ key.state = "whole" => key.id \in generated
  /\ stage = "writeKey" => key.state = "part"
  /\ stage = "syncKey" => key.state = "whole"
  /\ stage = "bind" => key.state = "whole"
  /\ ~interrupted =>
      /\ ~refused
      /\ key.state = "part" => stage = "writeKey"
      /\ key.state = "whole" /\ ~key.synced => stage = "syncKey"
      /\ advertised # {} => /\ key.state = "whole"
                            /\ key.synced
                            /\ advertised = {key.id}

ServerInv == ServerTypeOK /\ KeyOK

Stages == Starting \cup Stopping \cup {"down", "running"}
Tasks == [refresher : {"off", "refreshing", "sleeping"},
          sync : {"off", "running", "aborted"}, peers : BOOLEAN, sessions : BOOLEAN]

\* The types of what a process holds.
ProcessOK ==
  /\ server \in Server
  /\ stage \in Stages
  /\ config \in [idp : Setting, management : Setting]
  /\ endpoint \in EndpointKey \cup {NoKey}
  /\ background \in Tasks
  /\ http \in {"off", "binding", "listening", "draining", "ended"}
  /\ cancelled \in BOOLEAN
  /\ requests \subseteq HttpRequest

\* The types of what outlives it.
StoredOK ==
  /\ key \in StoredKey
  /\ generated \subseteq EndpointKey
  /\ advertised \subseteq generated
  /\ interrupted \in BOOLEAN
  /\ refused \in BOOLEAN
  /\ faults \in 0 .. MaxFaults

LEMMA ServerTypes == ServerTypeOK <=> ProcessOK /\ StoredOK
  BY Zenon DEF ServerTypeOK, ProcessOK, StoredOK, Stages, Tasks

LEMMA ServerTypesNext == ServerTypeOK' <=> ProcessOK' /\ StoredOK'
  BY Zenon DEF ServerTypeOK, ProcessOK, StoredOK, Stages, Tasks

\* The two values of a key that is not whole.
LEMMA NotWhole ==
  /\ NoStored \in StoredKey /\ NoStored.state = "none" /\ NoStored.synced = FALSE
  /\ PartStored \in StoredKey /\ PartStored.state = "part" /\ PartStored.synced = FALSE
<1>1. NoStored \in [state : {"none", "part"}, synced : {FALSE}, id : {NoKey}]
  BY Zenon DEF NoStored
<1>2. PartStored \in [state : {"none", "part"}, synced : {FALSE}, id : {NoKey}]
  BY Zenon DEF NoStored, PartStored
<1>3. NoStored.state = "none" /\ NoStored.synced = FALSE BY Zenon DEF NoStored
<1>4. PartStored.state = "part" /\ PartStored.synced = FALSE BY Zenon DEF NoStored, PartStored
<1>. QED BY Zenon, <1>1, <1>2, <1>3, <1>4 DEF StoredKey

LEMMA ServerInitInv == ServerInit => ServerInv
<1>. SUFFICES ASSUME ServerInit PROVE ServerInv BY Zenon
<1>1. ProcessOK
  BY Zenon DEF ServerInit, ProcessOK, Stages, Unconfigured, Setting, Tasks, NoTasks
<1>2. StoredOK
  <2>1. key \in StoredKey BY Zenon, NotWhole DEF ServerInit
  <2>2. 0 \in 0 .. MaxFaults BY ServerAssumption
  <2>. QED BY Zenon, <2>1, <2>2 DEF ServerInit, StoredOK
<1>3. KeyOK BY Zenon DEF ServerInit, KeyOK, NoStored
<1>. QED BY Zenon, <1>1, <1>2, <1>3, ServerTypes DEF ServerInv

\* The stages in which the key is created or about to be used.
KeyStages == {"writeKey", "syncKey", "bind"}

\* A step that leaves what is stored alone, and neither enters a key stage nor leaves
\* one in which the key is being created.
LEMMA StoredKept ==
  ASSUME StoredOK, KeyOK, UNCHANGED stored,
         stage' = stage \/ (stage \notin {"writeKey", "syncKey"} /\ stage' \notin KeyStages)
  PROVE StoredOK' /\ KeyOK'
<1>1. StoredOK' BY Zenon DEF stored, StoredOK
<1>2. KeyOK' BY Zenon DEF stored, KeyOK, KeyStages
<1>. QED BY Zenon, <1>1, <1>2

\* The process is gone.
LEMMA GoneTyped == ASSUME ProcessOK, Gone PROVE ProcessOK' /\ stage' = "down"
  BY Zenon DEF ProcessOK, Gone, Stages, Unconfigured, Setting, Tasks, NoTasks

\* The main task goes on.
LEMMA GoToTyped ==
  ASSUME ProcessOK, NEW s \in Stages, GoTo(s) PROVE ProcessOK' /\ stage' = s
  BY Zenon DEF ProcessOK, GoTo

LEMMA FailsKeeps ==
  ASSUME ProcessOK, StoredOK, KeyOK, Fails, stage \notin {"writeKey", "syncKey"}
  PROVE ProcessOK' /\ StoredOK' /\ KeyOK'
<1>1. ProcessOK' /\ stage' = "down" BY Zenon, GoneTyped DEF Fails
<1>2. UNCHANGED stored BY Zenon DEF Fails
<1>. QED BY Zenon, <1>1, <1>2, StoredKept DEF KeyStages

LEMMA GoToKeeps ==
  ASSUME ProcessOK, StoredOK, KeyOK, NEW s \in Stages \ KeyStages, GoTo(s), UNCHANGED stored,
         stage \notin {"writeKey", "syncKey"}
  PROVE ProcessOK' /\ StoredOK' /\ KeyOK'
<1>1. ProcessOK' /\ stage' = s BY Zenon, GoToTyped
<1>. QED BY Zenon, <1>1, StoredKept

-----------------------------------------------------------------------------

LEMMA ConfigureKeeps ==
  ASSUME ProcessOK, StoredOK, KeyOK,
         Launch \/ ConfigureStorage \/ ConfigureManagement \/ OpenManagementStore \/ OpenIdpStore
           \/ BuildIdpServices
  PROVE ProcessOK' /\ StoredOK' /\ KeyOK'
<1>0. {"key", "runtimes", "store", "serve"} \subseteq Stages \ KeyStages
  BY Zenon DEF Stages, Starting, KeyStages
<1>1. CASE Launch
  <2>1. ProcessOK' BY Zenon, <1>1 DEF Launch, ProcessOK, Stages, Starting
  <2>2. UNCHANGED stored /\ stage = "down" /\ stage' = "configure" BY Zenon, <1>1 DEF Launch
  <2>. QED BY Zenon, <2>1, <2>2, StoredKept DEF KeyStages
<1>2. CASE ConfigureStorage
  <2>1. stage \notin {"writeKey", "syncKey"} BY Zenon, <1>2 DEF ConfigureStorage
  <2>2. Fails \/ \E s \in Stages \ KeyStages : GoTo(s) /\ UNCHANGED stored
    BY Zenon, <1>0, <1>2 DEF ConfigureStorage
  <2>. QED BY Zenon, <2>1, <2>2, FailsKeeps, GoToKeeps
<1>3. CASE ConfigureManagement
  <2>1. stage \notin {"writeKey", "syncKey"} BY Zenon, <1>3 DEF ConfigureManagement
  <2>2. Fails \/ \E s \in Stages \ KeyStages : GoTo(s) /\ UNCHANGED stored
    BY Zenon, <1>0, <1>3 DEF ConfigureManagement
  <2>. QED BY Zenon, <2>1, <2>2, FailsKeeps, GoToKeeps
<1>4. CASE OpenManagementStore
  <2>1. stage \notin {"writeKey", "syncKey"} BY Zenon, <1>4 DEF OpenManagementStore
  <2>2. Fails \/ \E s \in Stages \ KeyStages : GoTo(s) /\ UNCHANGED stored
    BY Zenon, <1>0, <1>4 DEF OpenManagementStore
  <2>. QED BY Zenon, <2>1, <2>2, FailsKeeps, GoToKeeps
<1>5. CASE OpenIdpStore
  <2>1. stage \notin {"writeKey", "syncKey"} BY Zenon, <1>5 DEF OpenIdpStore
  <2>2. Fails \/ \E s \in Stages \ KeyStages : GoTo(s) /\ UNCHANGED stored
    BY Zenon, <1>0, <1>5 DEF OpenIdpStore
  <2>. QED BY Zenon, <2>1, <2>2, FailsKeeps, GoToKeeps
<1>6. CASE BuildIdpServices
  <2>1. stage \notin {"writeKey", "syncKey"} BY Zenon, <1>6 DEF BuildIdpServices
  <2>2. Fails \/ \E s \in Stages \ KeyStages : GoTo(s) /\ UNCHANGED stored
    BY Zenon, <1>0, <1>6 DEF BuildIdpServices
  <2>. QED BY Zenon, <2>1, <2>2, FailsKeeps, GoToKeeps
<1>. QED BY Zenon, <1>1, <1>2, <1>3, <1>4, <1>5, <1>6

LEMMA KeyRingKeeps ==
  ASSUME ProcessOK, StoredOK, KeyOK, LoadKeyringKey
  PROVE ProcessOK' /\ StoredOK' /\ KeyOK'
<1>0. "bind" \in Stages BY Zenon DEF Stages, Starting
<1>1. stage = "key" /\ UNCHANGED <<advertised, interrupted, refused, faults>>
  BY Zenon DEF LoadKeyringKey
<1>2. CASE key.state = "whole" /\ GoTo("bind") /\ UNCHANGED <<key, generated>>
  <2>1. ProcessOK' /\ stage' = "bind" BY Zenon, <1>0, <1>2, GoToTyped
  <2>2. StoredOK' BY Zenon, <1>1, <1>2 DEF StoredOK
  <2>3. KeyOK' BY Zenon, <1>1, <1>2, <2>1 DEF KeyOK
  <2>. QED BY Zenon, <2>1, <2>2, <2>3
<1>3. ASSUME key.state = "none", GoTo("bind"), NEW id \in EndpointKey \ generated,
             key' = Whole(id, TRUE), generated' = generated \cup {id}
      PROVE ProcessOK' /\ StoredOK' /\ KeyOK'
  <2>1. ProcessOK' /\ stage' = "bind" BY Zenon, <1>0, <1>3, GoToTyped
  <2>2. StoredOK' BY Zenon, <1>1, <1>3 DEF StoredOK, Whole, StoredKey
  <2>3. KeyOK' BY Zenon, <1>1, <1>3, <2>1 DEF KeyOK, Whole
  <2>. QED BY Zenon, <2>1, <2>2, <2>3
<1>4. CASE Fails BY Zenon, <1>1, <1>4, FailsKeeps
<1>. QED BY Zenon, <1>1, <1>2, <1>3, <1>4 DEF LoadKeyringKey

LEMMA KeyFileKeeps ==
  ASSUME ProcessOK, StoredOK, KeyOK, LoadKeyFile
  PROVE ProcessOK' /\ StoredOK' /\ KeyOK'
<1>0. "bind" \in Stages /\ "writeKey" \in Stages BY Zenon DEF Stages, Starting
<1>1. stage = "key" /\ UNCHANGED <<advertised, interrupted, faults>> BY Zenon DEF LoadKeyFile
<1>2. CASE key.state = "whole" /\ GoTo("bind") /\ UNCHANGED <<key, generated, refused>>
  <2>1. ProcessOK' /\ stage' = "bind" BY Zenon, <1>0, <1>2, GoToTyped
  <2>2. StoredOK' BY Zenon, <1>1, <1>2 DEF StoredOK
  <2>3. KeyOK' BY Zenon, <1>1, <1>2, <2>1 DEF KeyOK
  <2>. QED BY Zenon, <2>1, <2>2, <2>3
<1>3. CASE key.state = "part" /\ Gone /\ refused' = TRUE /\ UNCHANGED <<key, generated>>
  <2>1. ProcessOK' /\ stage' = "down" BY Zenon, <1>3, GoneTyped
  <2>2. StoredOK' BY Zenon, <1>1, <1>3 DEF StoredOK
  <2>3. KeyOK' BY Zenon, <1>1, <1>3, <2>1 DEF KeyOK
  <2>. QED BY Zenon, <2>1, <2>2, <2>3
<1>4. CASE key.state = "none" /\ key' = PartStored /\ GoTo("writeKey") /\ UNCHANGED <<generated, refused>>
  <2>1. ProcessOK' /\ stage' = "writeKey" BY Zenon, <1>0, <1>4, GoToTyped
  <2>2. StoredOK' BY Zenon, <1>1, <1>4 DEF StoredOK, PartStored, NoStored, StoredKey
  <2>3. KeyOK' BY Zenon, <1>1, <1>4, <2>1 DEF KeyOK, PartStored, NoStored
  <2>. QED BY Zenon, <2>1, <2>2, <2>3
<1>5. CASE Fails BY Zenon, <1>1, <1>5, FailsKeeps
<1>. QED BY Zenon, <1>2, <1>3, <1>4, <1>5 DEF LoadKeyFile

LEMMA WriteKeyKeeps ==
  ASSUME ProcessOK, StoredOK, KeyOK, WriteKeyFile
  PROVE ProcessOK' /\ StoredOK' /\ KeyOK'
<1>0. "syncKey" \in Stages BY Zenon DEF Stages, Starting
<1>1. stage = "writeKey" /\ UNCHANGED <<advertised, refused, faults>> BY Zenon DEF WriteKeyFile
<1>2. ASSUME NEW id \in EndpointKey \ generated, key' = Whole(id, FALSE),
             generated' = generated \cup {id}, GoTo("syncKey"), UNCHANGED interrupted
      PROVE ProcessOK' /\ StoredOK' /\ KeyOK'
  <2>1. ProcessOK' /\ stage' = "syncKey" BY Zenon, <1>0, <1>2, GoToTyped
  <2>2. StoredOK' BY Zenon, <1>1, <1>2 DEF StoredOK, Whole, StoredKey
  <2>3. KeyOK' BY Zenon, <1>1, <1>2, <2>1 DEF KeyOK, Whole
  <2>. QED BY Zenon, <2>1, <2>2, <2>3
<1>3. CASE Gone /\ interrupted' = TRUE /\ UNCHANGED <<key, generated>>
  <2>1. ProcessOK' /\ stage' = "down" BY Zenon, <1>3, GoneTyped
  <2>2. StoredOK' BY Zenon, <1>1, <1>3 DEF StoredOK
  <2>3. KeyOK' BY Zenon, <1>1, <1>3, <2>1 DEF KeyOK
  <2>. QED BY Zenon, <2>1, <2>2, <2>3
<1>. QED BY Zenon, <1>2, <1>3 DEF WriteKeyFile

\* A whole key that is synced stays the same key.
LEMMA SyncedKey ==
  ASSUME StoredOK, key.state = "whole", key' = [key EXCEPT !.synced = TRUE]
  PROVE /\ key' \in StoredKey /\ key'.state = "whole" /\ key'.synced /\ key'.id = key.id
  BY Zenon DEF StoredOK, StoredKey

LEMMA SyncKeyKeeps ==
  ASSUME ProcessOK, StoredOK, KeyOK, SyncKeyFile
  PROVE ProcessOK' /\ StoredOK' /\ KeyOK'
<1>0. "bind" \in Stages BY Zenon DEF Stages, Starting
<1>1. stage = "syncKey" /\ UNCHANGED <<generated, advertised, refused, faults>>
  BY Zenon DEF SyncKeyFile
<1>2. CASE key' = [key EXCEPT !.synced = TRUE] /\ GoTo("bind") /\ UNCHANGED interrupted
  <2>1. ProcessOK' /\ stage' = "bind" BY Zenon, <1>0, <1>2, GoToTyped
  <2>2. key.state = "whole" BY Zenon, <1>1 DEF KeyOK
  <2>3. key' \in StoredKey /\ key'.state = "whole" /\ key'.synced /\ key'.id = key.id
    BY Zenon, <1>2, <2>2, SyncedKey
  <2>4. StoredOK' BY Zenon, <1>1, <1>2, <2>3 DEF StoredOK
  <2>5. KeyOK' BY <1>1, <1>2, <2>1, <2>3 DEF KeyOK
  <2>. QED BY Zenon, <2>1, <2>4, <2>5
<1>3. CASE Gone /\ interrupted' = TRUE /\ UNCHANGED key
  <2>1. ProcessOK' /\ stage' = "down" BY Zenon, <1>3, GoneTyped
  <2>2. StoredOK' BY Zenon, <1>1, <1>3 DEF StoredOK
  <2>3. KeyOK' BY Zenon, <1>1, <1>3, <2>1 DEF KeyOK
  <2>. QED BY Zenon, <2>1, <2>2, <2>3
<1>. QED BY Zenon, <1>2, <1>3 DEF SyncKeyFile

LEMMA WritebackKeeps ==
  ASSUME ProcessOK, StoredOK, KeyOK, Writeback
  PROVE ProcessOK' /\ StoredOK' /\ KeyOK'
<1>1. key' \in StoredKey /\ key'.state = "whole" /\ key'.synced /\ key'.id = key.id
  BY Zenon, SyncedKey DEF Writeback
<1>2. key.state = "whole" /\ UNCHANGED <<server, volatile, generated, advertised, interrupted, refused, faults>>
  BY Zenon DEF Writeback
<1>3. ProcessOK' BY Zenon, <1>2 DEF volatile, ProcessOK
<1>4. StoredOK' BY Zenon, <1>1, <1>2 DEF StoredOK
<1>5. KeyOK' BY Zenon, <1>1, <1>2 DEF KeyOK, volatile
<1>. QED BY Zenon, <1>3, <1>4, <1>5

LEMMA BindKeeps ==
  ASSUME ProcessOK, StoredOK, KeyOK, BindEndpoint
  PROVE ProcessOK' /\ StoredOK' /\ KeyOK'
<1>1. /\ stage = "bind" /\ stage' = "services" /\ endpoint' = key.id
      /\ advertised' = advertised \cup {key.id}
      /\ UNCHANGED <<server, config, background, http, cancelled, requests, key,
                     generated, interrupted, refused, faults>>
  BY Zenon DEF BindEndpoint
<1>2. key.state = "whole" /\ key.id \in generated BY Zenon, <1>1 DEF KeyOK
<1>3. key.id \in EndpointKey BY Zenon, <1>2 DEF StoredOK
<1>4. ProcessOK' BY Zenon, <1>1, <1>3 DEF ProcessOK, Stages, Starting
<1>5. StoredOK' BY Zenon, <1>1, <1>2 DEF StoredOK
<1>6. ~interrupted => key.synced /\ (advertised = {} \/ advertised = {key.id})
  BY Zenon, <1>1, <1>2 DEF KeyOK
<1>7. KeyOK' BY Zenon, <1>1, <1>2, <1>6 DEF KeyOK
<1>. QED BY Zenon, <1>4, <1>5, <1>7

LEMMA FaultKeeps ==
  ASSUME ProcessOK, StoredOK, KeyOK, Kill \/ LosePower
  PROVE ProcessOK' /\ StoredOK' /\ KeyOK'
<1>1. /\ Gone /\ UNCHANGED <<generated, advertised, refused>>
      /\ faults < MaxFaults /\ faults' = faults + 1
      /\ interrupted' = (interrupted \/ stage \in {"writeKey", "syncKey"})
  BY Zenon DEF Kill, LosePower
<1>2. ProcessOK' /\ stage' = "down" BY Zenon, <1>1, GoneTyped
<1>3. faults' \in 0 .. MaxFaults BY <1>1, ServerAssumption DEF StoredOK
<1>4. key' \in {NoStored, PartStored, key} BY Zenon DEF Kill, LosePower
<1>5. key' \in StoredKey BY Zenon, <1>4, NotWhole DEF StoredOK
<1>6. StoredOK' BY Zenon, <1>1, <1>3, <1>5 DEF StoredOK
<1>7. key'.state = "whole" => key' = key BY Zenon, <1>4, NotWhole
<1>8. ~interrupted' => key' = key
  <2>. SUFFICES ASSUME ~interrupted' PROVE key' = key BY Zenon
  <2>1. ~interrupted /\ stage \notin {"writeKey", "syncKey"} BY Zenon, <1>1
  <2>2. key.state # "part" /\ (key.state = "whole" => key.synced) BY Zenon, <2>1 DEF KeyOK
  <2>3. key.state = "none" \/ key.state = "whole" BY Zenon, <2>2 DEF StoredOK, StoredKey
  <2>4. CASE key.state = "whole" BY Zenon, <2>2, <2>4 DEF Kill, LosePower
  <2>5. CASE key.state = "none"
    <3>1. key = NoStored BY Zenon, <2>5 DEF StoredOK, StoredKey, NoStored
    <3>. QED BY Zenon, <2>5, <3>1 DEF Kill, LosePower
  <2>. QED BY Zenon, <2>3, <2>4, <2>5
<1>9. KeyOK'
  <2>1. key'.state = "whole" => key'.id \in generated' BY Zenon, <1>1, <1>7 DEF KeyOK
  <2>2. stage' \notin KeyStages BY Zenon, <1>2 DEF KeyStages
  <2>3. ~interrupted' => /\ ~refused'
                         /\ key'.state # "part"
                         /\ key'.state = "whole" => key'.synced
                         /\ advertised' # {} => /\ key'.state = "whole"
                                                /\ key'.synced
                                                /\ advertised' = {key'.id}
    BY Zenon, <1>1, <1>8 DEF KeyOK
  <2>. QED BY Zenon, <2>1, <2>2, <2>3 DEF KeyOK, KeyStages
<1>. QED BY Zenon, <1>2, <1>6, <1>9

-----------------------------------------------------------------------------

\* A step of a task or of the end of the process, which changes nothing that is stored.
LEMMA ProcessKeeps ==
  ASSUME ProcessOK, StoredOK, KeyOK, ProcessOK', UNCHANGED stored,
         stage' = stage \/ (stage \notin {"writeKey", "syncKey"} /\ stage' \notin KeyStages)
  PROVE ProcessOK' /\ StoredOK' /\ KeyOK'
  BY Zenon, StoredKept

LEMMA ServiceKeeps ==
  ASSUME ProcessOK, StoredOK, KeyOK,
         SpawnStorageRefresh \/ StartReplication \/ StartIdpTasks \/ SpawnServe
  PROVE ProcessOK' /\ StoredOK' /\ KeyOK'
<1>1. CASE SpawnStorageRefresh
  <2>1. ProcessOK' BY Zenon, <1>1 DEF SpawnStorageRefresh, ProcessOK, Tasks, Stages, Starting
  <2>. QED BY Zenon, <1>1, <2>1, ProcessKeeps DEF SpawnStorageRefresh, KeyStages
<1>2. CASE StartReplication
  <2>1. stage = "runtimes" BY Zenon, <1>2 DEF StartReplication
  <2>2. CASE Fails BY Zenon, <2>1, <2>2, FailsKeeps
  <2>3. CASE ~Fails
    <3>1. ProcessOK'
      BY Zenon, <1>2, <2>3 DEF StartReplication, ProcessOK, Tasks, Stages, Starting
    <3>. QED BY Zenon, <1>2, <2>3, <3>1, ProcessKeeps DEF StartReplication, KeyStages
  <2>. QED BY Zenon, <2>2, <2>3
<1>3. CASE StartIdpTasks
  <2>1. ProcessOK' BY Zenon, <1>3 DEF StartIdpTasks, ProcessOK, Tasks, Stages, Starting
  <2>. QED BY Zenon, <1>3, <2>1, ProcessKeeps DEF StartIdpTasks, KeyStages
<1>4. CASE SpawnServe
  <2>1. ProcessOK' BY Zenon, <1>4 DEF SpawnServe, ProcessOK, Stages
  <2>. QED BY Zenon, <1>4, <2>1, ProcessKeeps DEF SpawnServe, KeyStages
<1>. QED BY Zenon, <1>1, <1>2, <1>3, <1>4

LEMMA TaskKeeps ==
  ASSUME ProcessOK, StoredOK, KeyOK,
         \/ TaskStep \/ RefreshAgain \/ SpawnSession \/ SessionsEnd
         \/ \E r \in HttpRequest : AcceptRequest(r) \/ AnswerRequest(r)
  PROVE ProcessOK' /\ StoredOK' /\ KeyOK'
<1>1. CASE ServeBinds \/ ServeShutsDown \/ \E r \in HttpRequest : AcceptRequest(r) \/ AnswerRequest(r)
  <2>1. UNCHANGED onlyHttp
    BY Zenon, <1>1 DEF ServeBinds, ServeShutsDown, AcceptRequest, AnswerRequest
  <2>2. http' \in {"off", "binding", "listening", "draining", "ended"} /\ requests' \subseteq HttpRequest
    BY Zenon, <1>1 DEF ServeBinds, ServeShutsDown, AcceptRequest, AnswerRequest, ProcessOK
  <2>3. ProcessOK' BY Zenon, <2>1, <2>2 DEF onlyHttp, ProcessOK
  <2>. QED BY Zenon, <2>1, <2>3, ProcessKeeps DEF onlyHttp
<1>2. CASE RefreshReturns \/ RefreshCancelled \/ SyncTaskEnds \/ RefreshAgain \/ SpawnSession
             \/ SessionsEnd
  <2>1. UNCHANGED onlyTasks
    BY Zenon, <1>2 DEF RefreshReturns, RefreshCancelled, SyncTaskEnds, RefreshAgain, SpawnSession,
       SessionsEnd
  <2>2. background' \in Tasks
    BY Zenon, <1>2 DEF RefreshReturns, RefreshCancelled, SyncTaskEnds, RefreshAgain, Refresher,
       SpawnSession, SessionsEnd, ProcessOK, Tasks
  <2>3. ProcessOK' BY Zenon, <2>1, <2>2 DEF onlyTasks, ProcessOK
  <2>. QED BY Zenon, <2>1, <2>3, ProcessKeeps DEF onlyTasks
<1>. QED BY Zenon, <1>1, <1>2 DEF TaskStep

LEMMA StopKeeps ==
  ASSUME ProcessOK, StoredOK, KeyOK,
         \/ Signal \/ AbortSync \/ AwaitSync \/ AwaitRefresh \/ CloseEndpoint \/ AbortRefresh
         \/ Drained \/ TimedOut
  PROVE ProcessOK' /\ StoredOK' /\ KeyOK'
<1>1. CASE Signal
  <2>1. server \in {"idp", "management", "storage"} BY Zenon, ServerAssumption DEF ProcessOK
  <2>2. stage' \in Stopping BY Zenon, <1>1, <2>1 DEF Signal, Stopping
  <2>3. ProcessOK' BY Zenon, <1>1, <2>2 DEF Signal, ProcessOK, Stages
  <2>4. stage' \notin KeyStages BY Zenon, <2>2 DEF KeyStages, Stopping
  <2>. QED BY Zenon, <1>1, <2>3, <2>4, ProcessKeeps DEF Signal
<1>2. CASE AbortSync
  <2>1. ProcessOK' BY Zenon, <1>2 DEF AbortSync, ProcessOK, Tasks, Stages, Stopping
  <2>. QED BY Zenon, <1>2, <2>1, ProcessKeeps DEF AbortSync, KeyStages
<1>3. CASE AwaitSync
  <2>1. ProcessOK' BY Zenon, <1>3 DEF AwaitSync, ProcessOK, Tasks, Stages, Stopping
  <2>. QED BY Zenon, <1>3, <2>1, ProcessKeeps DEF AwaitSync, KeyStages
<1>4. CASE AwaitRefresh
  <2>1. "close" \in Stages \ KeyStages BY Zenon DEF Stages, Stopping, KeyStages
  <2>2. stage \notin {"writeKey", "syncKey"} /\ GoTo("close") /\ UNCHANGED stored
    BY Zenon, <1>4 DEF AwaitRefresh
  <2>. QED BY Zenon, <2>1, <2>2, GoToKeeps
<1>5. CASE CloseEndpoint
  <2>1. ProcessOK' BY Zenon, <1>5 DEF CloseEndpoint, ProcessOK, Stages, Stopping
  <2>. QED BY Zenon, <1>5, <2>1, ProcessKeeps DEF CloseEndpoint, KeyStages
<1>6. CASE AbortRefresh
  <2>1. ProcessOK'
    BY Zenon, <1>6 DEF AbortRefresh, Refresher, ProcessOK, Tasks, Stages, Stopping
  <2>. QED BY Zenon, <1>6, <2>1, ProcessKeeps DEF AbortRefresh, KeyStages
<1>7. CASE Drained \/ TimedOut
  <2>1. stage = "drain" /\ Gone /\ UNCHANGED stored BY Zenon, <1>7 DEF Drained, TimedOut
  <2>2. ProcessOK' /\ stage' = "down" BY Zenon, <2>1, GoneTyped
  <2>. QED BY Zenon, <2>1, <2>2, ProcessKeeps DEF KeyStages
<1>. QED BY Zenon, <1>1, <1>2, <1>3, <1>4, <1>5, <1>6, <1>7

LEMMA ServerStep == ServerInv /\ [ServerNext]_serverVars => ServerInv'
<1>. SUFFICES ASSUME ServerInv, [ServerNext]_serverVars PROVE ServerInv' BY Zenon
<1>1. ProcessOK /\ StoredOK /\ KeyOK BY Zenon, ServerTypes DEF ServerInv
<1>. SUFFICES ProcessOK' /\ StoredOK' /\ KeyOK' BY Zenon, ServerTypesNext DEF ServerInv
<1>2. CASE UNCHANGED serverVars
  <2>1. ProcessOK' BY Zenon, <1>1, <1>2 DEF serverVars, volatile, ProcessOK
  <2>2. UNCHANGED stored /\ stage' = stage BY Zenon, <1>2 DEF serverVars, volatile, stored
  <2>. QED BY Zenon, <1>1, <2>1, <2>2, ProcessKeeps
<1>3. CASE stage = "bind" /\ Fails BY Zenon, <1>1, <1>3, FailsKeeps
<1>. QED BY Zenon, <1>1, <1>2, <1>3, ConfigureKeeps, KeyRingKeeps, KeyFileKeeps, WriteKeyKeeps,
     SyncKeyKeeps, WritebackKeeps, BindKeeps, ServiceKeeps, TaskKeeps, StopKeeps, FaultKeeps
     DEF ServerNext, MainStep

\* Type correctness of ServerLife: stages, stored key, tasks and requests.
THEOREM ServerTypeCorrect == ServerSpec => []ServerTypeOK
<1>1. ServerInv => ServerTypeOK BY Zenon DEF ServerInv
<1>. QED BY <1>1, ServerInitInv, ServerStep, PTL DEF ServerSpec

\* load_or_create_endpoint_key: no start refuses the key file and peers never see a second
\* key, unless some start ended while it was creating the key.
THEOREM KeyLossCause == ServerSpec => []KeyLossHasCause
<1>1. ServerInv => KeyLossHasCause
  <2>. SUFFICES ASSUME ServerInv, ~interrupted PROVE ~refused /\ ~(Cardinality(advertised) > 1)
    BY Zenon DEF KeyLossHasCause
  <2>1. ~refused /\ (advertised = {} \/ advertised = {key.id}) BY Zenon DEF ServerInv, KeyOK
  <2>2. Cardinality(advertised) \in {0, 1} BY Zenon, <2>1, FS_EmptySet, FS_Singleton
  <2>. QED BY <2>1, <2>2
<1>. QED BY <1>1, ServerInitInv, ServerStep, PTL DEF ServerSpec

-----------------------------------------------------------------------------
(* The tasks of a process and its endpoint                                  *)

\* Tasks are spawned where the endpoint is bound, and where it is about to be closed
\* none is left.
TasksOK ==
  /\ HeldTasksHaveEndpoint
  /\ stage = "services" => endpoint # NoKey
  /\ stage = "runtimes" /\ server = "idp" => endpoint # NoKey
  /\ stage = "stopRefresh" /\ server = "storage" => background.sync = "off" /\ ~background.peers
  /\ stage = "close" => ~Held

\* The stages TasksOK speaks of.
TaskStages == {"services", "runtimes", "stopRefresh", "close"}

\* A step that touches neither endpoint nor tasks.
LEMMA TasksQuiet ==
  ASSUME TasksOK, UNCHANGED <<server, endpoint, background>>,
         stage' = stage \/ stage' \notin TaskStages
  PROVE TasksOK'
  BY Zenon DEF TasksOK, HeldTasksHaveEndpoint, Held, TaskStages

LEMMA TasksGone == ASSUME Gone PROVE TasksOK'
<1>1. ~Held' BY DEF Gone, Held, NoTasks
<1>. QED BY Zenon, <1>1 DEF Gone, TasksOK, HeldTasksHaveEndpoint

\* The main task goes on to a stage in which a start has nothing to show yet.
LEMMA TasksGoTo == ASSUME TasksOK, NEW s, GoTo(s), s \notin TaskStages PROVE TasksOK'
  BY Zenon, TasksQuiet DEF GoTo

\* A step that keeps the endpoint and starts nothing where nothing runs.
LEMMA TasksKept ==
  ASSUME TasksOK, UNCHANGED <<server, endpoint>>, Held' => Held,
         (stage' = stage /\ stage \notin TaskStages) \/ stage' \notin TaskStages
  PROVE TasksOK'
  BY Zenon DEF TasksOK, HeldTasksHaveEndpoint, Held, TaskStages

\* A start, up to the endpoint.
LEMMA TasksBefore ==
  ASSUME TasksOK,
         Launch \/ ConfigureStorage \/ ConfigureManagement \/ OpenManagementStore \/ OpenIdpStore
  PROVE TasksOK'
<1>1. CASE Launch
  BY Zenon, <1>1, TasksQuiet DEF Launch, TaskStages
<1>2. CASE ConfigureStorage
  <2>1. CASE Gone BY Zenon, <2>1, TasksGone
  <2>2. CASE GoTo("key") BY Zenon, <2>2, TasksGoTo DEF TaskStages
  <2>3. CASE GoTo("runtimes")
    BY Zenon, <1>2, <2>3 DEF ConfigureStorage, GoTo, TasksOK, HeldTasksHaveEndpoint, Held
  <2>. QED BY Zenon, <1>2, <2>1, <2>2, <2>3 DEF ConfigureStorage, Fails
<1>3. CASE ConfigureManagement
  BY Zenon, <1>3, TasksGone, TasksGoTo DEF ConfigureManagement, Fails, TaskStages
<1>4. CASE OpenManagementStore
  BY Zenon, <1>4, TasksGone, TasksGoTo DEF OpenManagementStore, Fails, TaskStages
<1>5. CASE OpenIdpStore
  BY Zenon, <1>5, TasksGone, TasksGoTo DEF OpenIdpStore, Fails, TaskStages
<1>. QED BY Zenon, <1>1, <1>2, <1>3, <1>4, <1>5

LEMMA TasksKey ==
  ASSUME TasksOK, LoadKeyringKey \/ LoadKeyFile \/ WriteKeyFile \/ SyncKeyFile \/ Writeback
  PROVE TasksOK'
<1>1. CASE Writeback BY Zenon, <1>1, TasksQuiet DEF Writeback, volatile
<1>2. CASE ~Writeback
  BY Zenon, <1>2, TasksGone, TasksGoTo
     DEF LoadKeyringKey, LoadKeyFile, WriteKeyFile, SyncKeyFile, Fails, TaskStages
<1>. QED BY Zenon, <1>1, <1>2

\* The endpoint is bound under a key that was generated.
LEMMA TasksBind == ASSUME StoredOK, KeyOK, TasksOK, BindEndpoint PROVE TasksOK'
<1>1. key.id \in EndpointKey BY Zenon DEF BindEndpoint, KeyOK, StoredOK
<1>2. endpoint' # NoKey BY Zenon, <1>1, ServerAssumption DEF BindEndpoint
<1>. QED BY Zenon, <1>2 DEF BindEndpoint, TasksOK, HeldTasksHaveEndpoint, Held

LEMMA TasksService ==
  ASSUME TasksOK,
         \/ BuildIdpServices \/ SpawnStorageRefresh \/ StartReplication \/ StartIdpTasks
         \/ SpawnServe
  PROVE TasksOK'
<1>1. CASE BuildIdpServices
  <2>1. CASE Gone BY Zenon, <2>1, TasksGone
  <2>2. CASE GoTo("runtimes")
    BY Zenon, <1>1, <2>2 DEF BuildIdpServices, GoTo, TasksOK, HeldTasksHaveEndpoint, Held
  <2>. QED BY Zenon, <1>1, <2>1, <2>2 DEF BuildIdpServices, Fails
<1>2. CASE SpawnStorageRefresh
  BY Zenon, <1>2 DEF SpawnStorageRefresh, TasksOK, HeldTasksHaveEndpoint, Held
<1>3. CASE StartReplication
  <2>1. CASE Gone BY Zenon, <2>1, TasksGone
  <2>2. CASE ~Gone
    BY Zenon, <1>3, <2>2 DEF StartReplication, Fails, TasksOK, HeldTasksHaveEndpoint, Held
  <2>. QED BY Zenon, <2>1, <2>2
<1>4. CASE StartIdpTasks
  BY Zenon, <1>4 DEF StartIdpTasks, TasksOK, HeldTasksHaveEndpoint, Held
<1>5. CASE SpawnServe BY Zenon, <1>5, TasksQuiet DEF SpawnServe, TaskStages
<1>. QED BY Zenon, <1>1, <1>2, <1>3, <1>4, <1>5

\* A background task moves only while it runs, and none starts another one.
LEMMA TasksMove ==
  ASSUME ProcessOK, TasksOK,
         \/ TaskStep \/ RefreshAgain \/ SpawnSession \/ SessionsEnd
         \/ \E r \in HttpRequest : AcceptRequest(r) \/ AnswerRequest(r)
  PROVE TasksOK'
<1>1. CASE ServeBinds \/ ServeShutsDown \/ \E r \in HttpRequest : AcceptRequest(r) \/ AnswerRequest(r)
  BY Zenon, <1>1, TasksQuiet
     DEF ServeBinds, ServeShutsDown, AcceptRequest, AnswerRequest, onlyHttp
<1>2. CASE RefreshReturns \/ RefreshCancelled \/ SyncTaskEnds \/ RefreshAgain
  <2>1. UNCHANGED onlyTasks
    BY Zenon, <1>2 DEF RefreshReturns, RefreshCancelled, SyncTaskEnds, RefreshAgain
  <2>2. background.refresher # "off" \/ background.sync # "off"
    BY Zenon, <1>2 DEF RefreshReturns, RefreshCancelled, SyncTaskEnds, RefreshAgain
  <2>3. Held BY Zenon, <2>2 DEF Held
  <2>4. background.sync = "off" /\ ~background.peers => background'.sync = "off" /\ ~background'.peers
    BY Zenon, <1>2 DEF RefreshReturns, RefreshCancelled, SyncTaskEnds, RefreshAgain, Refresher,
       ProcessOK, Tasks
  <2>. QED BY Zenon, <2>1, <2>3, <2>4 DEF onlyTasks, TasksOK, HeldTasksHaveEndpoint, Held
<1>3. CASE SpawnSession \/ SessionsEnd
  <2>1. UNCHANGED onlyTasks BY Zenon, <1>3 DEF SpawnSession, SessionsEnd
  <2>2. /\ background'.refresher = background.refresher /\ background'.sync = background.sync
        /\ background'.peers = background.peers
    BY Zenon, <1>3 DEF SpawnSession, SessionsEnd, ProcessOK, Tasks
  <2>. QED BY Zenon, <2>1, <2>2 DEF onlyTasks, TasksOK, HeldTasksHaveEndpoint, Held
<1>. QED BY Zenon, <1>1, <1>2, <1>3 DEF TaskStep

\* The order in which a process comes down.
LEMMA TasksStop ==
  ASSUME ProcessOK, TasksOK,
         \/ Signal \/ AbortSync \/ AwaitSync \/ AwaitRefresh \/ CloseEndpoint \/ AbortRefresh
         \/ Drained \/ TimedOut
  PROVE TasksOK'
<1>1. CASE Signal
  <2>1. server \in {"idp", "management", "storage"} BY Zenon, ServerAssumption DEF ProcessOK
  <2>2. stage' \notin TaskStages \/ (stage' = "stopRefresh" /\ server # "storage")
    <3>1. server = "idp" => stage' = "stopRefresh" BY Zenon, <1>1 DEF Signal
    <3>2. server = "storage" => stage' = "stopSync" BY Zenon, <1>1 DEF Signal
    <3>3. server = "management" => stage' = "drain" BY Zenon, <1>1 DEF Signal
    <3>. QED BY <2>1, <3>1, <3>2, <3>3 DEF TaskStages
  <2>. QED
    BY Zenon, <1>1, <2>2 DEF Signal, TasksOK, HeldTasksHaveEndpoint, Held, TaskStages
<1>2. CASE AbortSync
  <2>1. Held' => Held
    BY Zenon, <1>2 DEF AbortSync, Held, ProcessOK, Tasks
  <2>. QED BY Zenon, <1>2, <2>1, TasksKept DEF AbortSync, TaskStages
<1>3. CASE AwaitSync
  <2>1. Held' => Held
    BY Zenon, <1>3 DEF AwaitSync, Held, ProcessOK, Tasks
  <2>2. background'.sync = "off" /\ ~background'.peers
    BY Zenon, <1>3 DEF AwaitSync, ProcessOK, Tasks
  <2>. QED
    BY Zenon, <1>3, <2>1, <2>2 DEF AwaitSync, TasksOK, HeldTasksHaveEndpoint, Held
<1>4. CASE AwaitRefresh
  <2>1. background.refresher = "off" /\ background.sync = "off" /\ background.peers = FALSE
    BY Zenon, <1>4 DEF AwaitRefresh, TasksOK, ProcessOK, Tasks
  <2>2. ~Held BY Zenon, <2>1 DEF Held
  <2>. QED
    BY Zenon, <1>4, <2>2 DEF AwaitRefresh, GoTo, TasksOK, HeldTasksHaveEndpoint, Held
<1>5. CASE CloseEndpoint
  BY Zenon, <1>5 DEF CloseEndpoint, TasksOK, HeldTasksHaveEndpoint, Held
<1>6. CASE AbortRefresh
  <2>1. Held' => Held
    BY Zenon, <1>6 DEF AbortRefresh, Refresher, Held, ProcessOK, Tasks
  <2>. QED BY Zenon, <1>6, <2>1, TasksKept DEF AbortRefresh, TaskStages
<1>7. CASE Drained \/ TimedOut BY Zenon, <1>7, TasksGone DEF Drained, TimedOut
<1>. QED BY Zenon, <1>1, <1>2, <1>3, <1>4, <1>5, <1>6, <1>7

LEMMA TasksNext == ServerInv /\ TasksOK /\ [ServerNext]_serverVars => TasksOK'
<1>. SUFFICES ASSUME ServerInv, TasksOK, [ServerNext]_serverVars PROVE TasksOK' BY Zenon
<1>1. ProcessOK /\ StoredOK /\ KeyOK BY Zenon, ServerTypes DEF ServerInv
<1>2. CASE UNCHANGED serverVars BY Zenon, <1>2, TasksQuiet DEF serverVars, volatile
<1>3. CASE (stage = "bind" /\ Fails) \/ Kill \/ LosePower
  BY Zenon, <1>3, TasksGone DEF Fails, Kill, LosePower
<1>. QED BY Zenon, <1>1, <1>2, <1>3, TasksBefore, TasksKey, TasksBind, TasksService, TasksMove,
     TasksStop DEF ServerNext, MainStep

\* However a start fails and in whatever order tasks end when a signal comes, neither
\* the refresh, the replication task nor the router that lets peers in is left on an
\* endpoint that is closed or was never bound (run() of the three servers).  The sync
\* sessions peers have begun are tasks of their own, of which this says nothing.
THEOREM EndpointOutlivesHeldTasks == ServerSpec => []HeldTasksHaveEndpoint
<1>1. ServerInit => TasksOK
  <2>1. ServerInit => ~Held BY DEF ServerInit, Held, NoTasks
  <2>. QED BY Zenon, <2>1 DEF ServerInit, TasksOK, HeldTasksHaveEndpoint
<1>2. TasksOK => HeldTasksHaveEndpoint BY Zenon DEF TasksOK
<1>. QED BY <1>1, <1>2, ServerInitInv, ServerStep, TasksNext, PTL DEF ServerSpec

-----------------------------------------------------------------------------
(* Overlapping requests                                                    *)

-----------------------------------------------------------------------------

\* The operators of StorageRequests over a history of changes s.
RevisionsIn(s, p) == {i \in DOMAIN s : s[i].path = p}
LatestIn(s, p) == IF RevisionsIn(s, p) = {} THEN 0
                  ELSE CHOOSE i \in RevisionsIn(s, p) : \A j \in RevisionsIn(s, p) : j =< i

\* A history: what is not a file has no size, and a size grows by the appends only.
HistoryOK(s) ==
  /\ s \in Seq(StorageChange)
  /\ Len(s) =< MaxChanges
  /\ \A i \in 1 .. Len(s) : (s[i].kind # "file" => s[i].size = 0) /\ s[i].size =< i + 1

\* t goes on from s.
Extends(s, t) == Len(s) =< Len(t) /\ \A i \in 1 .. Len(s) : t[i] = s[i]

RequestType ==
  [pc : {"rest", "lookup", "describe", "refused"}, path : FilePath \cup {"none"}, own : Nat,
   since : Nat, todo : Seq(Nat), entries : SUBSET [revision : Nat, size : Nat],
   failed : BOOLEAN]

\* A revision the request may answer with: no older than the change it made itself, and
\* the one its path had at some moment since the request came in.
Timely(r, call, s) ==
  /\ r \in 1 .. Len(s)
  /\ r >= call.own
  /\ call.own # 0 => s[r].path = call.path
  /\ \A j \in RevisionsIn(s, s[r].path) : j > r => j > call.since

CallOK(call, s) ==
  /\ call.own =< Len(s) /\ call.since =< Len(s)
  /\ call.own # 0 => s[call.own].path = call.path /\ s[call.own].kind # "gone"
  /\ call.pc = "lookup" => call.own # 0
  /\ \A i \in DOMAIN call.todo : Timely(call.todo[i], call, s)
  /\ \A e \in call.entries :
        /\ Timely(e.revision, call, s)
        /\ \E i \in RevisionsIn(s, s[e.revision].path) : i >= e.revision /\ s[i].size = e.size
  /\ call.pc = "refused" /\ call.own # 0 =>
        call.failed \/ \E i \in RevisionsIn(s, call.path) : i > call.own

RequestsInv ==
  /\ HistoryOK(changes)
  /\ calls \in [Connection -> RequestType]
  /\ \A c \in Connection : CallOK(calls[c], changes)

LEMMA HistoryIs ==
  ASSUME NEW s, HistoryOK(s)
  PROVE s \in Seq(StorageChange) /\ Len(s) \in Nat /\ DOMAIN s = 1 .. Len(s)
  BY DEF HistoryOK

LEMMA LatestIs ==
  ASSUME NEW s, HistoryOK(s), NEW p
  PROVE /\ RevisionsIn(s, p) \subseteq 1 .. Len(s)
        /\ RevisionsIn(s, p) = {} => LatestIn(s, p) = 0
        /\ RevisionsIn(s, p) # {} => /\ LatestIn(s, p) \in RevisionsIn(s, p)
                                     /\ \A j \in RevisionsIn(s, p) : j =< LatestIn(s, p)
<1>. DEFINE S == RevisionsIn(s, p)
<1>1. Len(s) \in Nat /\ DOMAIN s = 1 .. Len(s) BY DEF HistoryOK
<1>2. S \subseteq 1 .. Len(s) BY Zenon, <1>1 DEF RevisionsIn
<1>3. S = {} => LatestIn(s, p) = 0 BY Zenon DEF LatestIn
<1>4. ASSUME S # {} PROVE LatestIn(s, p) \in S /\ \A j \in S : j =< LatestIn(s, p)
  <2>1. S \subseteq Nat /\ \A n \in S : n =< Len(s) BY <1>1, <1>2
  <2>2. \E m \in S : \A n \in S : n =< m
    <3>. HIDE DEF S
    <3>. QED BY Zenon, <1>1, <1>4, <2>1, Largest
  <2>. QED BY Zenon, <1>4, <2>2 DEF LatestIn
<1>. QED BY Zenon, <1>2, <1>3, <1>4

\* What the model's operators are.
LEMMA OperatorsAre ==
  ASSUME NEW p
  PROVE /\ Revisions(p) = RevisionsIn(changes, p)
        /\ Latest(p) = LatestIn(changes, p)
  BY Zenon DEF Revisions, Latest, RevisionsIn, LatestIn

\* A path that is there has a latest change that says so.
LEMMA PresentIs ==
  ASSUME HistoryOK(changes), NEW p, KindOf(p) # "gone"
  PROVE /\ Latest(p) \in RevisionsIn(changes, p)
        /\ \A j \in RevisionsIn(changes, p) : j =< Latest(p)
        /\ KindOf(p) = changes[Latest(p)].kind
        /\ SizeOf(p) = changes[Latest(p)].size
<1>1. Latest(p) # 0 BY Zenon DEF KindOf
<1>2. RevisionsIn(changes, p) # {} BY Zenon, <1>1, OperatorsAre, LatestIs
<1>3. /\ Latest(p) \in RevisionsIn(changes, p)
      /\ \A j \in RevisionsIn(changes, p) : j =< Latest(p)
  BY Zenon, <1>2, OperatorsAre, LatestIs
<1>. QED BY Zenon, <1>1, <1>3 DEF KindOf, SizeOf


\* What a request relies on stays so when others change the filesystem.
LEMMA RevisionsGrow ==
  ASSUME NEW s, NEW t, HistoryOK(s), HistoryOK(t), Extends(s, t), NEW p
  PROVE /\ \A i \in RevisionsIn(s, p) : i \in RevisionsIn(t, p) /\ t[i] = s[i]
        /\ \A i \in RevisionsIn(t, p) : i \in RevisionsIn(s, p) \/ i > Len(s)
<1>1. /\ Len(s) \in Nat /\ DOMAIN s = 1 .. Len(s)
      /\ Len(t) \in Nat /\ DOMAIN t = 1 .. Len(t)
  BY DEF HistoryOK
<1>. QED BY <1>1 DEF Extends, RevisionsIn

LEMMA TimelyGrows ==
  ASSUME NEW s, NEW t, HistoryOK(s), HistoryOK(t), Extends(s, t), NEW call \in RequestType,
         call.since =< Len(s), NEW r, Timely(r, call, s)
  PROVE Timely(r, call, t) /\ t[r] = s[r]
<1>1. Len(s) \in Nat /\ Len(t) \in Nat BY SMTT(30) DEF HistoryOK
<1>2. r \in 1 .. Len(t) /\ t[r] = s[r] BY <1>1 DEF Timely, Extends
<1>3. \A j \in RevisionsIn(t, s[r].path) : j > r => j > call.since
  <2>. SUFFICES ASSUME NEW j \in RevisionsIn(t, s[r].path), j > r PROVE j > call.since BY Zenon
  <2>1. j \in Nat /\ call.since \in Nat
    <3>1. RevisionsIn(t, s[r].path) \subseteq 1 .. Len(t) BY Zenon, LatestIs
    <3>2. j \in 1 .. Len(t) BY Zenon, <3>1
    <3>3. call.since \in Nat BY Zenon DEF RequestType
    <3>. QED BY <1>1, <3>2, <3>3
  <2>2. CASE j \in RevisionsIn(s, s[r].path) BY Zenon, <2>2 DEF Timely
  <2>3. CASE j > Len(s) BY <1>1, <2>1, <2>3
  <2>. QED BY <2>2, <2>3, RevisionsGrow
<1>. QED BY Zenon, <1>2, <1>3 DEF Timely

LEMMA CallGrows ==
  ASSUME NEW s, NEW t, HistoryOK(s), HistoryOK(t), Extends(s, t), NEW call \in RequestType,
         CallOK(call, s)
  PROVE CallOK(call, t)
<1>1. Len(s) \in Nat /\ Len(t) \in Nat /\ Len(s) =< Len(t) BY DEF HistoryOK, Extends
<1>2. call.own \in Nat /\ call.since \in Nat BY Zenon DEF RequestType
<1>3. call.own =< Len(s) /\ call.since =< Len(s) BY Zenon DEF CallOK
<1>4. call.own =< Len(t) /\ call.since =< Len(t) BY <1>1, <1>2, <1>3
<1>5. call.own # 0 => t[call.own].path = call.path /\ t[call.own].kind # "gone"
  <2>1. call.own # 0 => call.own \in 1 .. Len(s) BY <1>1, <1>2, <1>3
  <2>. QED BY Zenon, <2>1 DEF CallOK, Extends
<1>6. \A i \in DOMAIN call.todo : Timely(call.todo[i], call, t)
  BY ZenonT(30), <1>3, TimelyGrows DEF CallOK
<1>7. \A e \in call.entries :
        /\ Timely(e.revision, call, t)
        /\ \E i \in RevisionsIn(t, t[e.revision].path) : i >= e.revision /\ t[i].size = e.size
  <2>. SUFFICES ASSUME NEW e \in call.entries
                PROVE /\ Timely(e.revision, call, t)
                      /\ \E i \in RevisionsIn(t, t[e.revision].path) :
                            i >= e.revision /\ t[i].size = e.size
    BY Zenon
  <2>0. Timely(e.revision, call, s) BY Zenon DEF CallOK
  <2>1. Timely(e.revision, call, t) /\ t[e.revision] = s[e.revision]
    BY SMTT(30), <1>3, <2>0, TimelyGrows
  <2>2. PICK i \in RevisionsIn(s, s[e.revision].path) : i >= e.revision /\ s[i].size = e.size
    BY Zenon DEF CallOK
  <2>3. i \in RevisionsIn(t, s[e.revision].path) /\ t[i] = s[i] BY SMTT(30), RevisionsGrow
  <2>. QED BY Zenon, <2>1, <2>2, <2>3
<1>8. call.pc = "refused" /\ call.own # 0 =>
        call.failed \/ \E i \in RevisionsIn(t, call.path) : i > call.own
  BY Zenon, RevisionsGrow DEF CallOK
<1>. QED BY Zenon, <1>4, <1>5, <1>6, <1>7, <1>8 DEF CallOK

\* One request moves and the filesystem goes on.
LEMMA OneMoves ==
  ASSUME RequestsInv, HistoryOK(changes'), Extends(changes, changes'), NEW c \in Connection,
         NEW call \in RequestType, CallOK(call, changes'), calls' = [calls EXCEPT ![c] = call]
  PROVE RequestsInv'
<1>1. calls' \in [Connection -> RequestType] BY Zenon DEF RequestsInv
<1>2. ASSUME NEW d \in Connection PROVE CallOK(calls'[d], changes')
  <2>1. calls[d] \in RequestType /\ CallOK(calls[d], changes) /\ HistoryOK(changes)
    BY Zenon DEF RequestsInv
  <2>2. CallOK(calls[d], changes') BY Zenon, <2>1, CallGrows
  <2>3. calls'[d] = IF d = c THEN call ELSE calls[d] BY Zenon DEF RequestsInv
  <2>. QED BY Zenon, <2>2, <2>3
<1>. QED BY Zenon, <1>1, <1>2 DEF RequestsInv

LEMMA NoneMoves ==
  ASSUME RequestsInv, HistoryOK(changes'), Extends(changes, changes'), UNCHANGED calls
  PROVE RequestsInv'
<1>1. ASSUME NEW d \in Connection PROVE CallOK(calls'[d], changes')
  <2>1. calls[d] \in RequestType /\ CallOK(calls[d], changes) /\ HistoryOK(changes)
    BY Zenon DEF RequestsInv
  <2>. QED BY Zenon, <2>1, CallGrows
<1>. QED BY Zenon, <1>1 DEF RequestsInv

LEMMA ExtendsItself == ASSUME NEW s, HistoryOK(s) PROVE Extends(s, s)
  BY DEF HistoryOK, Extends

\* A request moves and the filesystem stays.
LEMMA OneReads ==
  ASSUME RequestsInv, NEW c \in Connection, NEW call \in RequestType, CallOK(call, changes),
         calls' = [calls EXCEPT ![c] = call], UNCHANGED changes
  PROVE RequestsInv'
<1>1. HistoryOK(changes') /\ Extends(changes, changes') /\ CallOK(call, changes')
  BY Zenon, ExtendsItself DEF RequestsInv
<1>. QED BY Zenon, <1>1, OneMoves


\* A change is a change.
LEMMA MadeTyped ==
  ASSUME NEW p \in FilePath, NEW kind \in Kinds, NEW size \in 0 .. 2 * MaxChanges
  PROVE /\ Made(p, kind, size) \in StorageChange
        /\ Made(p, kind, size).path = p
        /\ Made(p, kind, size).kind = kind
        /\ Made(p, kind, size).size = size
  BY Zenon DEF Made, StorageChange

LEMMA AddOne ==
  ASSUME NEW s, HistoryOK(s), NEW p \in FilePath, NEW kind \in Kinds, NEW size \in Nat,
         kind # "file" => size = 0, size =< Len(s) + 2, Len(s) + 1 =< MaxChanges
  PROVE LET t == s \o <<Made(p, kind, size)>> IN
        /\ HistoryOK(t) /\ Extends(s, t) /\ Len(t) = Len(s) + 1
        /\ t[Len(s) + 1] = Made(p, kind, size)
<1>. DEFINE m == Made(p, kind, size)
            t == s \o <<m>>
<1>1. Len(s) \in Nat /\ s \in Seq(StorageChange) BY DEF HistoryOK
<1>2. size \in 0 .. 2 * MaxChanges BY <1>1, ChangesAssumption
<1>3. m \in StorageChange /\ m.kind = kind /\ m.size = size BY <1>2, MadeTyped
<1>. HIDE DEF m
<1>4. /\ t \in Seq(StorageChange) /\ Len(t) = Len(s) + 1
      /\ \A i \in 1 .. Len(s) : t[i] = s[i]
      /\ t[Len(s) + 1] = m
  BY <1>1, <1>3
<1>. HIDE DEF t
<1>5. Extends(s, t) BY <1>1, <1>4 DEF Extends
<1>6. HistoryOK(t)
  <2>1. \A i \in 1 .. Len(s) : (t[i].kind # "file" => t[i].size = 0) /\ t[i].size =< i + 1
    BY Zenon, <1>4 DEF HistoryOK
  <2>2. (m.kind # "file" => m.size = 0) /\ m.size =< (Len(s) + 1) + 1 BY <1>1, <1>3
  <2>3. \A i \in 1 .. Len(t) : i \in 1 .. Len(s) \/ i = Len(s) + 1 BY <1>1, <1>4
  <2>4. \A i \in 1 .. Len(t) : (t[i].kind # "file" => t[i].size = 0) /\ t[i].size =< i + 1
    BY Zenon, <1>4, <2>1, <2>2, <2>3
  <2>. QED BY Zenon, <1>1, <1>4, <2>4 DEF HistoryOK
<1>. QED BY Zenon, <1>4, <1>5, <1>6 DEF t, m

\* Two changes at once, as a rename makes them.
LEMMA AddTwo ==
  ASSUME NEW s, HistoryOK(s), NEW q \in FilePath, NEW kind \in Kinds, NEW size \in Nat,
         kind # "file" => size = 0, size =< Len(s) + 2, Len(s) + 2 =< MaxChanges,
         NEW p \in FilePath
  PROVE LET t == s \o <<Made(q, kind, size), Made(p, "gone", 0)>> IN
        HistoryOK(t) /\ Extends(s, t)
<1>. DEFINE a == Made(q, kind, size)
            b == Made(p, "gone", 0)
            t == s \o <<a, b>>
<1>1. Len(s) \in Nat /\ s \in Seq(StorageChange) BY Zenon, HistoryIs
<1>2. /\ a \in StorageChange /\ a.kind = kind /\ a.size = size
      /\ b \in StorageChange /\ b.size = 0
  <2>1. size \in 0 .. 2 * MaxChanges /\ 0 \in 0 .. 2 * MaxChanges BY <1>1, ChangesAssumption
  <2>2. "gone" \in Kinds BY Zenon DEF Kinds
  <2>. QED BY <2>1, <2>2, MadeTyped
<1>. HIDE DEF a, b
<1>3. /\ t \in Seq(StorageChange) /\ Len(t) = Len(s) + 2
      /\ \A i \in 1 .. Len(s) : t[i] = s[i]
      /\ t[Len(s) + 1] = a
      /\ t[Len(s) + 2] = b
  BY SMTT(30), <1>1, <1>2
<1>. HIDE DEF t
<1>4. Extends(s, t) BY <1>1, <1>3 DEF Extends
<1>5. HistoryOK(t)
  <2>1. \A i \in 1 .. Len(s) : (t[i].kind # "file" => t[i].size = 0) /\ t[i].size =< i + 1
    BY Zenon, <1>3 DEF HistoryOK
  <2>2. (a.kind # "file" => a.size = 0) /\ a.size =< (Len(s) + 1) + 1 BY <1>1, <1>2
  <2>3. b.size = 0 /\ b.size =< (Len(s) + 2) + 1 BY <1>1, <1>2
  <2>4. \A i \in 1 .. Len(t) : i \in 1 .. Len(s) \/ i = Len(s) + 1 \/ i = Len(s) + 2
    BY <1>1, <1>3
  <2>5. \A i \in 1 .. Len(t) : (t[i].kind # "file" => t[i].size = 0) /\ t[i].size =< i + 1
    BY Zenon, <1>3, <2>1, <2>2, <2>3, <2>4
  <2>. QED BY Zenon, <1>1, <1>3, <2>5 DEF HistoryOK
<1>. QED BY Zenon, <1>4, <1>5 DEF t, a, b

\* A request that asks: the revisions it is about to describe are the latest.
LEMMA AsksOK ==
  ASSUME NEW s, HistoryOK(s), NEW p \in FilePath \cup {"none"}, NEW todo \in Seq(Nat),
         \A i \in DOMAIN todo : \E q \in FilePath :
            /\ todo[i] \in RevisionsIn(s, q)
            /\ \A j \in RevisionsIn(s, q) : j =< todo[i]
  PROVE LET call == RequestAt("describe", p, 0, Len(s), todo) IN
        call \in RequestType /\ CallOK(call, s)
<1>. DEFINE call == RequestAt("describe", p, 0, Len(s), todo)
<1>1. Len(s) \in Nat /\ DOMAIN s = 1 .. Len(s) BY Zenon, HistoryIs
<1>2. call \in RequestType BY Zenon, <1>1 DEF RequestAt, RequestType
<1>3. /\ call.own = 0 /\ call.since = Len(s) /\ call.pc = "describe" /\ call.todo = todo
      /\ call.entries = {}
  BY Zenon DEF RequestAt
<1>4. ASSUME NEW i \in DOMAIN todo PROVE Timely(todo[i], call, s)
  <2>1. PICK q \in FilePath : /\ todo[i] \in RevisionsIn(s, q)
                              /\ \A j \in RevisionsIn(s, q) : j =< todo[i]
    BY Zenon, <1>4
  <2>2. todo[i] \in 1 .. Len(s) /\ s[todo[i]].path = q BY Zenon, <1>1, <2>1 DEF RevisionsIn
  <2>3. \A j \in RevisionsIn(s, q) : ~(j > todo[i])
    <3>. SUFFICES ASSUME NEW j \in RevisionsIn(s, q) PROVE ~(j > todo[i]) BY Zenon
    <3>1. j \in 1 .. Len(s) /\ j =< todo[i] BY Zenon, <1>1, <2>1 DEF RevisionsIn
    <3>. QED BY <1>1, <2>2, <3>1
  <2>4. todo[i] >= call.own
    <3>1. todo[i] >= 0 BY <1>1, <2>2
    <3>. QED BY Zenon, <1>3, <3>1
  <2>. HIDE DEF call
  <2>. QED BY Zenon, <1>3, <2>2, <2>3, <2>4 DEF Timely
<1>5. CallOK(call, s)
  <2>. HIDE DEF call
  <2>1. call.own =< Len(s) /\ call.since =< Len(s)
    <3>1. 0 =< Len(s) /\ Len(s) =< Len(s) BY <1>1
    <3>. QED BY Zenon, <1>3, <3>1
  <2>. QED BY Zenon, <1>3, <1>4, <2>1 DEF CallOK
<1>. QED BY Zenon, <1>2, <1>5

\* A request that changed: its change is the last one.
LEMMA ChangesOK ==
  ASSUME NEW s, NEW t, HistoryOK(s), HistoryOK(t), Len(t) = Len(s) + 1, NEW p \in FilePath,
         t[Len(s) + 1].path = p, t[Len(s) + 1].kind # "gone", NEW pc, NEW todo,
         \/ pc = "describe" /\ todo = <<Len(s) + 1>>
         \/ pc = "lookup" /\ todo = <<>>
  PROVE LET call == RequestAt(pc, p, Len(s) + 1, Len(s), todo) IN
        call \in RequestType /\ CallOK(call, t)
<1>. DEFINE own == Len(s) + 1
            call == RequestAt(pc, p, own, Len(s), todo)
<1>1. Len(s) \in Nat /\ Len(t) \in Nat /\ DOMAIN t = 1 .. Len(t) BY DEF HistoryOK
<1>2. own \in 1 .. Len(t) /\ own \in Nat BY <1>1
<1>3. todo \in Seq(Nat) /\ \A i \in DOMAIN todo : todo[i] = own
  <2>. HIDE DEF own
  <2>1. <<own>> \in Seq(Nat) /\ \A i \in DOMAIN <<own>> : <<own>>[i] = own BY <1>2
  <2>2. <<>> \in Seq(Nat) /\ \A i \in DOMAIN <<>> : <<>>[i] = own OBVIOUS
  <2>3. todo = <<own>> \/ todo = <<>> BY Zenon DEF own
  <2>. QED BY Zenon, <2>1, <2>2, <2>3
<1>4. call \in RequestType
  <2>. HIDE DEF own
  <2>. QED BY Zenon, <1>1, <1>2, <1>3 DEF RequestAt, RequestType
<1>5. /\ call.own = own /\ call.since = Len(s) /\ call.pc = pc /\ call.todo = todo
      /\ call.entries = {} /\ call.path = p
  BY Zenon DEF RequestAt
<1>6. Timely(own, call, t)
  <2>1. \A j \in RevisionsIn(t, p) : ~(j > own) BY SMTT(30), <1>1, <1>2 DEF RevisionsIn
  <2>2. own >= call.own BY SMTT(30), <1>2, <1>5
  <2>. HIDE DEF own, call
  <2>. QED BY Zenon, <1>2, <1>5, <2>1, <2>2 DEF Timely, own
<1>7. CallOK(call, t)
  <2>1. call.own =< Len(t) /\ call.since =< Len(t) BY SMTT(30), <1>1, <1>2, <1>5
  <2>2. pc # "refused" BY Zenon
  <2>3. call.own # 0 BY SMTT(30), <1>1, <1>5
  <2>4. t[own].path = p /\ t[own].kind # "gone" BY Zenon
  <2>. HIDE DEF own, call
  <2>. QED BY Zenon, <1>3, <1>5, <1>6, <2>1, <2>2, <2>3, <2>4 DEF CallOK
<1>. QED BY Zenon, <1>4, <1>7


LEMMA RestOK == ASSUME NEW s, HistoryOK(s) PROVE AtRest \in RequestType /\ CallOK(AtRest, s)
<1>1. AtRest \in RequestType BY SMTT(30) DEF AtRest, RequestAt, RequestType
<1>2. /\ AtRest.own = 0 /\ AtRest.since = 0 /\ AtRest.pc = "rest" /\ AtRest.todo = <<>>
      /\ AtRest.entries = {}
  BY Zenon DEF AtRest, RequestAt
<1>3. 0 =< Len(s) BY HistoryIs
<1>4. DOMAIN AtRest.todo = {} BY <1>2
<1>5. AtRest.pc # "lookup" /\ AtRest.pc # "refused" BY Zenon, <1>2
<1>. QED BY Zenon, <1>1, <1>2, <1>3, <1>4, <1>5 DEF CallOK

LEMMA RequestsInitInv == RequestsInit => RequestsInv
<1>. SUFFICES ASSUME RequestsInit PROVE RequestsInv BY Zenon
<1>1. HistoryOK(changes) BY ChangesAssumption DEF RequestsInit, HistoryOK
<1>2. calls = [c \in Connection |-> AtRest] BY Zenon DEF RequestsInit
<1>. QED BY Zenon, <1>1, <1>2, RestOK DEF RequestsInv

\* The size a path has is within the bound of its next change.
LEMMA SizeBound ==
  ASSUME HistoryOK(changes), NEW p
  PROVE SizeOf(p) \in Nat /\ SizeOf(p) =< Len(changes) + 1 /\ (KindOf(p) # "file" => SizeOf(p) = 0)
<1>1. Len(changes) \in Nat /\ DOMAIN changes = 1 .. Len(changes) BY Zenon, HistoryIs
<1>2. CASE Latest(p) = 0
  <2>1. SizeOf(p) = 0 BY Zenon, <1>2 DEF SizeOf
  <2>. QED BY <1>1, <2>1
<1>3. CASE Latest(p) # 0
  <2>1. RevisionsIn(changes, p) # {} BY Zenon, <1>3, OperatorsAre, LatestIs
  <2>2. Latest(p) \in RevisionsIn(changes, p) BY Zenon, <2>1, OperatorsAre, LatestIs
  <2>3. Latest(p) \in 1 .. Len(changes) BY Zenon, <1>1, <2>2 DEF RevisionsIn
  <2>4. KindOf(p) = changes[Latest(p)].kind /\ SizeOf(p) = changes[Latest(p)].size
    BY Zenon, <1>3 DEF KindOf, SizeOf
  <2>5. changes[Latest(p)].size \in Nat
    <3>1. changes[Latest(p)] \in StorageChange BY <2>3 DEF HistoryOK
    <3>. QED BY <3>1, ChangesAssumption DEF StorageChange
  <2>6. /\ changes[Latest(p)].kind # "file" => changes[Latest(p)].size = 0
        /\ changes[Latest(p)].size =< Latest(p) + 1
    BY Zenon, <2>3 DEF HistoryOK
  <2>7. changes[Latest(p)].size =< Len(changes) + 1 BY SMTT(30), <1>1, <2>3, <2>5, <2>6
  <2>. QED BY Zenon, <2>4, <2>5, <2>6, <2>7
<1>. QED BY Zenon, <1>2, <1>3

\* A request that writes, appends or creates a directory.
LEMMA WritesKeep ==
  ASSUME RequestsInv, NEW c \in Connection, NEW p \in FilePath, NEW kind \in {"file", "dir"},
         NEW size \in Nat, kind # "file" => size = 0, size =< Len(changes) + 2,
         Change(<<Made(p, kind, size)>>), NEW pc, NEW todo,
         Goes(c, p, Len(changes) + 1, pc, todo),
         \/ pc = "describe" /\ todo = <<Len(changes) + 1>>
         \/ pc = "lookup" /\ todo = <<>>
  PROVE RequestsInv'
<1>. DEFINE t == changes \o <<Made(p, kind, size)>>
            call == RequestAt(pc, p, Len(changes) + 1, Len(changes), todo)
<1>1. HistoryOK(changes) BY Zenon DEF RequestsInv
<1>2. Len(changes) + 1 =< MaxChanges /\ changes' = t
  <2>1. Len(<<Made(p, kind, size)>>) = 1 BY Zenon
  <2>. QED BY Zenon, <2>1 DEF Change
<1>3. kind \in Kinds /\ kind # "gone" BY Zenon DEF Kinds
<1>4. /\ HistoryOK(t) /\ Extends(changes, t) /\ Len(t) = Len(changes) + 1
      /\ t[Len(changes) + 1] = Made(p, kind, size)
  BY Zenon, <1>1, <1>2, <1>3, AddOne
<1>5. t[Len(changes) + 1].path = p /\ t[Len(changes) + 1].kind # "gone"
  BY SMTT(30), <1>3, <1>4 DEF Made
<1>6. call \in RequestType /\ CallOK(call, t)
  <2>. HIDE DEF t
  <2>. QED BY Zenon, <1>1, <1>4, <1>5, ChangesOK
<1>7. calls' = [calls EXCEPT ![c] = call] BY Zenon DEF Goes
<1>. HIDE DEF t, call
<1>. QED BY Zenon, <1>2, <1>4, <1>6, <1>7, OneMoves

LEMMA WriteKeeps ==
  ASSUME RequestsInv, NEW c \in Connection, NEW p \in FilePath, ExecuteWrite(c, p)
  PROVE RequestsInv'
<1>1. PICK n \in 1 .. 2 : Change(<<Made(p, "file", n)>>) BY Zenon DEF ExecuteWrite
<1>2. n \in Nat /\ n =< Len(changes) + 2
  <2>1. Len(changes) \in Nat BY Zenon, HistoryIs DEF RequestsInv
  <2>. QED BY <2>1
<1>. QED BY Zenon, <1>1, <1>2, WritesKeep DEF ExecuteWrite

LEMMA AppendKeeps ==
  ASSUME RequestsInv, NEW c \in Connection, NEW p \in FilePath, ExecuteAppend(c, p)
  PROVE RequestsInv'
<1>. DEFINE size == SizeOf(p) + 1
<1>1. size \in Nat /\ size =< Len(changes) + 2
  <2>1. Len(changes) \in Nat BY Zenon, HistoryIs DEF RequestsInv
  <2>2. SizeOf(p) \in Nat /\ SizeOf(p) =< Len(changes) + 1 BY Zenon, SizeBound DEF RequestsInv
  <2>. QED BY <2>1, <2>2
<1>2. Change(<<Made(p, "file", size)>>) /\ Goes(c, p, Len(changes) + 1, "lookup", <<>>)
  BY Zenon DEF ExecuteAppend
<1>. HIDE DEF size
<1>. QED BY Zenon, <1>1, <1>2, WritesKeep

LEMMA CreateDirKeeps ==
  ASSUME RequestsInv, NEW c \in Connection, NEW p \in FilePath, ExecuteCreateDir(c, p)
  PROVE RequestsInv'
<1>1. 0 \in Nat /\ 0 =< Len(changes) + 2
  <2>1. Len(changes) \in Nat BY Zenon, HistoryIs DEF RequestsInv
  <2>. QED BY <2>1
<1>. QED BY Zenon, <1>1, WritesKeep DEF ExecuteCreateDir

LEMMA DeleteKeeps ==
  ASSUME RequestsInv, NEW c \in Connection, NEW p \in FilePath, ExecuteDelete(c, p)
  PROVE RequestsInv'
<1>. DEFINE t == changes \o <<Made(p, "gone", 0)>>
<1>1. HistoryOK(changes) BY Zenon DEF RequestsInv
<1>2. Len(changes) + 1 =< MaxChanges /\ changes' = t
  <2>1. Len(<<Made(p, "gone", 0)>>) = 1 BY Zenon
  <2>. QED BY Zenon, <2>1 DEF ExecuteDelete, Change
<1>3. "gone" \in Kinds /\ 0 \in Nat /\ 0 =< Len(changes) + 2
  <2>1. Len(changes) \in Nat BY Zenon, <1>1, HistoryIs
  <2>. QED BY <2>1 DEF Kinds
<1>4. HistoryOK(t) /\ Extends(changes, t) BY Zenon, <1>1, <1>2, <1>3, AddOne
<1>. HIDE DEF t
<1>. QED BY Zenon, <1>2, <1>4, NoneMoves DEF ExecuteDelete

LEMMA RenameKeeps ==
  ASSUME RequestsInv, NEW c \in Connection, NEW p \in FilePath, NEW q \in FilePath,
         ExecuteRename(c, p, q)
  PROVE RequestsInv'
<1>. DEFINE t == changes \o <<Made(q, KindOf(p), SizeOf(p)), Made(p, "gone", 0)>>
<1>1. HistoryOK(changes) BY Zenon DEF RequestsInv
<1>2. Len(changes) + 2 =< MaxChanges /\ changes' = t
  <2>1. Len(<<Made(q, KindOf(p), SizeOf(p)), Made(p, "gone", 0)>>) = 2 BY Zenon
  <2>. QED BY Zenon, <2>1 DEF ExecuteRename, Change
<1>3. KindOf(p) \in Kinds
  <2>1. KindOf(p) # "gone" BY Zenon DEF ExecuteRename, Present
  <2>2. Latest(p) \in RevisionsIn(changes, p) /\ KindOf(p) = changes[Latest(p)].kind
    BY Zenon, <1>1, <2>1, PresentIs
  <2>3. Latest(p) \in 1 .. Len(changes) BY Zenon, <1>1, <2>2, HistoryIs DEF RevisionsIn
  <2>4. changes[Latest(p)] \in StorageChange BY <1>1, <2>3 DEF HistoryOK
  <2>. QED BY Zenon, <2>2, <2>4 DEF StorageChange
<1>4. /\ SizeOf(p) \in Nat /\ SizeOf(p) =< Len(changes) + 2
      /\ KindOf(p) # "file" => SizeOf(p) = 0
  <2>1. Len(changes) \in Nat BY Zenon, <1>1, HistoryIs
  <2>2. /\ SizeOf(p) \in Nat /\ SizeOf(p) =< Len(changes) + 1
        /\ KindOf(p) # "file" => SizeOf(p) = 0
    BY Zenon, <1>1, SizeBound
  <2>. QED BY <2>1, <2>2
<1>5. HistoryOK(t) /\ Extends(changes, t) BY Zenon, <1>1, <1>2, <1>3, <1>4, AddTwo
<1>. HIDE DEF t
<1>. QED BY Zenon, <1>2, <1>5, NoneMoves DEF ExecuteRename


LEMMA EntryKeeps ==
  ASSUME RequestsInv, NEW c \in Connection, NEW p \in FilePath, ExecuteEntry(c, p)
  PROVE RequestsInv'
<1>. DEFINE todo == <<Latest(p)>>
            call == RequestAt("describe", p, 0, Len(changes), todo)
<1>1. HistoryOK(changes) BY Zenon DEF RequestsInv
<1>2. KindOf(p) # "gone" BY Zenon DEF ExecuteEntry, Present
<1>3. /\ Latest(p) \in RevisionsIn(changes, p)
      /\ \A j \in RevisionsIn(changes, p) : j =< Latest(p)
  BY Zenon, <1>1, <1>2, PresentIs
<1>4. Latest(p) \in Nat
  <2>1. Latest(p) \in 1 .. Len(changes) /\ Len(changes) \in Nat
    BY Zenon, <1>1, <1>3, HistoryIs DEF RevisionsIn
  <2>. QED BY <2>1
<1>5. todo \in Seq(Nat) /\ \A i \in DOMAIN todo : todo[i] = Latest(p) BY <1>4
<1>6. calls' = [calls EXCEPT ![c] = call] /\ UNCHANGED changes BY Zenon DEF ExecuteEntry, Goes
<1>. HIDE DEF todo
<1>7. call \in RequestType /\ CallOK(call, changes) BY Zenon, <1>1, <1>3, <1>5, AsksOK
<1>. HIDE DEF call
<1>. QED BY Zenon, <1>6, <1>7, OneReads

LEMMA FunctionIsSeq == ASSUME NEW n \in Nat, NEW f \in [1 .. n -> Nat] PROVE f \in Seq(Nat)
  OBVIOUS

LEMMA ListKeeps ==
  ASSUME RequestsInv, NEW c \in Connection, ExecuteList(c)
  PROVE RequestsInv'
<1>. DEFINE listed == {Latest(p) : p \in {q \in FilePath : Present(q)}}
<1>1. HistoryOK(changes) BY Zenon DEF RequestsInv
<1>2. Len(changes) \in Nat /\ DOMAIN changes = 1 .. Len(changes) BY Zenon, <1>1, HistoryIs
<1>3. ASSUME NEW r \in listed
      PROVE \E q \in FilePath : /\ r \in RevisionsIn(changes, q)
                                /\ \A j \in RevisionsIn(changes, q) : j =< r
  <2>1. PICK q \in FilePath : Present(q) /\ r = Latest(q) BY Zenon, <1>3
  <2>2. KindOf(q) # "gone" BY Zenon, <2>1 DEF Present
  <2>. QED BY Zenon, <1>1, <2>1, <2>2, PresentIs
<1>4. listed \subseteq 1 .. Len(changes)
  <2>. HIDE DEF listed
  <2>. QED BY Zenon, <1>2, <1>3 DEF RevisionsIn
<1>5. PICK todo \in [1 .. Cardinality(listed) -> listed] :
        Goes(c, "none", 0, "describe", todo) /\ UNCHANGED changes
  BY Zenon DEF ExecuteList
<1>6. Cardinality(listed) \in Nat
  <2>1. IsFiniteSet(1 .. Len(changes)) BY <1>2, FS_Interval
  <2>. HIDE DEF listed
  <2>2. IsFiniteSet(listed) BY Zenon, <1>4, <2>1, FS_Subset
  <2>. QED BY Zenon, <2>2, FS_CardinalityType
<1>. HIDE DEF listed
<1>7. todo \in Seq(Nat)
  <2>1. listed \subseteq Nat BY <1>2, <1>4
  <2>2. todo \in [1 .. Cardinality(listed) -> Nat] BY Zenon, <2>1
  <2>. QED BY Zenon, <1>6, <2>2, FunctionIsSeq
<1>8. \A i \in DOMAIN todo : todo[i] \in listed BY Zenon
<1>. DEFINE call == RequestAt("describe", "none", 0, Len(changes), todo)
<1>9. call \in RequestType /\ CallOK(call, changes) BY Zenon, <1>1, <1>3, <1>7, <1>8, AsksOK
<1>10. calls' = [calls EXCEPT ![c] = call] BY Zenon, <1>5 DEF Goes
<1>. HIDE DEF call
<1>. QED BY Zenon, <1>5, <1>9, <1>10, OneReads

\* The call of c and what is known of it.
LEMMA CallKnown ==
  ASSUME RequestsInv, NEW c \in Connection
  PROVE /\ HistoryOK(changes) /\ calls[c] \in RequestType /\ CallOK(calls[c], changes)
        /\ calls[c].own \in Nat /\ calls[c].todo \in Seq(Nat)
<1>1. calls[c] \in RequestType /\ HistoryOK(changes) /\ CallOK(calls[c], changes)
  BY Zenon DEF RequestsInv
<1>2. calls[c].own \in Nat /\ calls[c].todo \in Seq(Nat) BY Zenon, <1>1 DEF RequestType
<1>. QED BY Zenon, <1>1, <1>2

LEMMA CallReplaced ==
  ASSUME NEW call \in RequestType, NEW todo \in Seq(Nat), NEW failed \in BOOLEAN
  PROVE /\ [call EXCEPT !.pc = "refused", !.todo = todo] \in RequestType
        /\ [call EXCEPT !.pc = "refused", !.todo = todo, !.failed = failed] \in RequestType
        /\ [call EXCEPT !.pc = "describe", !.todo = todo] \in RequestType
  BY Zenon DEF RequestType

\* A request is refused: the filesystem failed, or the path it changed was changed again.
LEMMA RefusedKeeps ==
  ASSUME RequestsInv, NEW c \in Connection, NEW failed \in BOOLEAN,
         calls' = [calls EXCEPT ![c] = [calls[c] EXCEPT !.pc = "refused", !.todo = <<>>,
                                                        !.failed = failed]],
         UNCHANGED changes,
         calls[c].own # 0 =>
            failed \/ \E i \in RevisionsIn(changes, calls[c].path) : i > calls[c].own
  PROVE RequestsInv'
<1>. DEFINE call == [calls[c] EXCEPT !.pc = "refused", !.todo = <<>>, !.failed = failed]
<1>1. calls[c] \in RequestType /\ CallOK(calls[c], changes) BY Zenon, CallKnown
<1>2. call \in RequestType
  <2>1. <<>> \in Seq(Nat) OBVIOUS
  <2>. QED BY Zenon, <1>1, <2>1, CallReplaced
<1>3. /\ call.pc = "refused" /\ call.todo = <<>> /\ call.failed = failed
      /\ call.own = calls[c].own /\ call.since = calls[c].since
      /\ call.entries = calls[c].entries /\ call.path = calls[c].path
  BY Zenon, <1>1 DEF RequestType
<1>4. call.pc # "lookup" /\ DOMAIN call.todo = {} BY <1>3
<1>5. calls' = [calls EXCEPT ![c] = call] BY Zenon
<1>. HIDE DEF call
<1>6. \A r : Timely(r, calls[c], changes) => Timely(r, call, changes) BY Zenon, <1>3 DEF Timely
<1>7. CallOK(call, changes) BY Zenon, <1>1, <1>3, <1>4, <1>6 DEF CallOK
<1>. QED BY Zenon, <1>2, <1>5, <1>7, OneReads

\* The same without a failure of the filesystem.
LEMMA ErrorKeeps ==
  ASSUME RequestsInv, NEW c \in Connection, AnswerError(c),
         calls[c].own # 0 => \E i \in RevisionsIn(changes, calls[c].path) : i > calls[c].own
  PROVE RequestsInv'
<1>. DEFINE call == [calls[c] EXCEPT !.pc = "refused", !.todo = <<>>]
<1>1. calls[c] \in RequestType /\ CallOK(calls[c], changes) BY Zenon, CallKnown
<1>2. call \in RequestType
  <2>1. <<>> \in Seq(Nat) OBVIOUS
  <2>. QED BY Zenon, <1>1, <2>1, CallReplaced
<1>3. /\ call.pc = "refused" /\ call.todo = <<>>
      /\ call.own = calls[c].own /\ call.since = calls[c].since
      /\ call.entries = calls[c].entries /\ call.path = calls[c].path
  BY Zenon, <1>1 DEF RequestType
<1>4. call.pc # "lookup" /\ DOMAIN call.todo = {} BY <1>3
<1>5. calls' = [calls EXCEPT ![c] = call] /\ UNCHANGED changes BY Zenon DEF AnswerError, Becomes
<1>. HIDE DEF call
<1>6. \A r : Timely(r, calls[c], changes) => Timely(r, call, changes) BY Zenon, <1>3 DEF Timely
<1>7. CallOK(call, changes) BY Zenon, <1>1, <1>3, <1>4, <1>6 DEF CallOK
<1>. QED BY Zenon, <1>2, <1>5, <1>7, OneReads

LEMMA FailureKeeps ==
  ASSUME RequestsInv, NEW c \in Connection, FileSystemFails(c)
  PROVE RequestsInv'
  BY Zenon, RefusedKeeps DEF FileSystemFails, Becomes

LEMMA SendKeeps ==
  ASSUME RequestsInv, NEW c \in Connection, SendAnswer(c)
  PROVE RequestsInv'
<1>1. AtRest \in RequestType /\ CallOK(AtRest, changes) BY Zenon, RestOK DEF RequestsInv
<1>. QED BY Zenon, <1>1, OneReads DEF SendAnswer, Becomes

\* A revision that is not the latest of its path has a later one.
LEMMA LaterThan ==
  ASSUME HistoryOK(changes), NEW p, NEW r \in RevisionsIn(changes, p), KindOf(p) # changes[r].kind
  PROVE \E i \in RevisionsIn(changes, p) : i > r
<1>1. /\ RevisionsIn(changes, p) \subseteq 1 .. Len(changes)
      /\ Latest(p) \in RevisionsIn(changes, p)
      /\ \A j \in RevisionsIn(changes, p) : j =< Latest(p)
  BY Zenon, OperatorsAre, LatestIs
<1>2. Latest(p) \in 1 .. Len(changes) /\ r \in 1 .. Len(changes) /\ r =< Latest(p)
  BY Zenon, <1>1
<1>3. Latest(p) # 0 /\ Len(changes) \in Nat BY <1>2, HistoryIs
<1>4. Latest(p) # r BY Zenon, <1>3 DEF KindOf
<1>5. Latest(p) > r BY <1>2, <1>3, <1>4
<1>. QED BY Zenon, <1>1, <1>5

\* The change a request made itself is one of its path's.
LEMMA OwnChange ==
  ASSUME RequestsInv, NEW c \in Connection, calls[c].own # 0
  PROVE /\ calls[c].own \in RevisionsIn(changes, calls[c].path)
        /\ changes[calls[c].own].kind # "gone"
<1>1. calls[c].own \in 1 .. Len(changes)
  <2>1. calls[c].own \in Nat /\ calls[c].own =< Len(changes) BY Zenon, CallKnown DEF CallOK
  <2>2. Len(changes) \in Nat BY Zenon, CallKnown, HistoryIs
  <2>. QED BY <2>1, <2>2
<1>2. DOMAIN changes = 1 .. Len(changes) BY Zenon, CallKnown, HistoryIs
<1>3. changes[calls[c].own].path = calls[c].path /\ changes[calls[c].own].kind # "gone"
  BY Zenon, CallKnown DEF CallOK
<1>. QED BY Zenon, <1>1, <1>2, <1>3 DEF RevisionsIn

LEMMA LookupKeeps ==
  ASSUME RequestsInv, NEW c \in Connection, LookupAppended(c)
  PROVE RequestsInv'
<1>. DEFINE p == calls[c].path
<1>1. calls[c] \in RequestType /\ CallOK(calls[c], changes) /\ HistoryOK(changes)
  BY Zenon, CallKnown
<1>2. calls[c].pc = "lookup" /\ calls[c].own # 0 BY Zenon, <1>1 DEF LookupAppended, CallOK
<1>3. calls[c].own \in RevisionsIn(changes, p) /\ changes[calls[c].own].kind # "gone"
  BY Zenon, <1>2, OwnChange
<1>4. CASE ~Present(p)
  <2>1. KindOf(p) = "gone" BY Zenon, <1>4 DEF Present
  <2>2. \E i \in RevisionsIn(changes, p) : i > calls[c].own
    BY Zenon, <1>1, <1>3, <2>1, LaterThan
  <2>3. AnswerError(c) BY Zenon, <1>4 DEF LookupAppended
  <2>. QED BY Zenon, <2>2, <2>3, ErrorKeeps
<1>5. CASE Present(p)
  <2>. DEFINE todo == <<Latest(p)>>
              call == [calls[c] EXCEPT !.pc = "describe", !.todo = todo]
  <2>1. calls' = [calls EXCEPT ![c] = call] /\ UNCHANGED changes
    BY Zenon, <1>5 DEF LookupAppended, Becomes
  <2>2. /\ Latest(p) \in RevisionsIn(changes, p)
        /\ \A j \in RevisionsIn(changes, p) : j =< Latest(p)
    BY Zenon, <1>1, <1>5, PresentIs DEF Present
  <2>3. /\ Len(changes) \in Nat /\ DOMAIN changes = 1 .. Len(changes)
        /\ Latest(p) \in 1 .. Len(changes) /\ changes[Latest(p)].path = p
    BY Zenon, <1>1, <2>2, HistoryIs DEF RevisionsIn
  <2>4. todo \in Seq(Nat) /\ \A i \in DOMAIN todo : todo[i] = Latest(p) BY SMTT(30), <2>3
  <2>. HIDE DEF todo
  <2>5. call \in RequestType BY Zenon, <1>1, <2>4, CallReplaced
  <2>6. /\ call.pc = "describe" /\ call.todo = todo /\ call.failed = calls[c].failed
        /\ call.own = calls[c].own /\ call.since = calls[c].since
        /\ call.entries = calls[c].entries /\ call.path = p
    BY Zenon, <1>1 DEF RequestType
  <2>. HIDE DEF call
  <2>7. Timely(Latest(p), call, changes)
    <3>1. Latest(p) >= call.own
      <4>1. calls[c].own =< Latest(p) /\ calls[c].own \in Nat BY Zenon, <1>3, <2>2, CallKnown
      <4>. QED BY Zenon, <2>3, <2>6, <4>1
    <3>2. \A j \in RevisionsIn(changes, p) : ~(j > Latest(p))
      <4>. SUFFICES ASSUME NEW j \in RevisionsIn(changes, p) PROVE ~(j > Latest(p)) BY Zenon
      <4>1. j =< Latest(p) /\ j \in 1 .. Len(changes) BY Zenon, <2>2, <2>3 DEF RevisionsIn
      <4>. QED BY SMTT(30), <2>3, <4>1
    <3>. QED BY Zenon, <2>3, <2>6, <3>1, <3>2 DEF Timely
  <2>8. \A r : Timely(r, calls[c], changes) => Timely(r, call, changes)
    BY Zenon, <2>6 DEF Timely
  <2>9. call.pc # "lookup" /\ call.pc # "refused" BY Zenon, <2>6
  <2>10. CallOK(call, changes) BY Zenon, <1>1, <2>4, <2>6, <2>7, <2>8, <2>9 DEF CallOK
  <2>. QED BY Zenon, <2>1, <2>5, <2>10, OneReads
<1>. QED BY Zenon, <1>4, <1>5

\* An entry is described with a size its path has, or had at this revision.
LEMMA DescribedKeeps ==
  ASSUME RequestsInv, NEW c \in Connection, calls[c].pc = "describe", calls[c].todo # <<>>,
         NEW size \in Nat, Described(c, size),
         \E i \in RevisionsIn(changes, changes[Head(calls[c].todo)].path) :
            i >= Head(calls[c].todo) /\ changes[i].size = size
  PROVE RequestsInv'
<1>. DEFINE r == Head(calls[c].todo)
            rest == Tail(calls[c].todo)
            told == [revision |-> r, size |-> size]
            entries == calls[c].entries \cup {told}
            call == [calls[c] EXCEPT !.todo = rest, !.entries = entries]
<1>1. calls[c] \in RequestType /\ CallOK(calls[c], changes) /\ HistoryOK(changes)
  BY Zenon, CallKnown
<1>2. calls[c].todo \in Seq(Nat) BY Zenon, CallKnown
<1>3. /\ 1 \in DOMAIN calls[c].todo /\ r = calls[c].todo[1] /\ r \in Nat
      /\ rest \in Seq(Nat)
      /\ \A i \in DOMAIN rest : i + 1 \in DOMAIN calls[c].todo /\ rest[i] = calls[c].todo[i + 1]
  BY SMTT(30), <1>2
<1>4. told \in [revision : Nat, size : Nat] /\ told.revision = r /\ told.size = size
  BY Zenon, <1>3
<1>5. calls' = [calls EXCEPT ![c] = call] /\ UNCHANGED changes BY Zenon DEF Described, Becomes
<1>6. Timely(r, calls[c], changes) BY Zenon, <1>1, <1>3 DEF CallOK
<1>7. \A i \in DOMAIN rest : Timely(rest[i], calls[c], changes) BY Zenon, <1>1, <1>3 DEF CallOK
<1>8. \E i \in RevisionsIn(changes, changes[r].path) : i >= r /\ changes[i].size = size
  BY Zenon
<1>. HIDE DEF r, rest, told
<1>9. entries \in SUBSET [revision : Nat, size : Nat] BY Zenon, <1>1, <1>4 DEF RequestType
<1>10. \A e \in entries : e \in calls[c].entries \/ e = told BY Zenon
<1>. HIDE DEF entries
<1>11. call \in RequestType BY Zenon, <1>1, <1>3, <1>9 DEF RequestType
<1>12. /\ call.pc = "describe" /\ call.todo = rest /\ call.own = calls[c].own
       /\ call.since = calls[c].since /\ call.entries = entries /\ call.path = calls[c].path
  BY Zenon, <1>1 DEF RequestType
<1>. HIDE DEF call
<1>13. \A x : Timely(x, calls[c], changes) => Timely(x, call, changes)
  BY Zenon, <1>12 DEF Timely
<1>14. call.pc # "lookup" /\ call.pc # "refused" BY Zenon, <1>12
<1>15. ASSUME NEW e \in call.entries
       PROVE /\ Timely(e.revision, call, changes)
             /\ \E i \in RevisionsIn(changes, changes[e.revision].path) :
                   i >= e.revision /\ changes[i].size = e.size
  <2>1. CASE e \in calls[c].entries BY Zenon, <1>1, <1>13, <2>1 DEF CallOK
  <2>2. CASE e = told BY Zenon, <1>4, <1>6, <1>8, <1>13, <2>2
  <2>. QED BY Zenon, <1>10, <1>12, <1>15, <2>1, <2>2
<1>16. CallOK(call, changes)
  <2>1. \A i \in DOMAIN call.todo : Timely(call.todo[i], call, changes)
    BY Zenon, <1>7, <1>12, <1>13
  <2>2. /\ call.own =< Len(changes) /\ call.since =< Len(changes)
        /\ call.own # 0 => /\ changes[call.own].path = call.path
                           /\ changes[call.own].kind # "gone"
    BY Zenon, <1>1, <1>12 DEF CallOK
  <2>. QED BY Zenon, <1>14, <1>15, <2>1, <2>2 DEF CallOK
<1>. QED BY Zenon, <1>5, <1>11, <1>16, OneReads

LEMMA DescribeKeeps ==
  ASSUME RequestsInv, NEW c \in Connection, DescribeEntry(c)
  PROVE RequestsInv'
<1>. DEFINE r == Head(calls[c].todo)
            p == changes[r].path
<1>1. calls[c] \in RequestType /\ CallOK(calls[c], changes) /\ HistoryOK(changes)
  BY Zenon, CallKnown
<1>2. calls[c].pc = "describe" /\ calls[c].todo # <<>> BY Zenon DEF DescribeEntry
<1>3. 1 \in DOMAIN calls[c].todo /\ r = calls[c].todo[1] BY SMTT(30), <1>2, CallKnown
<1>. HIDE DEF r
<1>4. Timely(r, calls[c], changes) BY Zenon, <1>1, <1>3 DEF CallOK
<1>5. Len(changes) \in Nat /\ DOMAIN changes = 1 .. Len(changes) BY Zenon, <1>1, HistoryIs
<1>6. r \in 1 .. Len(changes) /\ r \in RevisionsIn(changes, p)
  BY Zenon, <1>4, <1>5 DEF Timely, RevisionsIn
<1>7. r >= r BY <1>5, <1>6
<1>8. CASE changes[r].kind # "file" /\ Described(c, 0)
  <2>1. changes[r].size = 0 BY Zenon, <1>1, <1>6, <1>8 DEF HistoryOK
  <2>2. 0 \in Nat BY Zenon
  <2>. QED BY Zenon, <1>2, <1>6, <1>7, <1>8, <2>1, <2>2, DescribedKeeps DEF r
<1>9. CASE changes[r].kind = "file" /\ KindOf(p) = "file" /\ Described(c, SizeOf(p))
  <2>1. KindOf(p) # "gone" BY Zenon, <1>9
  <2>2. /\ Latest(p) \in RevisionsIn(changes, p) /\ r =< Latest(p)
        /\ SizeOf(p) = changes[Latest(p)].size
    BY Zenon, <1>1, <1>6, <2>1, PresentIs
  <2>3. Latest(p) \in 1 .. Len(changes) BY Zenon, <1>5, <2>2 DEF RevisionsIn
  <2>4. Latest(p) >= r BY Zenon, <1>5, <1>6, <2>2, <2>3
  <2>5. SizeOf(p) \in Nat BY Zenon, <1>1, SizeBound
  <2>. QED BY Zenon, <1>2, <1>9, <2>2, <2>4, <2>5, DescribedKeeps DEF r
<1>10. CASE changes[r].kind = "file" /\ KindOf(p) # "file" /\ AnswerError(c)
  <2>1. \E i \in RevisionsIn(changes, p) : i > r BY Zenon, <1>1, <1>6, <1>10, LaterThan
  <2>2. calls[c].own # 0 => \E i \in RevisionsIn(changes, calls[c].path) : i > calls[c].own
    <3>. SUFFICES ASSUME calls[c].own # 0
                  PROVE \E i \in RevisionsIn(changes, calls[c].path) : i > calls[c].own
      BY Zenon
    <3>1. p = calls[c].path /\ r >= calls[c].own BY Zenon, <1>4 DEF Timely
    <3>2. PICK i \in RevisionsIn(changes, p) : i > r BY Zenon, <2>1
    <3>3. i \in 1 .. Len(changes) /\ calls[c].own \in Nat
      BY Zenon, <1>5, <3>2, CallKnown DEF RevisionsIn
    <3>4. i > calls[c].own BY SMTT(30), <1>5, <1>6, <3>1, <3>2, <3>3
    <3>. QED BY Zenon, <3>1, <3>4
  <2>. QED BY Zenon, <1>10, <2>2, ErrorKeeps
<1>. QED BY Zenon, <1>8, <1>9, <1>10 DEF DescribeEntry, r

LEMMA RequestsStep == RequestsInv /\ [RequestsNext]_requestVars => RequestsInv'
<1>. SUFFICES ASSUME RequestsInv, [RequestsNext]_requestVars PROVE RequestsInv' BY Zenon
<1>1. CASE UNCHANGED requestVars BY Zenon, <1>1 DEF requestVars, RequestsInv
<1>. QED BY Zenon, <1>1, WriteKeeps, AppendKeeps, DeleteKeeps, CreateDirKeeps, EntryKeeps,
     RenameKeeps, ListKeeps, LookupKeeps, DescribeKeeps, FailureKeeps, SendKeeps
     DEF RequestsNext

\* Type correctness of StorageRequests: the changes stay within the bound, and a request
\* only names revisions there are.
THEOREM RequestsTypeCorrect == RequestsSpec => []RequestsTypeOK
<1>1. RequestsInv => RequestsTypeOK
  <2>. SUFFICES ASSUME RequestsInv PROVE RequestsTypeOK BY Zenon
  <2>1. changes \in Seq(StorageChange) /\ Len(changes) =< MaxChanges
    BY Zenon DEF RequestsInv, HistoryOK
  <2>2. ASSUME NEW c \in Connection
        PROVE /\ calls[c].pc \in {"rest", "lookup", "describe", "refused"}
              /\ {calls[c].own, calls[c].since} \subseteq 0 .. Len(changes)
              /\ \A i \in DOMAIN calls[c].todo : calls[c].todo[i] \in DOMAIN changes
              /\ \A e \in calls[c].entries : e.revision \in DOMAIN changes
    <3>1. calls[c] \in RequestType /\ CallOK(calls[c], changes) /\ HistoryOK(changes)
      BY Zenon, <2>2, CallKnown
    <3>2. Len(changes) \in Nat /\ DOMAIN changes = 1 .. Len(changes) BY Zenon, <3>1, HistoryIs
    <3>3. calls[c].pc \in {"rest", "lookup", "describe", "refused"}
      BY Zenon, <3>1 DEF RequestType
    <3>4. {calls[c].own, calls[c].since} \subseteq 0 .. Len(changes)
      <4>1. calls[c].own \in Nat /\ calls[c].since \in Nat BY Zenon, <3>1 DEF RequestType
      <4>2. calls[c].own =< Len(changes) /\ calls[c].since =< Len(changes)
        BY Zenon, <3>1 DEF CallOK
      <4>. QED BY <3>2, <4>1, <4>2
    <3>. QED BY Zenon, <3>1, <3>2, <3>3, <3>4 DEF CallOK, Timely
  <2>. QED BY Zenon, <2>1, <2>2 DEF RequestsTypeOK
<1>. QED BY <1>1, RequestsInitInv, RequestsStep, PTL DEF RequestsSpec

\* execute and storage_entry answer the truth, however many requests overlap and however
\* many changes they make.
THEOREM TrueAnswers == RequestsSpec => []AnswersAreTrue
<1>1. RequestsInv => AnswersAreTrue
  <2>. SUFFICES ASSUME RequestsInv, NEW c \in Connection
                PROVE /\ \A e \in calls[c].entries :
                          /\ e.revision >= calls[c].own
                          /\ \A i \in Revisions(changes[e.revision].path) :
                                i > e.revision => i > calls[c].since
                          /\ \E i \in Revisions(changes[e.revision].path) :
                                i >= e.revision /\ changes[i].size = e.size
                      /\ calls[c].pc = "refused" /\ calls[c].own # 0 =>
                          calls[c].failed \/ Latest(calls[c].path) > calls[c].own
    BY Zenon DEF AnswersAreTrue
  <2>1. CallOK(calls[c], changes) /\ HistoryOK(changes) /\ calls[c].own \in Nat
    BY Zenon, CallKnown
  <2>2. ASSUME NEW e \in calls[c].entries
        PROVE /\ e.revision >= calls[c].own
              /\ \A i \in Revisions(changes[e.revision].path) :
                    i > e.revision => i > calls[c].since
              /\ \E i \in Revisions(changes[e.revision].path) :
                    i >= e.revision /\ changes[i].size = e.size
    <3>1. Revisions(changes[e.revision].path) = RevisionsIn(changes, changes[e.revision].path)
      BY Zenon, OperatorsAre
    <3>2. /\ Timely(e.revision, calls[c], changes)
          /\ \E i \in RevisionsIn(changes, changes[e.revision].path) :
                i >= e.revision /\ changes[i].size = e.size
      BY Zenon, <2>1, <2>2 DEF CallOK
    <3>. QED BY Zenon, <3>1, <3>2 DEF Timely
  <2>3. ASSUME calls[c].pc = "refused", calls[c].own # 0
        PROVE calls[c].failed \/ Latest(calls[c].path) > calls[c].own
    <3>. SUFFICES ASSUME ~calls[c].failed PROVE Latest(calls[c].path) > calls[c].own BY Zenon
    <3>1. PICK i \in RevisionsIn(changes, calls[c].path) : i > calls[c].own
      BY Zenon, <2>1, <2>3 DEF CallOK
    <3>2. /\ RevisionsIn(changes, calls[c].path) \subseteq 1 .. Len(changes)
          /\ Latest(calls[c].path) \in RevisionsIn(changes, calls[c].path)
          /\ i =< Latest(calls[c].path)
      BY Zenon, <2>1, <3>1, OperatorsAre, LatestIs
    <3>3. Latest(calls[c].path) \in 1 .. Len(changes) /\ i \in 1 .. Len(changes) BY Zenon, <3>2
    <3>4. Len(changes) \in Nat BY Zenon, <2>1, HistoryIs
    <3>. QED BY SMTT(30), <2>1, <3>1, <3>2, <3>3, <3>4
  <2>. QED BY Zenon, <2>2, <2>3
<1>. QED BY <1>1, RequestsInitInv, RequestsStep, PTL DEF RequestsSpec
=============================================================================
