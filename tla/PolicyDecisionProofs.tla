------------------------ MODULE PolicyDecisionProofs ------------------------
(***************************************************************************)
(* The rule phase's properties for the rules a deployment of the built-in  *)
(* collectors and rules collects, whatever the deployment and the request. *)
(***************************************************************************)
EXTENDS PolicyDecision, RulePhaseProofs

(* Before its rules are collected a deployment's phase is over none of      *)
(* them.                                                                    *)
Waiting ==
  /\ stage # "given" => deployment \in Deployments
  /\ stage \in {"loading", "ready"} => phase = "collecting" /\ rules = <<>>

PolicyInv == RuleInv /\ Waiting

(* The phase's rules are the ones collected, and each outcome is what its   *)
(* rule answers over the attributes collected with it.                      *)
Answered ==
  stage = "collected" =>
    /\ DOMAIN collected = Indices
    /\ \A i \in Indices :
         /\ rules[i].type = collected[i].type /\ rules[i].restricts = collected[i].restricts
         /\ ran[i] = "pass" => verify(collected[i], attributes)
         /\ ran[i] = "fail" => ~verify(collected[i], attributes)

-----------------------------------------------------------------------------
(* What the rule collectors return is a list.                               *)
LEMMA RulesForIsAList ==
  ASSUME NEW d, NEW n \in Nat, DOMAIN d.attrRules = 1..n, NEW r, NEW resource
  PROVE  \E m \in Nat : DOMAIN RulesFor(d, r, resource) = 1..m
<1> DEFINE scoped == IF d.scoped = ABSENT THEN <<>>
                     ELSE ResourceActionScopeRuleCollector(r.subject, resource, r.action, d.scoped)
           permission == IF d.permissionRule
                         THEN ResourceActionPermissionRuleCollector(r.resource, r.action) ELSE <<>>
           range == IF d.ruleRange = ABSENT THEN <<>>
                    ELSE DelegationRangeRuleCollector(r.subject, r.resource, r.action, d.ruleRange)
           attrs == [i \in DOMAIN d.attrRules |-> AttrRule(d.attrRules[i])]
           One(x) == <<x>>
<1>1. PICK x1, x2, x3 : scoped \in {<<>>, <<x1>>} /\ permission \in {<<>>, <<x2>>} /\ range \in {<<>>, <<x3>>}
  BY DEF ResourceActionScopeRuleCollector, ResourceActionPermissionRuleCollector,
         DelegationRangeRuleCollector
<1> DEFINE S == {x1, x2, x3} \cup {AttrRule(d.attrRules[i]) : i \in 1..n}
<1>2. scoped \in Seq(S) /\ permission \in Seq(S) /\ range \in Seq(S)
  <2>1. <<>> \in Seq(S) /\ <<x1>> \in Seq(S) /\ <<x2>> \in Seq(S) /\ <<x3>> \in Seq(S)
    OBVIOUS
  <2> HIDE DEF scoped, permission, range, S
  <2> QED BY <1>1, <2>1
<1>3. attrs \in Seq(S)
  <2> DEFINE f == [i \in 1..n |-> AttrRule(d.attrRules[i])]
  <2>1. \A i \in 1..n : AttrRule(d.attrRules[i]) \in S
    OBVIOUS
  <2>2. f \in [1..n -> S]
    <3> HIDE DEF S
    <3> QED BY <2>1
  <2>3. f \in Seq(S)
    <3> HIDE DEF f, S
    <3> QED BY <2>2
  <2> QED BY <2>3
<1>4. scoped \o permission \o range \o attrs \in Seq(S)
  <2> HIDE DEF scoped, permission, range, attrs, S
  <2> QED BY <1>2, <1>3
<1>5. \A s \in Seq(S) : Len(s) \in Nat /\ DOMAIN s = 1..Len(s)
  <2> HIDE DEF S
  <2> QED OBVIOUS
<1>6. RulesFor(d, r, resource) = scoped \o permission \o range \o attrs
  BY DEF RulesFor
<1> HIDE DEF scoped, permission, range, attrs, S
<1> QED BY <1>4, <1>5, <1>6

(* The rules collected are a phase's that has not begun.                    *)
LEMMA CollectKeeps ==
  ASSUME PolicyInv, CollectPolicy
  PROVE  RuleInv'
<1>1. CASE UNCHANGED <<rules, ran, phase>>
  BY <1>1, StutterKeeps DEF PolicyInv, CollectPolicy, vars
<1>2. CASE ~UNCHANGED <<rules, ran, phase>>
  <2>1. PICK r, resource :
               /\ collected' = RulesFor(deployment, r, resource)
               /\ rules' = [i \in DOMAIN collected' |->
                              [type |-> collected'[i].type, async |-> FALSE,
                               restricts |-> collected'[i].restricts]]
               /\ ran' = [i \in DOMAIN collected' |-> NONE]
               /\ phase' = "start"
    BY <1>2 DEF CollectPolicy
  <2>2. PICK m \in Nat : DOMAIN collected' = 1..m
    <3>1. PICK n \in Nat : DOMAIN deployment.attrRules = 1..n
      BY DeploymentsAssumption DEF PolicyInv, Waiting, CollectPolicy
    <3> QED BY <2>1, <3>1, RulesForIsAList
  <2>3. Indices' = 1..m /\ ran' = [i \in 1..m |-> NONE] /\ phase' = "start"
    BY <2>1, <2>2 DEF Indices
  <2>4. /\ at = 0 /\ blamed = 0 /\ doubted = {} /\ thrown = NONE
        /\ UNCHANGED <<onEmpty, at, now, began, due, caller, doubted, thrown, blamed>>
    BY DEF PolicyInv, Waiting, RuleInv, RulesTyped, Staged, Indices, CollectPolicy
  <2>5. RulesTyped'
    BY <2>3, <2>4 DEF PolicyInv, RuleInv, RulesTyped, Listed, Outcomes, Phases
  <2>6. Staged' /\ Standing' /\ DoubtsEnd' /\ ThrowsBlameTheRuleAsked'
    BY <2>3, <2>4 DEF Staged, Unbegun, Standing, DoubtsEnd, ThrowsBlameTheRuleAsked
  <2>7. Budgeted'
    BY <2>3, <2>4, RulePhaseAssumption DEF Budgeted, BudgetsTripWhenSpent, Throws
  <2> QED BY <2>5, <2>6, <2>7 DEF RuleInv
<1> QED BY <1>1, <1>2

(* Every step keeps the phase's invariant.                                  *)
LEMMA PolicyInvKept ==
  ASSUME PolicyInv, [PolicyNext]_policyVars
  PROVE  PolicyInv'
<1>1. CASE GivenPhase
  BY <1>1, NextKeeps DEF GivenPhase, PolicyInv, Waiting, policy
<1>2. CASE LoadPackage
  BY <1>2, StutterKeeps DEF LoadPackage, PolicyInv, Waiting, vars
<1>3. CASE Construct
  BY <1>3, StutterKeeps DEF Construct, PolicyInv, Waiting, vars
<1>4. CASE CollectPolicy
  <2>1. Waiting'
    BY <1>4 DEF CollectPolicy, PolicyInv, Waiting
  <2> QED BY <1>4, <2>1, CollectKeeps DEF PolicyInv
<1>5. CASE BeginBuiltin
  BY <1>5, BeginKeeps DEF BeginBuiltin, PolicyInv, Waiting, policy
<1>6. CASE AskBuiltin
  BY <1>6, SettleKeeps DEF AskBuiltin, AnswerKinds, ReportKinds, PolicyInv, Waiting, policy
<1>7. CASE UNCHANGED policyVars
  BY <1>7, StutterKeeps DEF PolicyInv, Waiting, vars, policyVars, policy
<1> QED BY <1>1, <1>2, <1>3, <1>4, <1>5, <1>6, <1>7 DEF PolicyNext

(* Every deployment's rule phase, or the one over a given list, keeps the   *)
(* rule phase's invariant.                                                  *)
THEOREM PolicyInvariance == PolicySpec => []PolicyInv
<1>1. PolicyInit => PolicyInv
  <2> SUFFICES ASSUME PolicyInit PROVE PolicyInv
    OBVIOUS
  <2>1. CASE deployment = NONE
    <3>1. Init /\ stage = "given"
      BY <2>1 DEF PolicyInit
    <3> QED BY <3>1, InitKeeps DEF PolicyInv, Waiting
  <2>2. CASE deployment # NONE
    <3>1. /\ deployment \in Deployments /\ stage = "loading"
          /\ Starts(<<>>, deployment.onEmpty, "collecting")
      BY <2>2 DEF PolicyInit
    <3>2. DOMAIN <<>> = 1..0 /\ deployment.onEmpty \in {"deny", "allow"}
      BY <3>1, DeploymentsAssumption
    <3>3. RuleInv
      BY <3>1, <3>2, StartKeeps
    <3> QED BY <3>1, <3>3 DEF PolicyInv, Waiting, Starts
  <2> QED BY <2>1, <2>2
<1>2. PolicyInv /\ [PolicyNext]_policyVars => PolicyInv'
  BY PolicyInvKept
<1> QED BY <1>1, <1>2, PTL DEF PolicySpec

(* Whatever a deployment configures and a request asks, the decision is the *)
(* AND over the groups of the rules collected of the ORs within them        *)
(* (evaluate, conclude).                                                    *)
THEOREM PolicyDecisionMeansAndOfOrs == PolicySpec => []DecisionMeansAndOfOrs
<1>1. PolicyInv => DecisionMeansAndOfOrs
  BY RuleInvDecides DEF PolicyInv
<1> QED BY <1>1, PolicyInvariance, PTL

(* The rest of what holds of a rule phase: budgets, blame and doubts        *)
(* (runAsyncRule, conclude).                                                *)
THEOREM PolicyPhaseHolds ==
  PolicySpec => [](BudgetsTripWhenSpent /\ ThrowsBlameTheRuleAsked /\ PassesAreProven)
<1>1. PolicyInv => BudgetsTripWhenSpent /\ ThrowsBlameTheRuleAsked /\ PassesAreProven
  BY RuleInvProves DEF PolicyInv
<1> QED BY <1>1, PolicyInvariance, PTL

-----------------------------------------------------------------------------
(* A built-in rule's outcome is its answer: nothing else is written.        *)
LEMMA AskAnswers ==
  ASSUME PolicyInv, Answered, AskBuiltin
  PROVE  Answered'
<1> DEFINE answer == IF verify(collected[at], attributes) THEN "true" ELSE "false"
<1>1. /\ at \in Indices /\ Indices' = Indices /\ UNCHANGED <<rules, stage, collected, attributes>>
      /\ Settle(answer, "none")
      /\ ran \in [Indices -> Outcomes]
  BY DEF AskBuiltin, policy, PolicyInv, RuleInv, RulesTyped, Standing, Indices
<1>2. Outcome(Concludes(answer, "none") = "pass")
  BY <1>1 DEF Settle, Concludes
<1>3. \A i \in Indices : ran'[i] = IF i = at THEN (IF verify(collected[at], attributes) THEN "pass" ELSE "fail")
                                   ELSE ran[i]
  BY <1>1, <1>2 DEF Outcome, Concludes
<1> HIDE DEF answer
<1> QED BY <1>1, <1>3 DEF Answered

(* So every step leaves the outcomes the rules' own answers.                *)
LEMMA AnsweredKept ==
  ASSUME PolicyInv, Answered, [PolicyNext]_policyVars
  PROVE  Answered'
<1>1. CASE CollectPolicy
  <2>1. CASE stage' = "collected"
    <3>1. /\ rules' = [i \in DOMAIN collected' |->
                         [type |-> collected'[i].type, async |-> FALSE,
                          restricts |-> collected'[i].restricts]]
          /\ ran' = [i \in DOMAIN collected' |-> NONE]
      BY <1>1, <2>1 DEF CollectPolicy
    <3>2. NONE \notin {"pass", "fail"}
      BY RulePhaseAssumption
    <3> QED BY <3>1, <3>2 DEF Answered, Indices
  <2>2. CASE stage' # "collected"
    BY <2>2 DEF Answered
  <2> QED BY <2>1, <2>2
<1>2. CASE AskBuiltin
  BY <1>2, AskAnswers
<1>3. CASE BeginBuiltin
  BY <1>3 DEF BeginBuiltin, Begin, policy, Answered, Indices
<1>4. CASE GivenPhase \/ LoadPackage \/ Construct
  BY <1>4 DEF GivenPhase, LoadPackage, Construct, policy, Answered
<1>5. CASE UNCHANGED policyVars
  BY <1>5 DEF policyVars, policy, vars, Answered, Indices
<1> QED BY <1>1, <1>2, <1>3, <1>4, <1>5 DEF PolicyNext

(* The decision is what all of the rules say of the attributes together.    *)
DecidesAsTheRulesSay ==
  stage = "collected" /\ phase = "decided" =>
    (Allowed <=> WouldAllow(collected, attributes, onEmpty))

(* A group passed exactly if one of its rules holds of the attributes.      *)
LEMMA AnswersDecide ==
  ASSUME PolicyInv, Answered
  PROVE  DecidesAsTheRulesSay
<1> SUFFICES ASSUME stage = "collected", phase = "decided"
             PROVE  Allowed <=> WouldAllow(collected, attributes, onEmpty)
  BY DEF DecidesAsTheRulesSay
<1>1. /\ DecisionMeansAndOfOrs /\ DOMAIN collected = Indices /\ Listed
      /\ onEmpty \in {"deny", "allow"}
      /\ \A i \in Indices :
           /\ rules[i].type = collected[i].type /\ rules[i].restricts = collected[i].restricts
           /\ ran[i] = "pass" => verify(collected[i], attributes)
           /\ ran[i] = "fail" => ~verify(collected[i], attributes)
  BY RuleInvDecides DEF PolicyInv, Answered, RuleInv, RulesTyped
<1>2. NoApplicableRule => ~(onEmpty = "allow" \/ \E i \in DOMAIN collected : ~collected[i].restricts)
  BY <1>1 DEF NoApplicableRule, Granting
<1>3. ASSUME Allowed PROVE WouldAllow(collected, attributes, onEmpty)
  <2>1. /\ \A i \in Indices : \E j \in GroupOf(i) : ran[j] = "pass"
        /\ onEmpty = "deny" => \E j \in Indices : ~rules[j].restricts
    BY <1>1, <1>3 DEF DecisionMeansAndOfOrs, Allowed
  <2>2. \A i \in Indices : \E j \in Indices :
          collected[i].type = collected[j].type /\ verify(collected[j], attributes)
    BY <1>1, <2>1 DEF GroupOf
  <2> QED BY <1>1, <2>1, <2>2 DEF WouldAllow
<1>4. ASSUME ~Allowed PROVE ~WouldAllow(collected, attributes, onEmpty)
  <2>1. CASE NoApplicableRule
    BY <1>2, <2>1 DEF WouldAllow
  <2>2. CASE ~NoApplicableRule
    <3>1. DenyingRule # 0 /\ \A j \in GroupOf(DenyingRule) : ran[j] = "fail"
      BY <1>1, <1>4, <2>2 DEF DecisionMeansAndOfOrs, Allowed
    <3>2. DenyingRule \in Indices
      <4>1. {f \in Firsts : ~GroupPassed(f)} \in SUBSET (Nat \ {0}) /\ Firsts \subseteq Indices
        BY <1>1, FirstsAreFirst
      <4> QED BY <3>1, <4>1, LeastOrZero DEF DenyingRule
    <3>3. ASSUME NEW j \in Indices, collected[DenyingRule].type = collected[j].type
          PROVE  ~verify(collected[j], attributes)
      BY <1>1, <3>1, <3>2, <3>3 DEF GroupOf
    <3> QED BY <1>1, <3>2, <3>3 DEF WouldAllow
  <2> QED BY <2>1, <2>2
<1> QED BY <1>3, <1>4

(* An evaluation is a short cut: what it decides rule by rule, stopping a   *)
(* group at the first alternative that passes and never asking any of a     *)
(* list that grants nothing, is what all of the rules say of the attributes *)
(* together (evaluate, evaluateGroup, conclude).                            *)
THEOREM PolicyDecidesAsTheRulesSay == PolicySpec => []DecidesAsTheRulesSay
<1>1. PolicyInit => Answered
  BY DEF PolicyInit, Answered
<1>2. PolicyInv /\ Answered /\ [PolicyNext]_policyVars => Answered'
  BY AnsweredKept
<1>3. PolicyInv /\ Answered => DecidesAsTheRulesSay
  BY AnswersDecide
<1> QED BY <1>1, <1>2, <1>3, PolicyInvariance, PTL DEF PolicySpec

-----------------------------------------------------------------------------
(* The merge.  What holds of 0 and goes from each number to the next holds  *)
(* up to n.                                                                 *)
LEMMA Climbs ==
  ASSUME NEW n \in Nat, NEW P, 0 \in P, \A i \in 0..n : i + 1 <= n /\ i \in P => i + 1 \in P
  PROVE  \A i \in 0..n : i \in P
<1> DEFINE Missing == {i \in 0..n : i \notin P}
<1> SUFFICES ASSUME Missing # {} PROVE FALSE
  OBVIOUS
<1>1. Missing \in SUBSET Nat
  OBVIOUS
<1>2. Least(Missing) \in Missing /\ \A i \in Missing : Least(Missing) <= i
  <2> HIDE DEF Missing
  <2> QED BY <1>1, LeastIsLeast
<1>3. PICK m \in Missing : \A i \in Missing : m <= i
  BY <1>2
<1>4. m # 0 /\ m - 1 \in 0..n /\ m - 1 + 1 = m /\ m <= n
  BY <1>3
<1>5. m - 1 \in P
  BY <1>3, <1>4
<1> QED BY <1>3, <1>4, <1>5

(* The loop over the maps has a value for each of them: were there a first  *)
(* at which it had none, the one before it would give it.                   *)
Loop(maps, key, n, f) ==
  f = [i \in 0..n |-> IF i = 0 THEN ABSENT ELSE Joined(f[i - 1], maps[i], key)]

(* Such a loop exists, however many maps there are.                         *)
LEMMA LoopRuns ==
  ASSUME NEW maps, NEW key, NEW n \in Nat
  PROVE  \E f : Loop(maps, key, n, f)
<1> DEFINE P == {i \in Nat : \E f : Loop(maps, key, i, f)}
<1>1. 0 \in P
  <2> DEFINE f == [i \in 0..0 |-> ABSENT]
  <2>1. Loop(maps, key, 0, f)
    BY DEF Loop
  <2> QED BY <2>1
<1>2. ASSUME NEW i \in 0..n, i \in P PROVE i + 1 \in P
  <2>1. PICK f : Loop(maps, key, i, f)
    BY <1>2
  <2> DEFINE g == [j \in 0..(i + 1) |-> IF j = i + 1 THEN Joined(f[i], maps[i + 1], key) ELSE f[j]]
  <2>2. \A j \in 0..i : g[j] = f[j] /\ f[j] = IF j = 0 THEN ABSENT ELSE Joined(f[j - 1], maps[j], key)
    BY <2>1 DEF Loop
  <2>3. ASSUME NEW j \in 0..(i + 1)
        PROVE  g[j] = IF j = 0 THEN ABSENT ELSE Joined(g[j - 1], maps[j], key)
    <3>1. CASE j = i + 1
      <4>1. j # 0 /\ j - 1 = i /\ i \in 0..i
        BY <3>1
      <4>2. g[j - 1] = f[i] /\ g[j] = Joined(f[i], maps[i + 1], key)
        BY <2>2, <3>1, <4>1
      <4> QED BY <3>1, <4>1, <4>2
    <3>2. CASE j \in 0..i
      <4>1. j # 0 => j - 1 \in 0..i
        BY <3>2
      <4> HIDE DEF g
      <4> QED BY <2>2, <3>2, <4>1
    <3> QED BY <3>1, <3>2
  <2>4. Loop(maps, key, i + 1, g)
    <3>1. g = [j \in 0..(i + 1) |-> g[j]]
      OBVIOUS
    <3> HIDE DEF g
    <3> QED BY <2>3, <3>1 DEF Loop
  <2> QED BY <2>4
<1>3. n \in 0..n
  OBVIOUS
<1> HIDE DEF P
<1>4. n \in P
  BY <1>1, <1>2, <1>3, Climbs
<1> QED BY <1>4 DEF P

(* So a merged value is what the loop ends with.                            *)
Ends(maps, key, f) ==
  /\ MergedValue(maps, key) = f[Len(maps)] /\ f[0] = ABSENT
  /\ \A i \in 1..Len(maps) : f[i] = Joined(f[i - 1], maps[i], key)

(* AttributePipeline's merge of one key is such a loop.                     *)
LEMMA MergeLoops ==
  ASSUME NEW maps, NEW key, Len(maps) \in Nat
  PROVE  \E f : Ends(maps, key, f)
<1> DEFINE after == CHOOSE f : Loop(maps, key, Len(maps), f)
<1>1. Loop(maps, key, Len(maps), after)
  BY LoopRuns
<1>2. MergedValue(maps, key) = after[Len(maps)]
  BY DEF MergedValue, Loop
<1> HIDE DEF after
<1>3. \A i \in 0..Len(maps) : after[i] = IF i = 0 THEN ABSENT ELSE Joined(after[i - 1], maps[i], key)
  BY <1>1 DEF Loop
<1> QED BY <1>2, <1>3 DEF Ends

(* Maps that do not write a key leave what the maps before them make of it. *)
Leaves(maps, key) == \A i \in 1..Len(maps) : key \notin DOMAIN maps[i]

(* Maps that do not write a key, run last, change nothing of it.            *)
LEMMA SkipsBehind ==
  ASSUME NEW S, NEW s \in Seq(S), NEW t \in Seq(S), NEW key,
         Leaves(t, key)
  PROVE  MergedValue(s \o t, key) = MergedValue(s, key)
<1> DEFINE m == s \o t
<1>1. /\ Len(m) = Len(s) + Len(t) /\ Len(m) \in Nat /\ Len(s) \in Nat /\ Len(t) \in Nat
      /\ \A i \in 1..Len(s) : m[i] = s[i]
      /\ \A i \in 1..Len(t) : m[Len(s) + i] = t[i]
  OBVIOUS
<1> HIDE DEF m
<1>2. PICK f : Ends(m, key, f)
  BY <1>1, MergeLoops
<1>3. PICK g : Ends(s, key, g)
  BY <1>1, MergeLoops
<1>4. f[Len(s)] = g[Len(s)]
  <2> DEFINE P == {i \in Nat : f[i] = g[i]}
  <2>1. ASSUME NEW i \in 0..Len(s), i + 1 <= Len(s), i \in P PROVE i + 1 \in P
    <3>1. i + 1 \in 1..Len(s) /\ i + 1 \in 1..Len(m) /\ i + 1 - 1 = i
      BY <1>1, <2>1
    <3> QED BY <1>1, <1>2, <1>3, <2>1, <3>1 DEF Ends
  <2>2. 0 \in P /\ Len(s) \in 0..Len(s)
    BY <1>1, <1>2, <1>3 DEF Ends
  <2>3. \A i \in 0..Len(s) : i \in P
    <3> HIDE DEF P
    <3> QED BY <1>1, <2>1, <2>2, Climbs
  <2> QED BY <2>2, <2>3
<1>5. f[Len(s) + Len(t)] = f[Len(s)]
  <2> DEFINE P == {i \in Nat : f[Len(s) + i] = f[Len(s)]}
  <2>1. ASSUME NEW i \in 0..Len(t), i + 1 <= Len(t), i \in P PROVE i + 1 \in P
    <3>1. /\ i + 1 \in 1..Len(t) /\ Len(s) + (i + 1) \in 1..Len(m)
          /\ Len(s) + (i + 1) - 1 = Len(s) + i /\ i + 1 \in Nat
      BY <1>1, <2>1
    <3>2. f[Len(s) + (i + 1)] = Joined(f[Len(s) + i], t[i + 1], key)
      BY <1>1, <1>2, <3>1 DEF Ends
    <3>3. f[Len(s) + (i + 1)] = f[Len(s) + i]
      BY <3>1, <3>2 DEF Joined, Ends, Leaves
    <3> QED BY <2>1, <3>1, <3>3
  <2>2. 0 \in P /\ Len(t) \in 0..Len(t)
    BY <1>1
  <2>3. \A i \in 0..Len(t) : i \in P
    <3> HIDE DEF P
    <3> QED BY <1>1, <2>1, <2>2, Climbs
  <2> QED BY <2>2, <2>3
<1>6. MergedValue(m, key) = MergedValue(s, key)
  BY <1>1, <1>2, <1>3, <1>4, <1>5 DEF Ends
<1> QED BY <1>6 DEF m

(* And what the maps behind them make of it.                                *)
LEMMA SkipsAhead ==
  ASSUME NEW S, NEW s \in Seq(S), NEW t \in Seq(S), NEW key,
         Leaves(s, key)
  PROVE  MergedValue(s \o t, key) = MergedValue(t, key)
<1> DEFINE m == s \o t
<1>1. /\ Len(m) = Len(s) + Len(t) /\ Len(m) \in Nat /\ Len(s) \in Nat /\ Len(t) \in Nat
      /\ \A i \in 1..Len(s) : m[i] = s[i]
      /\ \A i \in 1..Len(t) : m[Len(s) + i] = t[i]
  OBVIOUS
<1> HIDE DEF m
<1>2. PICK f : Ends(m, key, f)
  BY <1>1, MergeLoops
<1>3. PICK g : Ends(t, key, g)
  BY <1>1, MergeLoops
<1>4. f[Len(s)] = ABSENT
  <2> DEFINE P == {i \in Nat : f[i] = ABSENT}
  <2>1. ASSUME NEW i \in 0..Len(s), i + 1 <= Len(s), i \in P PROVE i + 1 \in P
    <3>1. i + 1 \in 1..Len(s) /\ i + 1 \in 1..Len(m) /\ i + 1 - 1 = i
      BY <1>1, <2>1
    <3> QED BY <1>1, <1>2, <2>1, <3>1 DEF Joined, Ends, Leaves
  <2>2. 0 \in P /\ Len(s) \in 0..Len(s)
    BY <1>1, <1>2 DEF Ends
  <2>3. \A i \in 0..Len(s) : i \in P
    <3> HIDE DEF P
    <3> QED BY <1>1, <2>1, <2>2, Climbs
  <2> QED BY <2>2, <2>3
<1>5. f[Len(s) + Len(t)] = g[Len(t)]
  <2> DEFINE P == {i \in Nat : f[Len(s) + i] = g[i]}
  <2>1. ASSUME NEW i \in 0..Len(t), i + 1 <= Len(t), i \in P PROVE i + 1 \in P
    <3>1. /\ i + 1 \in 1..Len(t) /\ Len(s) + (i + 1) \in 1..Len(m)
          /\ Len(s) + (i + 1) - 1 = Len(s) + i /\ i + 1 \in Nat /\ i + 1 - 1 = i
      BY <1>1, <2>1
    <3>2. f[Len(s) + (i + 1)] = Joined(f[Len(s) + i], t[i + 1], key)
      BY <1>1, <1>2, <3>1 DEF Ends
    <3> QED BY <1>3, <2>1, <3>1, <3>2 DEF Ends
  <2>2. 0 \in P /\ Len(t) \in 0..Len(t)
    BY <1>1, <1>3, <1>4 DEF Ends
  <2>3. \A i \in 0..Len(t) : i \in P
    <3> HIDE DEF P
    <3> QED BY <1>1, <2>1, <2>2, Climbs
  <2> QED BY <2>2, <2>3
<1>6. MergedValue(m, key) = MergedValue(t, key)
  BY <1>1, <1>2, <1>3, <1>5 DEF Ends
<1> QED BY <1>6 DEF m

(* A key nobody writes is not there.                                        *)
LEMMA NobodyWrites ==
  ASSUME NEW S, NEW s \in Seq(S), NEW key, Leaves(s, key)
  PROVE  MergedValue(s, key) = ABSENT
<1>1. PICK none \in Seq(S) : Len(none) = 0 /\ s \o none = s
  <2>1. <<>> \in Seq(S) /\ Len(<<>>) = 0 /\ s \o <<>> = s
    OBVIOUS
  <2> QED BY <2>1
<1>2. MergedValue(s \o none, key) = MergedValue(none, key)
  BY SkipsAhead, Zenon
<1>3. PICK f : Ends(none, key, f)
  <2>1. Len(none) \in Nat
    BY <1>1
  <2> QED BY <2>1, MergeLoops, Zenon
<1> QED BY <1>1, <1>2, <1>3 DEF Ends

(* Reading a merged map, whether the key is there or not.                   *)
LEMMA MergedReads ==
  ASSUME NEW S, NEW s \in Seq(S), NEW key
  PROVE  /\ Read(merge(s), key) = MergedValue(s, key)
         /\ key \in DOMAIN merge(s) => merge(s)[key] = MergedValue(s, key)
<1>1. key \in DOMAIN merge(s) => merge(s)[key] = MergedValue(s, key)
  BY DEF merge
<1>2. CASE key \notin DOMAIN merge(s)
  <2>1. DOMAIN s = 1..Len(s)
    OBVIOUS
  <2>2. Leaves(s, key)
    BY <1>2, <2>1 DEF merge, Leaves
  <2> QED BY <1>1, <1>2, <2>2, NobodyWrites DEF Read
<1> QED BY <1>1, <1>2 DEF Read

-----------------------------------------------------------------------------
(* A deployment's collectors run in the order configured, or in reverse.    *)
Turned(back, maps) == IF back THEN Reverse(maps) ELSE maps

(* The reverse of a list, place by place.                                   *)
LEMMA ReverseIs ==
  ASSUME NEW S, NEW s \in Seq(S)
  PROVE  /\ Reverse(s) \in Seq(S) /\ Len(Reverse(s)) = Len(s) /\ Len(s) \in Nat
         /\ \A i \in 1..Len(s) : Reverse(s)[i] = s[(Len(s) - i) + 1]
<1> DEFINE r == [i \in 1..Len(s) |-> s[(Len(s) - i) + 1]]
<1>1. Reverse(s) = r /\ Len(s) \in Nat
  BY DEF Reverse
<1>2. \A i \in 1..Len(s) : (Len(s) - i) + 1 \in 1..Len(s) /\ s[(Len(s) - i) + 1] \in S
  OBVIOUS
<1>3. r \in [1..Len(s) -> S]
  BY <1>2
<1>4. \A i \in 1..Len(s) : r[i] = s[(Len(s) - i) + 1]
  OBVIOUS
<1> HIDE DEF r
<1>5. r \in Seq(S) /\ Len(r) = Len(s)
  BY <1>1, <1>3
<1> QED BY <1>1, <1>4, <1>5

(* Two lists in a row, reversed, are their reverses in the other order.     *)
LEMMA ReverseConcat ==
  ASSUME NEW S, NEW s \in Seq(S), NEW t \in Seq(S)
  PROVE  Reverse(s \o t) = Reverse(t) \o Reverse(s)
<1>1. PICK m \in Seq(S) :
         /\ m = s \o t /\ Len(m) = Len(s) + Len(t)
         /\ \A i \in 1..Len(s) : m[i] = s[i]
         /\ \A i \in 1..Len(t) : m[Len(s) + i] = t[i]
  <2>1. /\ s \o t \in Seq(S) /\ Len(s \o t) = Len(s) + Len(t)
        /\ \A i \in 1..Len(s) : (s \o t)[i] = s[i]
        /\ \A i \in 1..Len(t) : (s \o t)[Len(s) + i] = t[i]
    OBVIOUS
  <2> QED BY <2>1, Zenon
<1>2. PICK l \in Seq(S) :
         /\ l = Reverse(m) /\ Len(l) = Len(m)
         /\ \A i \in 1..Len(m) : l[i] = m[(Len(m) - i) + 1]
  BY ReverseIs
<1>3. PICK rs \in Seq(S) :
         /\ rs = Reverse(s) /\ Len(rs) = Len(s)
         /\ \A i \in 1..Len(s) : rs[i] = s[(Len(s) - i) + 1]
  BY ReverseIs
<1>4. PICK rt \in Seq(S) :
         /\ rt = Reverse(t) /\ Len(rt) = Len(t)
         /\ \A i \in 1..Len(t) : rt[i] = t[(Len(t) - i) + 1]
  BY ReverseIs
<1>5. PICK r \in Seq(S) :
         /\ r = rt \o rs /\ Len(r) = Len(rt) + Len(rs)
         /\ \A i \in 1..Len(rt) : r[i] = rt[i]
         /\ \A i \in 1..Len(rs) : r[Len(rt) + i] = rs[i]
  <2>1. /\ rt \o rs \in Seq(S) /\ Len(rt \o rs) = Len(rt) + Len(rs)
        /\ \A i \in 1..Len(rt) : (rt \o rs)[i] = rt[i]
        /\ \A i \in 1..Len(rs) : (rt \o rs)[Len(rt) + i] = rs[i]
    OBVIOUS
  <2> QED BY <2>1, Zenon
<1>6. Len(s) \in Nat /\ Len(t) \in Nat /\ Len(m) \in Nat
  OBVIOUS
<1>7. ASSUME NEW i \in 1..Len(t) PROVE l[i] = r[i]
  <2>1. /\ (Len(m) - i) + 1 = Len(s) + ((Len(t) - i) + 1)
        /\ (Len(t) - i) + 1 \in 1..Len(t) /\ i \in 1..Len(m)
    BY <1>1, <1>6
  <2>2. l[i] = m[Len(s) + ((Len(t) - i) + 1)]
    BY <1>2, <2>1
  <2>3. m[Len(s) + ((Len(t) - i) + 1)] = t[(Len(t) - i) + 1]
    BY <1>1, <2>1
  <2> QED BY <1>4, <1>5, <2>2, <2>3
<1>8. ASSUME NEW i \in 1..Len(s) PROVE l[Len(t) + i] = r[Len(t) + i]
  <2>1. /\ (Len(m) - (Len(t) + i)) + 1 = (Len(s) - i) + 1
        /\ (Len(s) - i) + 1 \in 1..Len(s) /\ Len(t) + i \in 1..Len(m)
    BY <1>1, <1>6
  <2>2. l[Len(t) + i] = m[(Len(s) - i) + 1]
    BY <1>2, <2>1
  <2>3. m[(Len(s) - i) + 1] = s[(Len(s) - i) + 1]
    BY <1>1, <2>1
  <2>4. r[Len(t) + i] = rs[i]
    BY <1>3, <1>4, <1>5
  <2> QED BY <1>3, <2>2, <2>3, <2>4
<1>9. ASSUME NEW i \in 1..Len(m) PROVE l[i] = r[i]
  <2>1. i \in 1..Len(t) \/ \E j \in 1..Len(s) : i = Len(t) + j
    <3>1. i \notin 1..Len(t) => i - Len(t) \in 1..Len(s) /\ i = Len(t) + (i - Len(t))
      BY <1>1, <1>6
    <3> QED BY <3>1
  <2> QED BY <1>7, <1>8, <2>1
<1>10. Len(l) = Len(r) /\ Len(l) = Len(m)
  BY <1>1, <1>2, <1>3, <1>4, <1>5, <1>6
<1>11. l = r
  <2>1. l = [i \in 1..Len(l) |-> l[i]] /\ r = [i \in 1..Len(r) |-> r[i]]
    OBVIOUS
  <2> QED BY <1>9, <1>10, <2>1
<1> QED BY <1>1, <1>2, <1>3, <1>4, <1>5, <1>11

(* In either order, maps that leave a key alone change nothing about it.    *)
LEMMA TurnedSkips ==
  ASSUME NEW S, NEW s \in Seq(S), NEW t \in Seq(S), NEW key, NEW back
  PROVE  /\ Leaves(t, key) => MergedValue(Turned(back, s \o t), key) = MergedValue(Turned(back, s), key)
         /\ Leaves(s, key) => MergedValue(Turned(back, s \o t), key) = MergedValue(Turned(back, t), key)
<1>1. ASSUME NEW m \in Seq(S), Leaves(m, key) PROVE Leaves(Reverse(m), key)
  <2>1. /\ Len(Reverse(m)) = Len(m) /\ Len(m) \in Nat
        /\ \A i \in 1..Len(m) : Reverse(m)[i] = m[(Len(m) - i) + 1]
    BY ReverseIs
  <2>2. \A i \in 1..Len(m) : (Len(m) - i) + 1 \in 1..Len(m)
    BY <2>1
  <2> QED BY <1>1, <2>1, <2>2 DEF Leaves
<1>2. Reverse(s) \in Seq(S) /\ Reverse(t) \in Seq(S) /\ Reverse(s \o t) = Reverse(t) \o Reverse(s)
  BY ReverseIs, ReverseConcat
<1>3. ASSUME Leaves(t, key)
      PROVE  /\ MergedValue(s \o t, key) = MergedValue(s, key)
             /\ MergedValue(Reverse(t) \o Reverse(s), key) = MergedValue(Reverse(s), key)
  BY <1>1, <1>2, <1>3, SkipsBehind, SkipsAhead
<1>4. ASSUME Leaves(s, key)
      PROVE  /\ MergedValue(s \o t, key) = MergedValue(t, key)
             /\ MergedValue(Reverse(t) \o Reverse(s), key) = MergedValue(Reverse(t), key)
  BY <1>1, <1>2, <1>4, SkipsBehind, SkipsAhead
<1> QED BY <1>2, <1>3, <1>4 DEF Turned

-----------------------------------------------------------------------------
(* The collectors by what they read: the engine's own of the token and the  *)
(* configuration, the packages' own, what is declared of the token, and     *)
(* what is declared of the caller's body.                                   *)
CoreMaps(d, r) ==
  If(d.scopeClaim # ABSENT, PayloadScopeCollector(r.subject, d.scopeClaim))
    \o <<PayloadSubjectIdCollector(r.subject)>>
    \o If(d.permissions # ABSENT, StaticPermissionCollector(d.permissions))
    \o If(d.roles # ABSENT, StaticRoleCollector(d.roles))

ClaimMaps(d, r) == If(d.fromClaims # <<>>, promoteMappings(d.fromClaims, r.subject))

ContextMaps(d, r) ==
  If(d.fromContext # <<>> /\ r.context # ABSENT, promoteMappings(d.fromContext, r.context))

(* Each collector writes one map or none.                                   *)
LEMMA IfIsAList ==
  ASSUME NEW S, NEW map \in S, NEW configured, NEW key
  PROVE  /\ If(configured, map) \in Seq(S)
         /\ key \notin DOMAIN map => Leaves(If(configured, map), key)
<1>1. <<map>> \in Seq(S) /\ <<>> \in Seq(S)
  OBVIOUS
<1>2. \A i \in 1..Len(<<map>>) : <<map>>[i] = map
  OBVIOUS
<1>3. \A i \in 1..Len(<<>>) : FALSE
  OBVIOUS
<1>4. If(configured, map) = <<map>> \/ If(configured, map) = <<>>
  BY DEF If
<1> QED BY <1>1, <1>2, <1>3, <1>4 DEF Leaves

(* Lists in a row are a list, and leave a key alone if each does.           *)
LEMMA ConcatIsAList ==
  ASSUME NEW S, NEW s \in Seq(S), NEW t \in Seq(S), NEW key
  PROVE  /\ s \o t \in Seq(S)
         /\ Leaves(s, key) /\ Leaves(t, key) => Leaves(s \o t, key)
<1>1. PICK m \in Seq(S) :
         /\ m = s \o t /\ Len(m) = Len(s) + Len(t)
         /\ \A i \in 1..Len(s) : m[i] = s[i]
         /\ \A i \in 1..Len(t) : m[Len(s) + i] = t[i]
  <2>1. /\ s \o t \in Seq(S) /\ Len(s \o t) = Len(s) + Len(t)
        /\ \A i \in 1..Len(s) : (s \o t)[i] = s[i]
        /\ \A i \in 1..Len(t) : (s \o t)[Len(s) + i] = t[i]
    OBVIOUS
  <2> QED BY <2>1, Zenon
<1>2. Len(s) \in Nat /\ Len(t) \in Nat /\ Len(m) \in Nat
  OBVIOUS
<1>3. ASSUME Leaves(s, key), Leaves(t, key), NEW i \in 1..Len(m)
      PROVE  key \notin DOMAIN m[i]
  <2>1. CASE i \in 1..Len(s)
    BY <1>1, <1>3, <2>1 DEF Leaves
  <2>2. CASE i \notin 1..Len(s)
    <3>1. i - Len(s) \in 1..Len(t) /\ i = Len(s) + (i - Len(s))
      BY <1>1, <1>2, <2>2
    <3>2. m[i] = t[i - Len(s)]
      BY <1>1, <3>1
    <3> QED BY <1>3, <3>1, <3>2 DEF Leaves
  <2> QED BY <2>1, <2>2
<1> QED BY <1>1, <1>3 DEF Leaves

(* What a deployment merges, and what each part of it writes.               *)
Collected(d, r, resource, S) ==
  /\ CoreMaps(d, r) \in Seq(S) /\ OwnedMaps(d, r, resource) \in Seq(S)
  /\ ClaimMaps(d, r) \in Seq(S) /\ ContextMaps(d, r) \in Seq(S)

Onto(mappings) == {Destination(mappings[i]) : i \in DOMAIN mappings}

(* The maps a deployment merges are the engine's, the packages', those of   *)
(* the claims and those of the body, in this order or reversed.             *)
LEMMA MapsAre ==
  ASSUME NEW d, NEW r, NEW resource
  PROVE  /\ \E S : Collected(d, r, resource, S)
         /\ Maps(d, r, resource) =
              Turned(d.reversed,
                     CoreMaps(d, r) \o OwnedMaps(d, r, resource) \o ClaimMaps(d, r) \o ContextMaps(d, r))
<1> DEFINE scopes == PayloadScopeCollector(r.subject, d.scopeClaim)
           ids == PayloadSubjectIdCollector(r.subject)
           permissions == StaticPermissionCollector(d.permissions)
           roles == StaticRoleCollector(d.roles)
           range == DelegationRangeCollector(r.subject, d.range)
           facts == RequestFactsCollector(resource, r.action)
           claims == promoteMappings(d.fromClaims, r.subject)
           context == promoteMappings(d.fromContext, r.context)
           S == {scopes, ids, permissions, roles, range, facts, claims, context}
<1>1. /\ scopes \in S /\ ids \in S /\ permissions \in S /\ roles \in S
      /\ range \in S /\ facts \in S /\ claims \in S /\ context \in S
  OBVIOUS
<1> HIDE DEF scopes, ids, permissions, roles, range, facts, claims, context, S
<1>2. <<ids>> \in Seq(S)
  BY <1>1
<1>3. /\ If(d.scopeClaim # ABSENT, scopes) \in Seq(S)
      /\ If(d.permissions # ABSENT, permissions) \in Seq(S)
      /\ If(d.roles # ABSENT, roles) \in Seq(S)
      /\ If(d.range # ABSENT, range) \in Seq(S)
      /\ If(d.facts, facts) \in Seq(S)
      /\ If(d.fromClaims # <<>>, claims) \in Seq(S)
      /\ If(d.fromContext # <<>> /\ r.context # ABSENT, context) \in Seq(S)
  BY <1>1, IfIsAList, Zenon
<1>4. If(d.scopeClaim # ABSENT, scopes) \o <<ids>> \in Seq(S)
  BY <1>2, <1>3, ConcatIsAList, Zenon
<1>5. If(d.scopeClaim # ABSENT, scopes) \o <<ids>> \o If(d.permissions # ABSENT, permissions) \in Seq(S)
  BY <1>3, <1>4, ConcatIsAList, Zenon
<1>6. CoreMaps(d, r) \in Seq(S)
  <2>1. CoreMaps(d, r) = If(d.scopeClaim # ABSENT, scopes) \o <<ids>>
                           \o If(d.permissions # ABSENT, permissions) \o If(d.roles # ABSENT, roles)
    BY DEF CoreMaps, scopes, ids, permissions, roles
  <2> QED BY <1>3, <1>5, <2>1, ConcatIsAList, Zenon
<1>7. OwnedMaps(d, r, resource) \in Seq(S)
  <2>1. OwnedMaps(d, r, resource) = If(d.range # ABSENT, range) \o If(d.facts, facts)
    BY DEF OwnedMaps, range, facts
  <2> QED BY <1>3, <2>1, ConcatIsAList, Zenon
<1>8. ClaimMaps(d, r) \in Seq(S) /\ ContextMaps(d, r) \in Seq(S)
  BY <1>3 DEF ClaimMaps, ContextMaps, claims, context
<1>9. Collected(d, r, resource, S)
  BY <1>6, <1>7, <1>8 DEF Collected
<1> QED BY <1>9 DEF Maps, Turned, CoreMaps, OwnedMaps, ClaimMaps, ContextMaps

(* The engine's own collectors write the engine's own keys, and declared    *)
(* ones the keys declared; the two packages' keys are theirs alone.         *)
LEMMA WhoWrites ==
  ASSUME NEW d, NEW r, NEW key
  PROVE  /\ key \notin CORE_ATTRIBUTE_KEYS => Leaves(CoreMaps(d, r), key)
         /\ key \notin Onto(d.fromClaims) => Leaves(ClaimMaps(d, r), key)
         /\ key \notin Onto(d.fromContext) => Leaves(ContextMaps(d, r), key)
<1>1. \A mappings, source : DOMAIN promoteMappings(mappings, source) \subseteq Onto(mappings)
  BY DEF promoteMappings, Onto
<1>2. \A mappings, source : key \notin Onto(mappings) => key \notin DOMAIN promoteMappings(mappings, source)
  BY <1>1
<1>3. ASSUME NEW map, NEW configured, key \notin DOMAIN map PROVE Leaves(If(configured, map), key)
  <2>1. map \in {map}
    OBVIOUS
  <2> QED BY <1>3, <2>1, IfIsAList, Zenon
<1>4. ASSUME key \notin CORE_ATTRIBUTE_KEYS PROVE Leaves(CoreMaps(d, r), key)
  <2> DEFINE scopes == PayloadScopeCollector(r.subject, d.scopeClaim)
             ids == PayloadSubjectIdCollector(r.subject)
             permissions == StaticPermissionCollector(d.permissions)
             roles == StaticRoleCollector(d.roles)
             S == {scopes, ids, permissions, roles}
  <2>1. /\ key \notin DOMAIN scopes /\ key \notin DOMAIN permissions /\ key \notin DOMAIN roles
    BY <1>4 DEF PayloadScopeCollector, StaticPermissionCollector, StaticRoleCollector, CORE_ATTRIBUTE_KEYS
  <2>2. key \notin DOMAIN ids
    <3>1. DOMAIN ids \subseteq {ATTR_USER_ID, ATTR_CLIENT_ID}
      BY DEF PayloadSubjectIdCollector
    <3> QED BY <1>4, <3>1 DEF CORE_ATTRIBUTE_KEYS
  <2>3. scopes \in S /\ ids \in S /\ permissions \in S /\ roles \in S
    OBVIOUS
  <2> HIDE DEF scopes, ids, permissions, roles, S
  <2>4. <<ids>> \in Seq(S) /\ Leaves(<<ids>>, key)
    BY <2>2, <2>3 DEF Leaves
  <2>5. /\ If(d.scopeClaim # ABSENT, scopes) \in Seq(S) /\ Leaves(If(d.scopeClaim # ABSENT, scopes), key)
        /\ If(d.permissions # ABSENT, permissions) \in Seq(S)
        /\ Leaves(If(d.permissions # ABSENT, permissions), key)
        /\ If(d.roles # ABSENT, roles) \in Seq(S) /\ Leaves(If(d.roles # ABSENT, roles), key)
    BY <2>1, <2>3, IfIsAList, Zenon
  <2> DEFINE two == If(d.scopeClaim # ABSENT, scopes) \o <<ids>>
             three == two \o If(d.permissions # ABSENT, permissions)
  <2>6. two \in Seq(S) /\ Leaves(two, key)
    BY <2>4, <2>5, ConcatIsAList, Zenon
  <2>7. three \in Seq(S) /\ Leaves(three, key)
    <3> HIDE DEF two
    <3> QED BY <2>5, <2>6, ConcatIsAList, Zenon
  <2>8. Leaves(three \o If(d.roles # ABSENT, roles), key)
    <3> HIDE DEF three
    <3> QED BY <2>5, <2>7, ConcatIsAList, Zenon
  <2> QED BY <2>8 DEF CoreMaps, scopes, ids, permissions, roles
<1> QED BY <1>2, <1>3, <1>4, Zenon DEF ClaimMaps, ContextMaps

(* No two packages' collectors write one key, so their order is nothing to  *)
(* the value a key has of them.                                             *)
LEMMA OwnersApart ==
  ASSUME NEW d, NEW r, NEW resource, NEW key, NEW back
  PROVE  MergedValue(Turned(back, OwnedMaps(d, r, resource)), key)
           = MergedValue(OwnedMaps(d, r, resource), key)
<1> DEFINE range == DelegationRangeCollector(r.subject, d.range)
           facts == RequestFactsCollector(resource, r.action)
           ranges == If(d.range # ABSENT, range)
           factses == If(d.facts, facts)
           S == {range, facts}
<1>1. key \notin DOMAIN range \/ key \notin DOMAIN facts
  <2>1. DOMAIN range \subseteq {ATTR_DELEGATION_RANGE} /\ DOMAIN facts \subseteq CEDAR_ATTRIBUTE_KEYS
    BY DEF DelegationRangeCollector, RequestFactsCollector
  <2>2. ATTR_DELEGATION_RANGE \notin CEDAR_ATTRIBUTE_KEYS
    <3>1. \A a, b : Text(a) = Text(b) => a = b
      BY DEF Text
    <3>2. "delegationRange" \notin {"requestAction", "requestResourceType", "requestResourceId",
                                    "requestResourceRaw"}
      OBVIOUS
    <3> QED BY <3>1, <3>2 DEF CEDAR_ATTRIBUTE_KEYS, ATTR_DELEGATION_RANGE, ATTR_REQUEST_ACTION,
               ATTR_REQUEST_RESOURCE_TYPE, ATTR_REQUEST_RESOURCE_ID, ATTR_REQUEST_RESOURCE_RAW
  <2> QED BY <2>1, <2>2
<1>2. range \in S /\ facts \in S
  OBVIOUS
<1> HIDE DEF range, facts, S
<1>3. /\ ranges \in Seq(S) /\ (key \notin DOMAIN range => Leaves(ranges, key))
      /\ factses \in Seq(S) /\ (key \notin DOMAIN facts => Leaves(factses, key))
  BY <1>2, IfIsAList, Zenon
<1>4. \A s \in Seq(S) : Len(s) <= 1 => Turned(back, s) = s
  <2> SUFFICES ASSUME NEW s \in Seq(S), Len(s) <= 1 PROVE Reverse(s) = s
    BY DEF Turned
  <2>1. Len(s) \in Nat /\ s = [i \in 1..Len(s) |-> s[i]]
    OBVIOUS
  <2>2. \A i \in 1..Len(s) : (Len(s) - i) + 1 = i
    BY <2>1
  <2> QED BY <2>1, <2>2 DEF Reverse
<1>5. Turned(back, ranges) = ranges /\ Turned(back, factses) = factses
  <2>1. Len(ranges) <= 1 /\ Len(factses) <= 1
    BY DEF If
  <2> HIDE DEF ranges, factses
  <2> QED BY <1>3, <1>4, <2>1
<1>6. OwnedMaps(d, r, resource) = ranges \o factses
  BY DEF OwnedMaps, range, facts
<1> HIDE DEF ranges, factses
<1>7. CASE key \notin DOMAIN range
  <2>1. Leaves(ranges, key) /\ ranges \in Seq(S) /\ factses \in Seq(S)
    BY <1>3, <1>7
  <2>2. MergedValue(Turned(back, ranges \o factses), key) = MergedValue(Turned(back, factses), key)
    BY <2>1, TurnedSkips
  <2>3. MergedValue(ranges \o factses, key) = MergedValue(factses, key)
    BY <2>1, SkipsAhead, Zenon
  <2> QED BY <1>5, <1>6, <2>2, <2>3, Zenon
<1>8. CASE key \notin DOMAIN facts
  <2>1. Leaves(factses, key) /\ ranges \in Seq(S) /\ factses \in Seq(S)
    BY <1>3, <1>8
  <2>2. MergedValue(Turned(back, ranges \o factses), key) = MergedValue(Turned(back, ranges), key)
    BY <2>1, TurnedSkips
  <2>3. MergedValue(ranges \o factses, key) = MergedValue(ranges, key)
    BY <2>1, SkipsBehind, Zenon
  <2> QED BY <1>5, <1>6, <2>2, <2>3, Zenon
<1> QED BY <1>1, <1>7, <1>8

(* What a deployment merged reads as the loop left it.                      *)
LEMMA MapsMerge ==
  ASSUME NEW d, NEW r, NEW resource, NEW key
  PROVE  LET maps == Maps(d, r, resource)
             owned == OwnedMaps(d, r, resource)
         IN /\ Read(merge(maps), key) = MergedValue(maps, key)
            /\ Read(merge(owned), key) = MergedValue(owned, key)
            /\ key \in DOMAIN merge(maps) => merge(maps)[key] = MergedValue(maps, key)
<1> DEFINE core == CoreMaps(d, r)
           owned == OwnedMaps(d, r, resource)
           claims == ClaimMaps(d, r)
           context == ContextMaps(d, r)
<1>1. PICK S : core \in Seq(S) /\ owned \in Seq(S) /\ claims \in Seq(S) /\ context \in Seq(S)
  BY MapsAre DEF Collected
<1>2. Maps(d, r, resource) = Turned(d.reversed, core \o owned \o claims \o context)
  BY MapsAre
<1> HIDE DEF core, owned, claims, context
<1>3. core \o owned \in Seq(S)
  BY <1>1, ConcatIsAList, Zenon
<1>4. core \o owned \o claims \in Seq(S)
  BY <1>1, <1>3, ConcatIsAList, Zenon
<1>5. core \o owned \o claims \o context \in Seq(S)
  BY <1>1, <1>4, ConcatIsAList, Zenon
<1>6. Maps(d, r, resource) \in Seq(S)
  BY <1>2, <1>5, ReverseIs DEF Turned
<1>7. /\ Read(merge(owned), key) = MergedValue(owned, key)
      /\ Read(merge(Maps(d, r, resource)), key) = MergedValue(Maps(d, r, resource), key)
      /\ key \in DOMAIN merge(Maps(d, r, resource)) =>
           merge(Maps(d, r, resource))[key] = MergedValue(Maps(d, r, resource), key)
  BY <1>1, <1>6, MergedReads, Zenon
<1> QED BY <1>7 DEF owned

(* A package's key is what the packages' collectors make it.                *)
Alone(d, r, resource, key, reserved) ==
  key \in DOMAIN reserved /\ reserved[key] # CORE =>
    MergedValue(Maps(d, r, resource), key) = MergedValue(OwnedMaps(d, r, resource), key)

(* A body adds nothing to a key it may not name, and nothing is added to a  *)
(* package's key but by the package.                                        *)
LEMMA NothingVouched ==
  ASSUME NEW d, NEW r, NEW resource, NEW key, NEW reserved,
         DOMAIN r = {"resource", "action", "subject", "context"},
         parseAttributeMappings(d.fromContext, reserved, {}),
         parseAttributeMappings(d.fromClaims, reserved, {CORE}),
         \A k \in CORE_ATTRIBUTE_KEYS : k \in DOMAIN reserved /\ reserved[k] = CORE
  PROVE  /\ key \notin Onto(d.fromContext) \ DOMAIN reserved =>
              MergedValue(Maps(d, [r EXCEPT !.context = ABSENT], resource), key)
                = MergedValue(Maps(d, r, resource), key)
         /\ Alone(d, r, resource, key, reserved)
<1> DEFINE bare == [r EXCEPT !.context = ABSENT]
           core == CoreMaps(d, r)
           owned == OwnedMaps(d, r, resource)
           claims == ClaimMaps(d, r)
           context == ContextMaps(d, r)
<1>1. PICK S : core \in Seq(S) /\ owned \in Seq(S) /\ claims \in Seq(S) /\ context \in Seq(S)
  BY MapsAre DEF Collected
<1>2. Maps(d, r, resource) = Turned(d.reversed, core \o owned \o claims \o context)
  BY MapsAre
<1>3. Maps(d, bare, resource) = Turned(d.reversed, core \o owned \o claims)
  <2>1. bare.subject = r.subject /\ bare.action = r.action /\ bare.context = ABSENT
    OBVIOUS
  <2> HIDE DEF bare
  <2>2. /\ CoreMaps(d, bare) = core /\ OwnedMaps(d, bare, resource) = owned
        /\ ClaimMaps(d, bare) = claims /\ ContextMaps(d, bare) = <<>>
    BY <2>1 DEF CoreMaps, OwnedMaps, ClaimMaps, ContextMaps, If
  <2> HIDE DEF core, owned, claims, context
  <2>3. core \o owned \in Seq(S)
    BY <1>1, ConcatIsAList, Zenon
  <2>4. core \o owned \o claims \in Seq(S)
    BY <1>1, <2>3, ConcatIsAList, Zenon
  <2>5. core \o owned \o claims \o <<>> = core \o owned \o claims
    BY <2>4
  <2>6. Maps(d, bare, resource) = Turned(d.reversed, core \o owned \o claims \o <<>>)
    BY <2>2, MapsAre
  <2> QED BY <2>5, <2>6
<1>4. /\ key \notin CORE_ATTRIBUTE_KEYS => Leaves(core, key)
      /\ key \notin Onto(d.fromClaims) => Leaves(claims, key)
      /\ key \notin Onto(d.fromContext) => Leaves(context, key)
  BY WhoWrites
<1>5. /\ MergedValue(Turned(d.reversed, owned), key) = MergedValue(owned, key)
  BY OwnersApart
<1> HIDE DEF bare, core, owned, claims, context
<1>6. core \o owned \in Seq(S) /\ core \o owned \o claims \in Seq(S)
  <2>1. core \o owned \in Seq(S)
    BY <1>1, ConcatIsAList, Zenon
  <2> QED BY <1>1, <2>1, ConcatIsAList, Zenon
<1>7. /\ key \in Onto(d.fromContext) => key \notin DOMAIN reserved
      /\ key \in Onto(d.fromClaims) /\ key \in DOMAIN reserved => reserved[key] = CORE
  BY DEF parseAttributeMappings, Onto
<1>8. ASSUME Leaves(context, key)
      PROVE  MergedValue(Maps(d, r, resource), key) = MergedValue(Turned(d.reversed, core \o owned \o claims), key)
  <2> DEFINE others == core \o owned \o claims
  <2>1. others \in Seq(S) /\ context \in Seq(S)
    BY <1>1, <1>6
  <2>2. Maps(d, r, resource) = Turned(d.reversed, others \o context)
    BY <1>2
  <2> HIDE DEF others
  <2>3. MergedValue(Turned(d.reversed, others \o context), key) = MergedValue(Turned(d.reversed, others), key)
    BY <1>8, <2>1, TurnedSkips
  <2> QED BY <2>2, <2>3 DEF others
<1>9. ASSUME key \notin Onto(d.fromContext) \ DOMAIN reserved
      PROVE  MergedValue(Maps(d, bare, resource), key) = MergedValue(Maps(d, r, resource), key)
  <2>1. Leaves(context, key)
    BY <1>4, <1>7, <1>9
  <2> QED BY <1>3, <1>8, <2>1
<1>10. ASSUME key \in DOMAIN reserved, reserved[key] # CORE
       PROVE  MergedValue(Maps(d, r, resource), key) = MergedValue(owned, key)
  <2>1. Leaves(context, key) /\ Leaves(claims, key) /\ Leaves(core, key)
    BY <1>4, <1>7, <1>10
  <2>2. MergedValue(Turned(d.reversed, core \o owned \o claims), key)
          = MergedValue(Turned(d.reversed, core \o owned), key)
    <3> DEFINE both == core \o owned
    <3>1. both \in Seq(S) /\ claims \in Seq(S)
      BY <1>1, <1>6
    <3> HIDE DEF both
    <3>2. MergedValue(Turned(d.reversed, both \o claims), key) = MergedValue(Turned(d.reversed, both), key)
      BY <2>1, <3>1, TurnedSkips
    <3> QED BY <3>2 DEF both
  <2>3. MergedValue(Turned(d.reversed, core \o owned), key) = MergedValue(Turned(d.reversed, owned), key)
    BY <1>1, <2>1, TurnedSkips
  <2> QED BY <1>5, <1>8, <2>1, <2>2, <2>3
<1> QED BY <1>9, <1>10 DEF bare, owned, Alone

(* The engine's keys are the engine's from the start, mappings were checked *)
(* against every key reserved, and the attributes are the request's merge.  *)
Vouching ==
  /\ \A key \in CORE_ATTRIBUTE_KEYS : key \in DOMAIN reservations /\ reservations[key] = CORE
  /\ stage \in {"ready", "unparsed", "conflict", "collected"} =>
       /\ parseAttributeMappings(deployment.fromContext, reservations, {})
       /\ parseAttributeMappings(deployment.fromClaims, reservations, {CORE})
  /\ stage = "collected" =>
       /\ request \in Requests
       /\ attributes = merge(Maps(deployment, request, Resource))

(* What is collected is of a request and the one resource it names.         *)
LEMMA CollectedIs ==
  ASSUME CollectPolicy, stage' = "collected"
  PROVE  /\ request' \in Requests
         /\ attributes' = merge(Maps(deployment, request', Resource'))
         /\ collected' = RulesFor(deployment, request', Resource')
<1>1. PICK r \in Requests : \E resource \in parseResource(r.resource) :
              /\ request' = r /\ attributes' = merge(Maps(deployment, r, resource))
              /\ collected' = RulesFor(deployment, r, resource)
  BY DEF CollectPolicy
<1>2. PICK resource \in parseResource(r.resource) :
              /\ request' = r /\ attributes' = merge(Maps(deployment, r, resource))
              /\ collected' = RulesFor(deployment, r, resource)
  BY <1>1
<1>3. \A x, y \in parseResource(r.resource) : x = y
  BY DEF parseResource
<1>4. Resource' = CHOOSE x \in parseResource(r.resource) : TRUE
  BY <1>2 DEF Resource
<1>5. Resource' \in parseResource(r.resource)
  BY <1>2, <1>4
<1> QED BY <1>2, <1>3, <1>5

(* No step disturbs this: a package that reserves keys leaves those already *)
(* reserved to their owner, and the mappings are checked when the collectors *)
(* are constructed, against all that is reserved by then.                   *)
LEMMA VouchingKept ==
  ASSUME Vouching, [PolicyNext]_policyVars
  PROVE  Vouching'
<1>1. CASE LoadPackage
  <2>1. stage = "loading" /\ stage' \in {"loading", "refused"}
    BY <1>1 DEF LoadPackage
  <2>2. CASE UNCHANGED reservations
    BY <2>1, <2>2 DEF Vouching
  <2>3. CASE \E p : reservations' = Reserved(reservations, p.owner, p.keys)
    BY <2>1, <2>3 DEF Vouching, Reserved
  <2> QED BY <1>1, <2>2, <2>3 DEF LoadPackage
<1>2. CASE Construct
  BY <1>2 DEF Construct, Vouching
<1>3. CASE CollectPolicy
  <2>1. /\ stage = "ready" /\ stage' \in {"unparsed", "conflict", "collected"}
        /\ UNCHANGED <<deployment, reservations>>
    BY <1>3 DEF CollectPolicy
  <2>2. ASSUME stage' = "collected"
        PROVE  request' \in Requests /\ attributes' = merge(Maps(deployment, request', Resource'))
    BY <1>3, <2>2, CollectedIs
  <2> QED BY <2>1, <2>2 DEF Vouching
<1>4. CASE BeginBuiltin \/ AskBuiltin \/ GivenPhase \/ UNCHANGED policyVars
  <2>1. UNCHANGED policy
    BY <1>4 DEF BeginBuiltin, AskBuiltin, GivenPhase, policyVars
  <2> QED BY <2>1 DEF Vouching, policy, Resource
<1> QED BY <1>1, <1>2, <1>3, <1>4 DEF PolicyNext

(* A caller's body vouches for nothing: what it writes reaches a decision   *)
(* under the keys declared for it alone, and a loaded package's key holds   *)
(* what the package wrote, in whatever order the packages loaded and the    *)
(* collectors run (reserveAttributeKeys, parseAttributeMappings, merge).    *)
THEOREM CallerCannotVouchHolds == PolicySpec => []CallerCannotVouch
<1>1. PolicyInit => Vouching
  BY DEF PolicyInit, Vouching, Reserved
<1>2. Vouching /\ [PolicyNext]_policyVars => Vouching'
  BY VouchingKept
<1>3. Vouching => CallerCannotVouch
  <2> SUFFICES ASSUME Vouching, stage = "collected" PROVE CallerCannotVouch
    BY DEF CallerCannotVouch
  <2> DEFINE bare == [request EXCEPT !.context = ABSENT]
             declared == {Destination(deployment.fromContext[i]) : i \in DOMAIN deployment.fromContext}
             maps == Maps(deployment, request, Resource)
             silent == Maps(deployment, bare, Resource)
             owned == OwnedMaps(deployment, request, Resource)
  <2>1. attributes = merge(maps) /\ DOMAIN request = {"resource", "action", "subject", "context"}
    BY RequestsAssumption DEF Vouching
  <2>2. ASSUME NEW key
        PROVE  /\ key \notin declared \ DOMAIN reservations => MergedValue(silent, key) = MergedValue(maps, key)
               /\ key \in DOMAIN reservations /\ reservations[key] # CORE =>
                    MergedValue(maps, key) = MergedValue(owned, key)
    BY <2>1, NothingVouched DEF Vouching, Onto, Alone
  <2>3. ASSUME NEW key
        PROVE  /\ Read(merge(silent), key) = MergedValue(silent, key)
               /\ Read(merge(owned), key) = MergedValue(owned, key)
               /\ key \in DOMAIN merge(maps) => merge(maps)[key] = MergedValue(maps, key)
    BY MapsMerge
  <2> HIDE DEF maps, silent, owned, declared
  <2>4. \A key \in DOMAIN attributes \ (declared \ DOMAIN reservations) :
          Read(merge(silent), key) = attributes[key]
    BY <2>1, <2>2, <2>3
  <2>5. \A key \in DOMAIN attributes \cap DOMAIN reservations :
          reservations[key] # CORE => Read(merge(owned), key) = attributes[key]
    BY <2>1, <2>2, <2>3
  <2> QED BY <2>4, <2>5 DEF CallerCannotVouch, maps, silent, owned, declared
<1> QED BY <1>1, <1>2, <1>3, PTL DEF PolicySpec

-----------------------------------------------------------------------------
(* Names and types.  Two lists in a row, place by place.                    *)
Joins(m, s, t) ==
  /\ m = s \o t /\ Len(s) \in Nat /\ Len(t) \in Nat /\ Len(m) = Len(s) + Len(t)
  /\ \A i \in 1..Len(s) : m[i] = s[i]
  /\ \A i \in 1..Len(t) : m[Len(s) + i] = t[i]

(* Texts in a row are a text.                                               *)
LEMMA ConcatIs ==
  ASSUME NEW S, NEW s \in Seq(S), NEW t \in Seq(S)
  PROVE  \E m \in Seq(S) : Joins(m, s, t)
<1>1. /\ s \o t \in Seq(S) /\ Len(s) \in Nat /\ Len(t) \in Nat /\ Len(s \o t) = Len(s) + Len(t)
      /\ \A i \in 1..Len(s) : (s \o t)[i] = s[i]
      /\ \A i \in 1..Len(t) : (s \o t)[Len(s) + i] = t[i]
  OBVIOUS
<1> QED BY <1>1, Zenon DEF Joins

(* As is one atom.                                                          *)
LEMMA OneAtom ==
  ASSUME NEW S, NEW x \in S
  PROVE  \E h \in Seq(S) : h = <<x>> /\ Len(h) = 1 /\ h[1] = x
<1>1. <<x>> \in Seq(S) /\ Len(<<x>>) = 1 /\ <<x>>[1] = x
  OBVIOUS
<1> QED BY <1>1, Zenon

(* And two.                                                                 *)
LEMMA TwoAtoms ==
  ASSUME NEW S, NEW x \in S, NEW y \in S
  PROVE  \E h \in Seq(S) : h = <<x, y>> /\ Len(h) = 2 /\ h[1] = x /\ h[2] = y
<1>1. <<x, y>> \in Seq(S) /\ Len(<<x, y>>) = 2 /\ <<x, y>>[1] = x /\ <<x, y>>[2] = y
  OBVIOUS
<1> QED BY <1>1, Zenon

(* Texts alike in every place are one text.                                 *)
LEMMA SameText ==
  ASSUME NEW S, NEW s \in Seq(S), NEW t \in Seq(S),
         Len(s) = Len(t), \A i \in 1..Len(s) : s[i] = t[i]
  PROVE  s = t
<1>1. s = [i \in 1..Len(s) |-> s[i]] /\ t = [i \in 1..Len(t) |-> t[i]]
  OBVIOUS
<1> QED BY <1>1

(* A name between colons, and an atom before one.                           *)
Named(x, name, t) == <<x, ":">> \o name \o <<":">> \o t
Then(x, t) == <<x, ":">> \o t

(* Two names that hold no colon and what follows them are told apart in a   *)
(* rule's type.                                                             *)
LEMMA NamesTold ==
  ASSUME NEW S, ":" \in S, NEW x \in S, NEW y \in S, NEW a \in Seq(S), NEW b \in Seq(S),
         NEW t \in Seq(S), NEW u \in Seq(S),
         ":" \notin ToSet(a), ":" \notin ToSet(b),
         Named(x, a, t) = Named(y, b, u)
  PROVE  x = y /\ a = b /\ t = u
<1> DEFINE Spelt(m, z, c, v) ==
             /\ Len(m) = 3 + Len(c) + Len(v) /\ m[1] = z /\ m[3 + Len(c)] = ":"
             /\ \A i \in 1..Len(c) : m[2 + i] = c[i]
             /\ \A i \in 1..Len(v) : m[3 + Len(c) + i] = v[i]
<1>1. ASSUME NEW z \in S, NEW c \in Seq(S), NEW v \in Seq(S)
      PROVE  Spelt(Named(z, c, v), z, c, v)
  <2>1. PICK h \in Seq(S) : h = <<z, ":">> /\ Len(h) = 2 /\ h[1] = z /\ h[2] = ":"
    BY TwoAtoms
  <2>2. PICK colon \in Seq(S) : colon = <<":">> /\ Len(colon) = 1 /\ colon[1] = ":"
    BY OneAtom, Zenon
  <2>3. PICK p \in Seq(S) : Joins(p, h, c)
    BY ConcatIs
  <2>4. PICK q \in Seq(S) : Joins(q, p, colon)
    BY ConcatIs
  <2>5. PICK m \in Seq(S) : Joins(m, q, v)
    BY ConcatIs
  <2>6. Len(c) \in Nat /\ Len(v) \in Nat /\ Len(p) = 2 + Len(c) /\ Len(q) = 3 + Len(c)
        /\ Len(m) = 3 + Len(c) + Len(v)
    BY <2>1, <2>2, <2>3, <2>4, <2>5 DEF Joins
  <2>7. m[1] = z
    <3>1. p[1] = h[1]
      BY <2>1, <2>3 DEF Joins
    <3>2. q[1] = p[1]
      BY <2>4, <2>6 DEF Joins
    <3>3. m[1] = q[1]
      BY <2>5, <2>6 DEF Joins
    <3> QED BY <2>1, <3>1, <3>2, <3>3
  <2>8. m[3 + Len(c)] = ":"
    <3>1. q[Len(p) + 1] = colon[1]
      BY <2>2, <2>4 DEF Joins
    <3>2. Len(p) + 1 = 3 + Len(c) /\ 3 + Len(c) \in 1..Len(q)
      BY <2>6
    <3>3. m[3 + Len(c)] = q[3 + Len(c)]
      BY <2>5, <3>2 DEF Joins
    <3> QED BY <2>2, <3>1, <3>2, <3>3
  <2>9. ASSUME NEW i \in 1..Len(c) PROVE m[2 + i] = c[i]
    <3>1. 2 + i \in 1..Len(p) /\ 2 + i \in 1..Len(q)
      BY <2>6
    <3>2. p[2 + i] = c[i]
      BY <2>1, <2>3 DEF Joins
    <3>3. q[2 + i] = p[2 + i]
      BY <2>4, <3>1 DEF Joins
    <3>4. m[2 + i] = q[2 + i]
      BY <2>5, <3>1 DEF Joins
    <3> QED BY <3>2, <3>3, <3>4
  <2>10. \A i \in 1..Len(v) : m[3 + Len(c) + i] = v[i]
    BY <2>5, <2>6 DEF Joins
  <2>11. m = Named(z, c, v)
    BY <2>1, <2>2, <2>3, <2>4, <2>5 DEF Joins, Named
  <2> QED BY <2>6, <2>7, <2>8, <2>9, <2>10, <2>11
<1>2. PICK m : Spelt(m, x, a, t) /\ Spelt(m, y, b, u)
  <2> HIDE DEF Spelt
  <2>1. Spelt(Named(x, a, t), x, a, t) /\ Spelt(Named(y, b, u), y, b, u)
    BY <1>1, Zenon
  <2> QED BY <2>1, Zenon
<1>3. Len(a) \in Nat /\ Len(b) \in Nat /\ Len(t) \in Nat /\ Len(u) \in Nat
  OBVIOUS
<1>4. /\ \A i \in 1..Len(a) : a[i] # ":"
      /\ \A i \in 1..Len(b) : b[i] # ":"
  BY DEF ToSet
<1>5. Len(a) = Len(b)
  <2>1. ~(Len(a) < Len(b))
    <3> SUFFICES ASSUME Len(a) < Len(b) PROVE FALSE
      OBVIOUS
    <3>1. Len(a) + 1 \in 1..Len(b) /\ 2 + (Len(a) + 1) = 3 + Len(a)
      BY <1>3
    <3>2. m[3 + Len(a)] = ":" /\ m[2 + (Len(a) + 1)] = b[Len(a) + 1]
      BY <1>2, <3>1
    <3> QED BY <1>4, <3>1, <3>2
  <2>2. ~(Len(b) < Len(a))
    <3> SUFFICES ASSUME Len(b) < Len(a) PROVE FALSE
      OBVIOUS
    <3>1. Len(b) + 1 \in 1..Len(a) /\ 2 + (Len(b) + 1) = 3 + Len(b)
      BY <1>3
    <3>2. m[3 + Len(b)] = ":" /\ m[2 + (Len(b) + 1)] = a[Len(b) + 1]
      BY <1>2, <3>1
    <3> QED BY <1>4, <3>1, <3>2
  <2> QED BY <1>3, <2>1, <2>2
<1>6. Len(t) = Len(u)
  BY <1>2, <1>3, <1>5
<1>7. \A i \in 1..Len(a) : a[i] = b[i]
  BY <1>2, <1>5
<1>8. \A i \in 1..Len(t) : t[i] = u[i]
  BY <1>2, <1>5, <1>6
<1>9. a = b
  BY <1>5, <1>7, SameText
<1>10. t = u
  BY <1>6, <1>8, SameText
<1> QED BY <1>2, <1>9, <1>10

(* So is one atom and what follows it.                                      *)
LEMMA AtomsTold ==
  ASSUME NEW S, ":" \in S, NEW x \in S, NEW y \in S, NEW t \in Seq(S), NEW u \in Seq(S),
         Then(x, t) = Then(y, u)
  PROVE  x = y /\ t = u
<1> DEFINE Spelt(m, z, v) == Len(m) = 2 + Len(v) /\ m[1] = z /\ \A i \in 1..Len(v) : m[2 + i] = v[i]
<1>1. ASSUME NEW z \in S, NEW v \in Seq(S) PROVE Spelt(Then(z, v), z, v)
  <2>1. PICK h \in Seq(S) : h = <<z, ":">> /\ Len(h) = 2 /\ h[1] = z /\ h[2] = ":"
    BY TwoAtoms
  <2>2. PICK m \in Seq(S) : Joins(m, h, v)
    BY ConcatIs
  <2>3. Spelt(m, z, v)
    BY <2>1, <2>2 DEF Joins
  <2>4. m = Then(z, v)
    BY <2>1, <2>2 DEF Joins, Then
  <2> QED BY <2>3, <2>4
<1>2. PICK m : Spelt(m, x, t) /\ Spelt(m, y, u)
  <2>1. Spelt(Then(x, t), x, t) /\ Spelt(Then(y, u), y, u)
    BY <1>1
  <2> HIDE DEF Spelt
  <2> QED BY <2>1, Zenon
<1>3. Len(t) \in Nat /\ Len(u) \in Nat
  OBVIOUS
<1>4. Len(t) = Len(u)
  BY <1>2, <1>3
<1>5. \A i \in 1..Len(t) : t[i] = u[i]
  BY <1>2, <1>4
<1>6. t = u
  BY <1>4, <1>5, SameText
<1> QED BY <1>2, <1>6

(* Texts are built of atoms, which separators and the rules' own words are  *)
(* of too.                                                                  *)
Atoms ==
  STRING \cup {".", ":"} \cup PairRules \cup LiteralRules \cup {"string", "number", "boolean"}

(* A text is a list of atoms.                                               *)
LEMMA TextsAre ==
  ASSUME NEW s \in Seq(STRING)
  PROVE  s \in Seq(Atoms)
<1>1. Len(s) \in Nat /\ s \in [1..Len(s) -> STRING]
  OBVIOUS
<1>2. s \in [1..Len(s) -> Atoms]
  BY <1>1 DEF Atoms
<1> HIDE DEF Atoms
<1> QED BY <1>1, <1>2

(* What AttrRulesAssumption says of a rule.                                 *)
Configured(r) ==
  /\ r.rule \in PairRules \cup LiteralRules /\ r.op \in STRING
  /\ \A name \in {r.a, r.b} : name = ABSENT \/ name \in Seq(STRING)
  /\ \A v \in r.values : /\ v = [kind |-> v.kind, text |-> v.text, items |-> v.items]
                         /\ v.text \in Seq(STRING)
                         /\ v.kind \in {"string", "number", "boolean"} => v.items = <<>>
  /\ r.rule \notin SetRules => \A v, w \in r.values : v = w

Value(r) == CHOOSE v \in r.values : TRUE

(* What a derived type says after the attribute's name.                     *)
OfKind(r) == IF r.rule \in CompareRules THEN r.op ELSE Value(r).kind
Operand(r) ==
  IF r.rule \in PairRules THEN r.b
  ELSE IF r.rule \in SetRules THEN computeValuesKey(r.values) ELSE Value(r).text
Says(r) ==
  IF r.rule \in PairRules \ CompareRules THEN Operand(r) ELSE Then(OfKind(r), Operand(r))

(* A rule that was constructed has a value where it needs one, of its       *)
(* values' one kind.                                                        *)
LEMMA LiteralsAre ==
  ASSUME NEW r, Configured(r), Constructs(r), r.rule \in LiteralRules
  PROVE  /\ Value(r) \in r.values /\ r.values # {}
         /\ \A v \in r.values : /\ v = [kind |-> Value(r).kind, text |-> v.text, items |-> <<>>]
                                /\ v.kind \in {"string", "number", "boolean"} /\ v.kind = Value(r).kind
         /\ r.rule \notin SetRules => r.values = {Value(r)}
         /\ r.rule = "attr_literal_compare" => Value(r).kind = "number"
<1>1. r.rule \notin PairRules
  BY DEF PairRules, LiteralRules, SetRules
<1>2. /\ r.values # {} /\ \A v \in r.values : v.kind \in {"string", "number", "boolean"}
      /\ \A v, w \in r.values : v.kind = w.kind
  BY <1>1 DEF Constructs, requireHomogeneousLiteralArray, requireLiteralValue
<1>3. Value(r) \in r.values
  BY <1>2 DEF Value
<1>4. \A v \in r.values : v = [kind |-> Value(r).kind, text |-> v.text, items |-> <<>>]
  BY <1>2, <1>3 DEF Configured
<1>5. r.rule \notin SetRules => r.values = {Value(r)}
  BY <1>3 DEF Configured
<1>6. r.rule = "attr_literal_compare" => Value(r).kind = "number"
  BY <1>3 DEF Constructs
<1> QED BY <1>2, <1>3, <1>4, <1>5, <1>6

(* What the hash is taken to be of, and that it tells literal sets apart.   *)
Hashed(r, s) ==
  r.rule \in SetRules /\ s.rule \in SetRules =>
    /\ computeValuesKey(r.values) \in Seq(STRING) /\ computeValuesKey(s.values) \in Seq(STRING)
    /\ computeValuesKey(r.values) = computeValuesKey(s.values) =>
         {v.text : v \in r.values} = {v.text : v \in s.values}

(* Three texts in a row are the first before the other two.                 *)
LEMMA InARow ==
  ASSUME NEW S, NEW s \in Seq(S), NEW t \in Seq(S), NEW u \in Seq(S)
  PROVE  s \o t \o u = s \o (t \o u)
<1>1. PICK st \in Seq(S) : Joins(st, s, t)
  BY ConcatIs
<1>2. PICK tu \in Seq(S) : Joins(tu, t, u)
  BY ConcatIs
<1>3. PICK l \in Seq(S) : Joins(l, st, u)
  BY ConcatIs
<1>4. PICK r \in Seq(S) : Joins(r, s, tu)
  BY ConcatIs
<1>5. Len(l) = Len(r)
  BY <1>1, <1>2, <1>3, <1>4 DEF Joins
<1>6. ASSUME NEW i \in 1..Len(l) PROVE l[i] = r[i]
  <2>1. CASE i \in 1..Len(s)
    BY <1>1, <1>3, <1>4, <2>1 DEF Joins
  <2>2. CASE i \notin 1..Len(s) /\ i - Len(s) \in 1..Len(t)
    <3>1. i = Len(s) + (i - Len(s)) /\ i \in 1..Len(st) /\ i - Len(s) \in 1..Len(tu)
      BY <1>1, <1>2, <1>3, <2>2 DEF Joins
    <3> QED BY <1>1, <1>2, <1>3, <1>4, <2>2, <3>1 DEF Joins
  <2>3. CASE i \notin 1..Len(s) /\ i - Len(s) \notin 1..Len(t)
    <3> DEFINE k == i - Len(s) - Len(t)
    <3>1. /\ k \in 1..Len(u) /\ i = Len(st) + k /\ i = Len(s) + (Len(t) + k)
          /\ Len(t) + k \in 1..Len(tu)
      BY <1>1, <1>2, <1>3, <2>3 DEF Joins
    <3> HIDE DEF k
    <3>2. l[i] = u[k]
      BY <1>3, <3>1 DEF Joins
    <3>3. r[i] = tu[Len(t) + k]
      BY <1>4, <3>1 DEF Joins
    <3> QED BY <1>2, <3>1, <3>2, <3>3 DEF Joins
  <2> QED BY <2>1, <2>2, <2>3
<1>7. l = r
  BY <1>5, <1>6, SameText
<1> QED BY <1>1, <1>2, <1>3, <1>4, <1>7 DEF Joins

(* A type is a rule's, its attribute's name's and what it says of it.       *)
LEMMA TypesAre ==
  ASSUME NEW r, Configured(r), Constructs(r),
         r.rule \in SetRules => computeValuesKey(r.values) \in Seq(STRING)
  PROVE  /\ DerivedType(r) = Named(r.rule, r.a, Says(r))
         /\ r.rule \in Atoms /\ r.a \in Seq(Atoms) /\ ":" \notin ToSet(r.a)
         /\ OfKind(r) \in Atoms \/ r.rule \in PairRules \ CompareRules
         /\ Operand(r) \in Seq(Atoms) /\ Says(r) \in Seq(Atoms)
         /\ r.rule \in PairRules => r.a # ABSENT /\ r.b # ABSENT
<1>1. r.rule \in Atoms /\ ":" \in Atoms
  BY DEF Atoms, Configured
<1>2. r.a # ABSENT /\ ":" \notin ToSet(r.a) /\ r.a \in Seq(STRING)
  BY DEF Constructs, requireAttrName, Configured
<1>3. r.rule \in PairRules => r.b # ABSENT /\ r.b \in Seq(STRING)
  BY DEF Constructs, requireAttrName, Configured
<1>4. r.rule \notin PairRules => r.rule \in LiteralRules
  BY DEF Configured
<1>5. r.rule \notin PairRules =>
        Value(r).text \in Seq(STRING) /\ Value(r).kind \in {"string", "number", "boolean"}
  BY <1>4, LiteralsAre DEF Configured
<1>6. Operand(r) \in Seq(STRING)
  BY <1>3, <1>5 DEF Operand
<1>7. Operand(r) \in Seq(Atoms) /\ r.a \in Seq(Atoms)
  BY <1>2, <1>6, TextsAre
<1>8. OfKind(r) \in Atoms \/ r.rule \in PairRules \ CompareRules
  <2>1. r.rule \in CompareRules => OfKind(r) \in STRING
    BY DEF OfKind, Configured
  <2>2. r.rule \notin CompareRules /\ r.rule \notin PairRules => OfKind(r) \in {"string", "number", "boolean"}
    BY <1>5 DEF OfKind
  <2> QED BY <2>1, <2>2 DEF Atoms
<1>9. Says(r) \in Seq(Atoms)
  <2>1. CASE r.rule \in PairRules \ CompareRules
    BY <1>7, <2>1 DEF Says, Then
  <2>2. CASE r.rule \notin PairRules \ CompareRules
    <3>1. <<OfKind(r), ":">> \in Seq(Atoms)
      BY <1>1, <1>8, <2>2, TwoAtoms
    <3>2. <<OfKind(r), ":">> \o Operand(r) \in Seq(Atoms)
      BY <1>7, <3>1, ConcatIsAList
    <3> QED BY <2>2, <3>2 DEF Says, Then
  <2> QED BY <2>1, <2>2
<1> DEFINE name == <<r.rule, ":">> \o r.a \o <<":">>
<1>10. name \in Seq(Atoms)
  <2>1. <<r.rule, ":">> \in Seq(Atoms) /\ <<":">> \in Seq(Atoms)
    BY <1>1, TwoAtoms, OneAtom
  <2>2. <<r.rule, ":">> \o r.a \in Seq(Atoms)
    BY <1>7, <2>1, ConcatIsAList
  <2> QED BY <2>1, <2>2, ConcatIsAList
<1>11. DerivedType(r) = name \o Says(r)
  <2>1. CASE r.rule \in PairRules \ CompareRules
    <3>1. name \o <<>> = name
      <4> HIDE DEF name
      <4> QED BY <1>10
    <3>2. DerivedType(r) = name \o <<>> \o r.b
      BY <2>1 DEF DerivedType
    <3> QED BY <2>1, <3>1, <3>2 DEF Says, Then, Operand
  <2>2. CASE r.rule \in CompareRules
    <3> DEFINE value == CHOOSE v \in r.values : TRUE
    <3>1. DerivedType(r) = name \o <<r.op, ":">> \o (IF r.rule \in PairRules THEN r.b ELSE <<>> \o value.text)
      <4>1. r.rule \in PairRules \/ r.rule = "attr_literal_compare"
        BY <2>2 DEF CompareRules, PairRules
      <4>2. "attr_literal_compare" \notin SetRules
        BY DEF SetRules
      <4> HIDE DEF value
      <4>3. (IF r.rule \in PairRules THEN r.b
             ELSE (IF r.rule = "attr_literal_compare" THEN <<>> ELSE <<value.kind, ":">>)
                    \o (IF r.rule \in SetRules THEN computeValuesKey(r.values) ELSE value.text))
              = IF r.rule \in PairRules THEN r.b ELSE <<>> \o value.text
        BY <4>1, <4>2
      <4>4. DerivedType(r) = name \o <<r.op, ":">> \o
              (IF r.rule \in PairRules THEN r.b
               ELSE (IF r.rule = "attr_literal_compare" THEN <<>> ELSE <<value.kind, ":">>)
                      \o (IF r.rule \in SetRules THEN computeValuesKey(r.values) ELSE value.text))
        BY <2>2, Zenon DEF DerivedType, value
      <4> QED BY <4>3, <4>4, Zenon
    <3>2. (IF r.rule \in PairRules THEN r.b ELSE <<>> \o value.text) = Operand(r)
      <4>1. r.rule \notin PairRules => r.rule \notin SetRules /\ <<>> \o Value(r).text = Value(r).text
        BY <1>5, <2>2 DEF CompareRules, SetRules
      <4>2. value = Value(r)
        BY DEF Value
      <4> QED BY <4>1, <4>2 DEF Operand
    <3>3. <<r.op, ":">> \in Seq(Atoms)
      <4>1. r.op \in Atoms
        BY <1>8, <2>2 DEF OfKind
      <4> QED BY <1>1, <4>1, TwoAtoms
    <3>4. name \o <<r.op, ":">> \o Operand(r) = name \o (<<r.op, ":">> \o Operand(r))
      <4> DEFINE op == <<r.op, ":">>
                 named == Operand(r)
      <4>1. op \in Seq(Atoms) /\ named \in Seq(Atoms)
        BY <1>7, <3>3
      <4> HIDE DEF name, op, named
      <4>2. name \o op \o named = name \o (op \o named)
        BY <1>10, <4>1, InARow
      <4> QED BY <4>2 DEF op, named
    <3>5. Says(r) = <<r.op, ":">> \o Operand(r)
      BY <2>2 DEF Says, Then, OfKind
    <3> QED BY <3>1, <3>2, <3>4, <3>5
  <2>3. CASE r.rule \notin PairRules \cup CompareRules
    <3>1. name \o <<>> = name
      <4> HIDE DEF name
      <4> QED BY <1>10
    <3>2. DerivedType(r) = name \o <<>> \o (<<Value(r).kind, ":">> \o Operand(r))
      <4> DEFINE value == CHOOSE v \in r.values : TRUE
                 literal == IF r.rule \in SetRules THEN computeValuesKey(r.values) ELSE value.text
                 op == IF r.rule \in CompareRules THEN <<r.op, ":">> ELSE <<>>
                 says == IF r.rule \in PairRules THEN r.b
                         ELSE (IF r.rule = "attr_literal_compare" THEN <<>> ELSE <<value.kind, ":">>)
                                \o literal
      <4>1. DerivedType(r) = name \o op \o says
        BY Zenon DEF DerivedType
      <4>2. op = <<>>
        BY <2>3
      <4>3. literal = Operand(r) /\ value = Value(r)
        BY <2>3 DEF Operand, Value
      <4>4. r.rule # "attr_literal_compare"
        BY <2>3 DEF CompareRules
      <4>5. says = <<Value(r).kind, ":">> \o Operand(r)
        <5> HIDE DEF value, literal
        <5> QED BY <2>3, <4>3, <4>4
      <4> HIDE DEF says, op
      <4> QED BY <4>1, <4>2, <4>5
    <3> QED BY <2>3, <3>1, <3>2 DEF Says, Then, OfKind
  <2> QED BY <2>1, <2>2, <2>3
<1> QED BY <1>1, <1>2, <1>3, <1>7, <1>8, <1>9, <1>11 DEF name, Named

(* Rules of one type ask one thing: the type tells the rule, the names, the *)
(* operator and the literals apart.                                         *)
LEMMA TypesTell ==
  ASSUME NEW r, NEW s, Configured(r), Configured(s), Constructs(r), Constructs(s), Hashed(r, s),
         r.rule \in SetRules => computeValuesKey(r.values) \in Seq(STRING),
         s.rule \in SetRules => computeValuesKey(s.values) \in Seq(STRING),
         DerivedType(r) = DerivedType(s), NEW attrs
  PROVE  AttrHolds(r, attrs) <=> AttrHolds(s, attrs)
<1> DEFINE Typed(x, kind, operand) ==
             /\ DerivedType(x) = Named(x.rule, x.a, Says(x))
             /\ x.rule \in Atoms /\ x.a \in Seq(Atoms) /\ ":" \notin ToSet(x.a)
             /\ kind \in Atoms \/ x.rule \in PairRules \ CompareRules
             /\ operand \in Seq(Atoms) /\ Says(x) \in Seq(Atoms)
<1>0. ":" \in Atoms
  BY DEF Atoms
<1>1. Typed(r, OfKind(r), Operand(r)) /\ Typed(s, OfKind(s), Operand(s))
  BY TypesAre
<1>2. r.rule = s.rule /\ r.a = s.a /\ Says(r) = Says(s)
  <2>1. Named(r.rule, r.a, Says(r)) = Named(s.rule, s.a, Says(s))
    BY <1>1
  <2>2. /\ r.rule \in Atoms /\ s.rule \in Atoms /\ r.a \in Seq(Atoms) /\ s.a \in Seq(Atoms)
        /\ Says(r) \in Seq(Atoms) /\ Says(s) \in Seq(Atoms)
        /\ ":" \notin ToSet(r.a) /\ ":" \notin ToSet(s.a)
    BY <1>1
  <2> QED BY <1>0, <2>1, <2>2, NamesTold
<1>3. Operand(r) = Operand(s) /\ (r.rule \notin PairRules \ CompareRules => OfKind(r) = OfKind(s))
  <2>1. CASE r.rule \in PairRules \ CompareRules
    BY <1>2, <2>1 DEF Says
  <2>2. CASE r.rule \notin PairRules \ CompareRules
    <3>1. Then(OfKind(r), Operand(r)) = Then(OfKind(s), Operand(s))
      BY <1>2, <2>2 DEF Says
    <3>2. /\ OfKind(r) \in Atoms /\ OfKind(s) \in Atoms
          /\ Operand(r) \in Seq(Atoms) /\ Operand(s) \in Seq(Atoms)
      BY <1>1, <1>2, <2>2
    <3> QED BY <1>0, <3>1, <3>2, AtomsTold
  <2> QED BY <2>1, <2>2
<1>4. r.rule \notin PairRules \ CompareRules => OfKind(r) = OfKind(s)
  BY <1>3
<1>5. CASE r.rule \in PairRules
  <2>1. r.b = s.b
    BY <1>2, <1>3, <1>5 DEF Operand
  <2>2. r.rule \in {"attr_pair_equal", "attr_match", "attr_pair_not_equal", "attr_pair_compare"}
    BY <1>5 DEF PairRules
  <2>3. r.rule = "attr_pair_compare" => r.op = s.op
    BY <1>2, <1>4, <1>5 DEF OfKind, CompareRules
  <2> QED BY <1>2, <2>1, <2>2, <2>3 DEF AttrHolds, AttrPairCompare
<1>6. CASE r.rule \notin PairRules
  <2>1. r.rule \in LiteralRules /\ s.rule \in LiteralRules
    BY <1>2, <1>6 DEF Configured
  <2>2. r.rule = "attr_literal_compare" => r.op = s.op
    BY <1>2, <1>4, <1>6 DEF OfKind, CompareRules, PairRules
  <2>3. Value(r).kind = Value(s).kind
    <3>1. CASE r.rule = "attr_literal_compare"
      BY <1>2, <2>1, <3>1, LiteralsAre
    <3>2. CASE r.rule # "attr_literal_compare"
      <4>1. r.rule \notin CompareRules
        BY <1>6, <3>2 DEF CompareRules, PairRules
      <4> QED BY <1>2, <1>4, <1>6, <4>1 DEF OfKind
    <3> QED BY <3>1, <3>2
  <2>4. r.values = s.values
    <3>1. CASE r.rule \in SetRules
      <4>1. {v.text : v \in r.values} = {v.text : v \in s.values}
        BY <1>2, <1>3, <1>6, <3>1 DEF Operand, Hashed
      <4>2. /\ \A v \in r.values : v = [kind |-> Value(r).kind, text |-> v.text, items |-> <<>>]
            /\ \A v \in s.values : v = [kind |-> Value(r).kind, text |-> v.text, items |-> <<>>]
        BY <2>1, <2>3, LiteralsAre
      <4>3. ASSUME NEW v \in r.values PROVE v \in s.values
        <5>1. PICK w \in s.values : w.text = v.text
          BY <4>1
        <5> QED BY <4>2, <5>1
      <4>4. ASSUME NEW v \in s.values PROVE v \in r.values
        <5>1. PICK w \in r.values : w.text = v.text
          BY <4>1
        <5> QED BY <4>2, <5>1
      <4> QED BY <4>3, <4>4
    <3>2. CASE r.rule \notin SetRules
      <4>1. r.values = {Value(r)} /\ s.values = {Value(s)}
        BY <1>2, <2>1, <3>2, LiteralsAre
      <4>2. Value(r).text = Value(s).text
        BY <1>2, <1>3, <1>6, <3>2 DEF Operand
      <4>3. /\ Value(r) = [kind |-> Value(r).kind, text |-> Value(r).text, items |-> <<>>]
            /\ Value(s) = [kind |-> Value(s).kind, text |-> Value(s).text, items |-> <<>>]
        <5>1. Value(r) \in r.values /\ Value(s) \in s.values
          BY <4>1
        <5> QED BY <2>1, <5>1, LiteralsAre
      <4> QED BY <2>3, <4>1, <4>2, <4>3
    <3> QED BY <3>1, <3>2
  <2>5. r.rule \in {"attr_literal_equal", "attr_literal_not_equal", "attr_literal_compare",
                    "attr_literal_in", "attr_literal_not_in"}
    BY <2>1 DEF LiteralRules, SetRules
  <2> QED BY <1>2, <2>2, <2>4, <2>5 DEF AttrHolds, AttrLiteralEqual, AttrLiteralNotEqual, AttrLiteralIn,
             AttrLiteralNotIn, AttrLiteralCompare, OfTheirKind
<1> QED BY <1>5, <1>6

-----------------------------------------------------------------------------
(* The rules collected, as a set: a decision does not depend on their order. *)
ScopeRules(d, r, resource) ==
  IF d.scoped = ABSENT THEN {}
  ELSE ToSet(ResourceActionScopeRuleCollector(r.subject, resource, r.action, d.scoped))
PermissionRules(d, r) ==
  IF d.permissionRule THEN ToSet(ResourceActionPermissionRuleCollector(r.resource, r.action)) ELSE {}
RangeRules(d, r) ==
  IF d.ruleRange = ABSENT THEN {}
  ELSE ToSet(DelegationRangeRuleCollector(r.subject, r.resource, r.action, d.ruleRange))
AttrRules(d) == {AttrRule(d.attrRules[i]) : i \in DOMAIN d.attrRules}

RuleSet(d, r, resource) ==
  ScopeRules(d, r, resource) \cup PermissionRules(d, r) \cup RangeRules(d, r) \cup AttrRules(d)

(* The elements of lists in a row are those of each.                        *)
LEMMA ElementsInARow ==
  ASSUME NEW S, NEW s \in Seq(S), NEW t \in Seq(S)
  PROVE  ToSet(s \o t) = ToSet(s) \cup ToSet(t)
<1>1. PICK m \in Seq(S) : Joins(m, s, t)
  BY ConcatIs
<1>2. DOMAIN m = 1..Len(m) /\ DOMAIN s = 1..Len(s) /\ DOMAIN t = 1..Len(t)
  OBVIOUS
<1>3. ASSUME NEW i \in DOMAIN m PROVE m[i] \in ToSet(s) \cup ToSet(t)
  <2>1. CASE i \in 1..Len(s)
    BY <1>1, <1>2, <2>1 DEF Joins, ToSet
  <2>2. CASE i \notin 1..Len(s)
    <3>1. i - Len(s) \in 1..Len(t) /\ i = Len(s) + (i - Len(s))
      BY <1>1, <1>2, <2>2 DEF Joins
    <3>2. m[i] = t[i - Len(s)]
      BY <1>1, <3>1 DEF Joins
    <3> QED BY <1>2, <3>1, <3>2 DEF ToSet
  <2> QED BY <2>1, <2>2
<1>4. ASSUME NEW i \in DOMAIN s PROVE s[i] \in ToSet(m)
  <2>1. i \in DOMAIN m /\ m[i] = s[i]
    BY <1>1, <1>2 DEF Joins
  <2> QED BY <2>1 DEF ToSet
<1>5. ASSUME NEW i \in DOMAIN t PROVE t[i] \in ToSet(m)
  <2>1. Len(s) + i \in DOMAIN m /\ m[Len(s) + i] = t[i]
    BY <1>1, <1>2 DEF Joins
  <2> QED BY <2>1 DEF ToSet
<1>6. ToSet(m) \subseteq ToSet(s) \cup ToSet(t)
  BY <1>3 DEF ToSet
<1>7. ToSet(s) \subseteq ToSet(m) /\ ToSet(t) \subseteq ToSet(m)
  BY <1>4, <1>5 DEF ToSet
<1> QED BY <1>1, <1>6, <1>7 DEF Joins

(* What a list of none or one holds.                                        *)
LEMMA OneOrNone ==
  ASSUME NEW x
  PROVE  ToSet(<<>>) = {} /\ ToSet(<<x>>) = {x}
<1>1. DOMAIN <<>> = {} /\ DOMAIN <<x>> = {1} /\ <<x>>[1] = x
  OBVIOUS
<1> QED BY <1>1 DEF ToSet

(* The rule collectors return these rules.                                  *)
LEMMA RulesAre ==
  ASSUME NEW d, NEW n \in Nat, DOMAIN d.attrRules = 1..n, NEW r, NEW resource
  PROVE  ToSet(RulesFor(d, r, resource)) = RuleSet(d, r, resource)
<1> DEFINE scoped == IF d.scoped = ABSENT THEN <<>>
                     ELSE ResourceActionScopeRuleCollector(r.subject, resource, r.action, d.scoped)
           permission == IF d.permissionRule
                         THEN ResourceActionPermissionRuleCollector(r.resource, r.action) ELSE <<>>
           range == IF d.ruleRange = ABSENT THEN <<>>
                    ELSE DelegationRangeRuleCollector(r.subject, r.resource, r.action, d.ruleRange)
           attrs == [i \in DOMAIN d.attrRules |-> AttrRule(d.attrRules[i])]
<1>1. PICK x1, x2, x3 : scoped \in {<<>>, <<x1>>} /\ permission \in {<<>>, <<x2>>} /\ range \in {<<>>, <<x3>>}
  BY DEF ResourceActionScopeRuleCollector, ResourceActionPermissionRuleCollector,
         DelegationRangeRuleCollector
<1> DEFINE S == {x1, x2, x3} \cup AttrRules(d)
<1>2. scoped \in Seq(S) /\ permission \in Seq(S) /\ range \in Seq(S)
  <2>1. <<>> \in Seq(S) /\ <<x1>> \in Seq(S) /\ <<x2>> \in Seq(S) /\ <<x3>> \in Seq(S)
    OBVIOUS
  <2> HIDE DEF scoped, permission, range, S
  <2> QED BY <1>1, <2>1
<1>3. attrs \in Seq(S) /\ ToSet(attrs) = AttrRules(d)
  <2>1. DOMAIN attrs = 1..n /\ \A i \in 1..n : attrs[i] = AttrRule(d.attrRules[i])
    OBVIOUS
  <2>2. \A i \in 1..n : attrs[i] \in S
    BY DEF AttrRules
  <2>3. attrs = [i \in 1..n |-> attrs[i]]
    OBVIOUS
  <2>4. ToSet(attrs) = AttrRules(d)
    <3> HIDE DEF attrs
    <3> QED BY <2>1 DEF ToSet, AttrRules
  <2>5. attrs \in [1..n -> S]
    <3> HIDE DEF attrs, S
    <3> QED BY <2>2, <2>3
  <2> HIDE DEF attrs, S
  <2> QED BY <2>4, <2>5
<1>4. /\ ToSet(scoped) = ScopeRules(d, r, resource) /\ ToSet(permission) = PermissionRules(d, r)
      /\ ToSet(range) = RangeRules(d, r)
  <2>1. ToSet(<<>>) = {}
    BY OneOrNone
  <2>2. ToSet(scoped) = ScopeRules(d, r, resource)
    BY <2>1, Zenon DEF ScopeRules
  <2>3. ToSet(permission) = PermissionRules(d, r)
    BY <2>1, Zenon DEF PermissionRules
  <2>4. ToSet(range) = RangeRules(d, r)
    BY <2>1, Zenon DEF RangeRules
  <2> QED BY <2>2, <2>3, <2>4
<1>5. RulesFor(d, r, resource) = scoped \o permission \o range \o attrs
  BY Zenon DEF RulesFor
<1> HIDE DEF scoped, permission, range, attrs, S
<1> DEFINE two == scoped \o permission
           three == two \o range
<1>6. two \in Seq(S) /\ ToSet(two) = ToSet(scoped) \cup ToSet(permission)
  BY <1>2, ConcatIsAList, ElementsInARow
<1>7. three \in Seq(S) /\ ToSet(three) = ToSet(two) \cup ToSet(range)
  <2> HIDE DEF two
  <2> QED BY <1>2, <1>6, ConcatIsAList, ElementsInARow
<1>8. ToSet(three \o attrs) = ToSet(three) \cup ToSet(attrs)
  <2> HIDE DEF three
  <2> QED BY <1>3, <1>7, ElementsInARow
<1>9. RulesFor(d, r, resource) = three \o attrs
  BY <1>5
<1> HIDE DEF two, three
<1> QED BY <1>3, <1>4, <1>6, <1>7, <1>8, <1>9 DEF RuleSet

(* So a decision is over the set.                                           *)
SetAllows(set, attrs, empty) ==
  /\ empty = "allow" \/ \E x \in set : ~x.restricts
  /\ \A x \in set : \E y \in set : x.type = y.type /\ verify(y, attrs)

(* What all of a list's rules say is what the set's say.                    *)
LEMMA AllowsAsASet ==
  ASSUME NEW list, NEW attrs, NEW empty
  PROVE  WouldAllow(list, attrs, empty) <=> SetAllows(ToSet(list), attrs, empty)
BY DEF WouldAllow, SetAllows, ToSet

-----------------------------------------------------------------------------
(* The rules that were constructed, and those collected of them.            *)
Ruled ==
  /\ stage \in {"ready", "unparsed", "conflict", "collected"} =>
       \A i \in DOMAIN deployment.attrRules : Constructs(deployment.attrRules[i])
  /\ stage = "collected" => collected = RulesFor(deployment, request, Resource)

(* No step disturbs this.                                                   *)
LEMMA RuledKept ==
  ASSUME Ruled, [PolicyNext]_policyVars
  PROVE  Ruled'
<1>1. CASE LoadPackage
  BY <1>1 DEF LoadPackage, Ruled
<1>2. CASE Construct
  BY <1>2 DEF Construct, Ruled
<1>3. CASE CollectPolicy
  <2>1. /\ stage = "ready" /\ stage' \in {"unparsed", "conflict", "collected"}
        /\ UNCHANGED deployment
    BY <1>3 DEF CollectPolicy
  <2>2. stage' = "collected" => collected' = RulesFor(deployment, request', Resource')
    BY <1>3, CollectedIs
  <2> QED BY <2>1, <2>2 DEF Ruled
<1>4. CASE BeginBuiltin \/ AskBuiltin \/ GivenPhase \/ UNCHANGED policyVars
  <2>1. UNCHANGED policy
    BY <1>4 DEF BeginBuiltin, AskBuiltin, GivenPhase, policyVars
  <2> QED BY <2>1 DEF Ruled, policy, Resource
<1> QED BY <1>1, <1>2, <1>3, <1>4 DEF PolicyNext

(* A derived type is longer than a built-in rule's own.                     *)
LEMMA NamedIsLong ==
  ASSUME NEW S, ":" \in S, NEW x \in S, NEW a \in Seq(S), NEW t \in Seq(S), NEW z
  PROVE  Named(x, a, t) # Text(z)
<1>1. PICK h \in Seq(S) : h = <<x, ":">> /\ Len(h) = 2 /\ h[1] = x /\ h[2] = ":"
  BY TwoAtoms
<1>2. PICK colon \in Seq(S) : colon = <<":">> /\ Len(colon) = 1 /\ colon[1] = ":"
  BY OneAtom, Zenon
<1>3. PICK p \in Seq(S) : Joins(p, h, a)
  BY ConcatIs
<1>4. PICK q \in Seq(S) : Joins(q, p, colon)
  BY ConcatIs
<1>5. PICK m \in Seq(S) : Joins(m, q, t)
  BY ConcatIs
<1>6. Len(m) >= 3
  BY <1>1, <1>2, <1>3, <1>4, <1>5 DEF Joins
<1>7. m = Named(x, a, t)
  <2>1. p = <<x, ":">> \o a /\ q = p \o <<":">> /\ m = q \o t
    BY <1>1, <1>2, <1>3, <1>4, <1>5 DEF Joins
  <2> QED BY <2>1 DEF Named
<1>8. Len(Text(z)) = 1
  BY DEF Text
<1>9. m # Text(z)
  <2> SUFFICES ASSUME m = Text(z) PROVE FALSE
    OBVIOUS
  <2>1. Len(m) = 1
    BY <1>8, Zenon
  <2> QED BY <1>6, <2>1
<1> QED BY <1>7, <1>9

(* What the deployments' assumptions say of the rules of one.               *)
LEMMA RulesConfigured ==
  ASSUME NEW d \in Deployments, \A i \in DOMAIN d.attrRules : Constructs(d.attrRules[i])
  PROVE  /\ \E n \in Nat : DOMAIN d.attrRules = 1..n
         /\ \A r, s \in ToSet(d.attrRules) :
              /\ Configured(r) /\ Constructs(r) /\ Hashed(r, s)
              /\ r.rule \in SetRules => computeValuesKey(r.values) \in Seq(STRING)
<1>1. DOMAIN d.attrRules = 1..Cardinality(DOMAIN d.attrRules) /\ Cardinality(DOMAIN d.attrRules) \in Nat
  BY DeploymentsAssumption
<1>2. \A r \in ToSet(d.attrRules) : Configured(r) /\ Constructs(r)
  BY AttrRulesAssumption DEF Configured, ToSet
<1> DEFINE sets == {r.values : r \in {r \in UNION {ToSet(e.attrRules) : e \in Deployments} :
                                       r.rule \in SetRules /\ Constructs(r)}}
<1>3. \A one, other \in sets :
        /\ computeValuesKey(one) \in Seq(STRING)
        /\ computeValuesKey(one) = computeValuesKey(other) =>
             {v.text : v \in one} = {v.text : v \in other}
  BY HashAssumption, Zenon
<1>4. \A r \in ToSet(d.attrRules) : r.rule \in SetRules => r.values \in sets
  BY <1>2
<1> HIDE DEF sets
<1>5. ASSUME NEW r \in ToSet(d.attrRules), NEW s \in ToSet(d.attrRules)
      PROVE  Hashed(r, s) /\ (r.rule \in SetRules => computeValuesKey(r.values) \in Seq(STRING))
  BY <1>3, <1>4 DEF Hashed
<1> QED BY <1>1, <1>2, <1>5

(* A passing rule of a derived type is an attribute rule of that type.      *)
LEMMA PassingOfType ==
  ASSUME NEW d, NEW r, NEW resource, NEW attrs, NEW written, Configured(written), Constructs(written),
         written.rule \in SetRules => computeValuesKey(written.values) \in Seq(STRING),
         \A s \in ToSet(d.attrRules) : Configured(s) /\ s.group # DerivedType(written),
         NEW y \in RuleSet(d, r, resource), y.type = DerivedType(written), verify(y, attrs)
  PROVE  \E s \in ToSet(d.attrRules) : DerivedType(s) = DerivedType(written) /\ AttrHolds(s, attrs)
<1>1. \A z : DerivedType(written) # Text(z)
  <2>1. /\ ":" \in Atoms /\ written.rule \in Atoms /\ written.a \in Seq(Atoms)
        /\ Says(written) \in Seq(Atoms)
        /\ DerivedType(written) = Named(written.rule, written.a, Says(written))
    BY TypesAre DEF Atoms
  <2> QED BY <2>1, NamedIsLong
<1>2. y \in AttrRules(d)
  <2>1. \A x : ToSet(<<x>>) = {x} /\ ToSet(<<>>) = {}
    BY OneOrNone
  <2>2. \A x \in ScopeRules(d, r, resource) : x.type = Text("scope")
    BY <2>1 DEF ScopeRules, ResourceActionScopeRuleCollector, HasScope
  <2>3. \A x \in PermissionRules(d, r) : x.type = Text("permission")
    BY <2>1 DEF PermissionRules, ResourceActionPermissionRuleCollector, HasPermission
  <2>4. \A x \in RangeRules(d, r) : x.type = Text("delegation_range")
    BY <2>1 DEF RangeRules, DelegationRangeRuleCollector, WithinDelegationRange
  <2> QED BY <1>1, <2>2, <2>3, <2>4 DEF RuleSet
<1>3. PICK s \in ToSet(d.attrRules) : y = AttrRule(s)
  BY <1>2 DEF AttrRules, ToSet
<1>4. DerivedType(s) = DerivedType(written)
  BY <1>3 DEF AttrRule
<1>5. verify(y, attrs) = AttrHolds(s, attrs)
  <2>1. y.rule = s.rule /\ y.of = s
    BY <1>3 DEF AttrRule
  <2>2. s.rule \notin {"scope", "permission", "delegation_range"}
    BY DEF Configured, PairRules, LiteralRules, SetRules
  <2> QED BY <2>1, <2>2 DEF verify
<1> QED BY <1>3, <1>4, <1>5

(* An allow is over rules of which none is an alternative to a restriction  *)
(* that is none itself: such a list was refused.                            *)
Unmixed(set) == \A x, y \in set : x.type = y.type /\ x.restricts => y.restricts

(* Begin refuses the others.                                                *)
LEMMA AllowedUnmixed ==
  ASSUME PolicyInv, Answered, stage = "collected", Allowed
  PROVE  Unmixed(ToSet(collected))
<1>1. Listed /\ Mixed = {}
  BY DEF PolicyInv, RuleInv, RulesTyped, Standing, Allowed
<1>2. ASSUME NEW i \in Indices, NEW j \in Indices, rules[i].type = rules[j].type, rules[i].restricts
      PROVE  rules[j].restricts
  <2>1. FirstOf(i) \in Firsts /\ GroupOf(FirstOf(i)) = GroupOf(i)
    <3>1. rules[FirstOf(i)].type = rules[i].type
      BY <1>1, GroupsLed DEF GroupOf
    <3> QED BY <1>1, <3>1, FirstsAreFirst DEF GroupOf
  <2>2. i \in GroupOf(i) /\ j \in GroupOf(i)
    BY <1>2 DEF GroupOf
  <2> QED BY <1>1, <1>2, <2>1, <2>2 DEF Mixed
<1>3. /\ DOMAIN collected = Indices
      /\ \A i \in Indices : rules[i].type = collected[i].type /\ rules[i].restricts = collected[i].restricts
  BY DEF Answered
<1> QED BY <1>2, <1>3 DEF Unmixed, ToSet

(* What a decision allowed over a deployment's rules is over.               *)
Granted(d, r, resource, attrs, empty) ==
  /\ Unmixed(RuleSet(d, r, resource))
  /\ SetAllows(RuleSet(d, r, resource), attrs, empty)

(* An allow is such a decision.                                             *)
LEMMA AllowedIsGranted ==
  ASSUME PolicyInv, Answered, Ruled, stage = "collected", Allowed
  PROVE  /\ deployment \in Deployments
         /\ \A i \in DOMAIN deployment.attrRules : Constructs(deployment.attrRules[i])
         /\ Granted(deployment, request, Resource, attributes, onEmpty)
<1> DEFINE d == deployment
<1>1. d \in Deployments /\ \A i \in DOMAIN d.attrRules : Constructs(d.attrRules[i])
  BY DEF PolicyInv, Waiting, Ruled
<1>2. WouldAllow(collected, attributes, onEmpty)
  BY AnswersDecide DEF DecidesAsTheRulesSay, Allowed
<1>3. collected = RulesFor(d, request, Resource)
  BY DEF Ruled
<1>4. PICK n \in Nat : DOMAIN d.attrRules = 1..n
  BY <1>1, RulesConfigured
<1>5. ToSet(collected) = RuleSet(d, request, Resource)
  BY <1>3, <1>4, RulesAre
<1> QED BY <1>1, <1>2, <1>5, AllowsAsASet, AllowedUnmixed DEF Granted

(* Two rules written apart are both held to, whatever names, operators and  *)
(* literals they are written with: of a type nobody wrote there is one rule *)
(* to the letter, and an allow has it hold (DerivedType, requireAttrName,   *)
(* computeValuesKey).                                                       *)
THEOREM RulesStayApartHolds == PolicySpec => []RulesStayApart
<1>1. PolicyInit => Answered /\ Ruled
  BY DEF PolicyInit, Answered, Ruled
<1>2. PolicyInv /\ Answered /\ Ruled /\ [PolicyNext]_policyVars => Answered' /\ Ruled'
  BY AnsweredKept, RuledKept
<1>3. PolicyInv /\ Answered /\ Ruled => RulesStayApart
  <2> SUFFICES ASSUME PolicyInv, Answered, Ruled, stage = "collected", Allowed
               PROVE  RulesStayApart
    BY DEF RulesStayApart
  <2> DEFINE d == deployment
  <2>1. d \in Deployments /\ \A i \in DOMAIN d.attrRules : Constructs(d.attrRules[i])
    BY AllowedIsGranted
  <2>2. SetAllows(RuleSet(d, request, Resource), attributes, onEmpty)
    BY AllowedIsGranted DEF Granted
  <2>3. \A r, s \in ToSet(d.attrRules) :
          /\ Configured(r) /\ Constructs(r) /\ Hashed(r, s)
          /\ r.rule \in SetRules => computeValuesKey(r.values) \in Seq(STRING)
    BY <2>1, RulesConfigured
  <2> HIDE DEF d
  <2>4. ASSUME NEW r \in ToSet(d.attrRules), r.group = ABSENT,
               \A other \in ToSet(d.attrRules) : other.group # DerivedType(r)
        PROVE  AttrHolds(r, attributes)
    <3>1. AttrRule(r) \in RuleSet(d, request, Resource) /\ AttrRule(r).type = DerivedType(r)
      BY <2>4 DEF RuleSet, AttrRules, AttrRule, ToSet
    <3>2. PICK y \in RuleSet(d, request, Resource) : y.type = DerivedType(r) /\ verify(y, attributes)
      BY <2>2, <3>1 DEF SetAllows
    <3>3. PICK s \in ToSet(d.attrRules) : DerivedType(s) = DerivedType(r) /\ AttrHolds(s, attributes)
      BY <2>3, <2>4, <3>2, PassingOfType
    <3> QED BY <2>3, <3>3, TypesTell
  <2> QED BY <2>4 DEF RulesStayApart, d
<1> QED BY <1>1, <1>2, <1>3, PolicyInvariance, PTL DEF PolicySpec

-----------------------------------------------------------------------------
(* Lists and texts taken apart.  A loop over the first n numbers, whose     *)
(* steps are given, has a value for each of them.                           *)
Steps(f, n, first, step) == f[0] = first /\ \A i \in 1..n : f[i] = step[i][f[i - 1]]

(* Such a loop exists, and stays where its steps stay.                      *)
LEMMA StepsRun ==
  ASSUME NEW V, NEW first \in V, NEW n \in Nat, NEW step \in [1..n -> [V -> V]]
  PROVE  \E f \in [0..n -> V] : Steps(f, n, first, step)
<1> DEFINE P == {i \in 0..n : \E f \in [0..i -> V] : Steps(f, i, first, step)}
<1>1. 0 \in P
  <2> DEFINE f == [i \in 0..0 |-> first]
  <2>1. f \in [0..0 -> V] /\ Steps(f, 0, first, step)
    BY DEF Steps
  <2> QED BY <2>1
<1>2. ASSUME NEW i \in 0..n, i + 1 <= n, i \in P PROVE i + 1 \in P
  <2>1. PICK f \in [0..i -> V] : Steps(f, i, first, step)
    BY <1>2
  <2> DEFINE g == [j \in 0..(i + 1) |-> IF j = i + 1 THEN step[i + 1][f[i]] ELSE f[j]]
  <2>2. i + 1 \in 1..n /\ i \in 0..i /\ i + 1 \in 0..n
    BY <1>2
  <2>3. step[i + 1][f[i]] \in V
    BY <2>1, <2>2
  <2>4. g \in [0..(i + 1) -> V]
    BY <2>1, <2>3
  <2>5. /\ g[i + 1] = step[i + 1][f[i]]
        /\ \A j \in 0..i : g[j] = f[j]
    BY <1>2
  <2> HIDE DEF g
  <2>6. ASSUME NEW j \in 1..(i + 1) PROVE g[j] = step[j][g[j - 1]]
    <3>1. CASE j = i + 1
      BY <2>2, <2>5, <3>1
    <3>2. CASE j # i + 1
      <4>1. j \in 1..i /\ j \in 0..i /\ j - 1 \in 0..i
        BY <3>2
      <4> QED BY <2>1, <2>5, <4>1 DEF Steps
    <3> QED BY <3>1, <3>2
  <2>7. g[0] = first
    BY <2>1, <2>5 DEF Steps
  <2> QED BY <2>2, <2>4, <2>6, <2>7 DEF Steps
<1>3. n \in 0..n
  OBVIOUS
<1> HIDE DEF P
<1>4. n \in P
  BY <1>1, <1>2, <1>3, Climbs
<1> QED BY <1>4 DEF P

(* Filtering is such a loop.                                                *)
Kept(list, keep, f) ==
  f = [i \in 0..Len(list) |->
         IF i = 0 THEN <<>>
         ELSE IF list[i] \in keep THEN Append(f[i - 1], list[i]) ELSE f[i - 1]]

(* It returns a list of what it keeps.                                      *)
LEMMA FilterKeeps ==
  ASSUME NEW list, Len(list) \in Nat, NEW keep
  PROVE  Filter(list, keep) \in Seq(keep)
<1> DEFINE V == Seq(keep)
           n == Len(list)
           step == [i \in 1..n |-> [v \in V |-> IF list[i] \in keep THEN Append(v, list[i]) ELSE v]]
<1>1. step \in [1..n -> [V -> V]] /\ <<>> \in V
  OBVIOUS
<1>2. PICK f \in [0..n -> V] : Steps(f, n, <<>>, step)
  BY <1>1, StepsRun
<1>3. ASSUME NEW i \in 0..n
      PROVE  f[i] = IF i = 0 THEN <<>>
                    ELSE IF list[i] \in keep THEN Append(f[i - 1], list[i]) ELSE f[i - 1]
  <2>1. CASE i = 0
    BY <1>2, <2>1 DEF Steps
  <2>2. CASE i # 0
    <3>1. i \in 1..n /\ i - 1 \in 0..n
      BY <2>2
    <3>2. f[i - 1] \in V
      BY <3>1
    <3>3. f[i] = step[i][f[i - 1]]
      BY <1>2, <3>1 DEF Steps
    <3> QED BY <2>2, <3>1, <3>2, <3>3
  <2> QED BY <2>1, <2>2
<1>4. \E g : Kept(list, keep, g)
  <2>1. f = [i \in 0..n |-> f[i]]
    OBVIOUS
  <2>2. Kept(list, keep, f)
    BY <1>3, <2>1 DEF Kept
  <2> QED BY <2>2
<1> DEFINE kept == CHOOSE g : Kept(list, keep, g)
<1>5. Kept(list, keep, kept)
  BY <1>4
<1>6. Filter(list, keep) = kept[n]
  BY DEF Filter, Kept
<1> HIDE DEF kept
<1>7. \A i \in 0..n : kept[i] = IF i = 0 THEN <<>>
                                ELSE IF list[i] \in keep THEN Append(kept[i - 1], list[i]) ELSE kept[i - 1]
  BY <1>5 DEF Kept
<1> DEFINE P == {i \in 0..n : kept[i] \in V}
<1>8. 0 \in P
  <2>1. 0 \in 0..n /\ kept[0] = <<>>
    BY <1>7
  <2> QED BY <1>1, <2>1
<1>9. ASSUME NEW i \in 0..n, i + 1 <= n, i \in P PROVE i + 1 \in P
  <2>1. i + 1 \in 0..n /\ i + 1 # 0 /\ i + 1 - 1 = i /\ kept[i] \in Seq(keep)
    BY <1>9
  <2>2. kept[i + 1] = IF list[i + 1] \in keep THEN Append(kept[i], list[i + 1]) ELSE kept[i]
    BY <1>7, <2>1
  <2>3. kept[i + 1] \in Seq(keep)
    BY <2>1, <2>2
  <2> QED BY <2>1, <2>3
<1>10. n \in 0..n /\ n \in Nat
  OBVIOUS
<1>11. n \in P
  <2> HIDE DEF P, V, n
  <2> QED BY <1>8, <1>9, <1>10, Climbs
<1> QED BY <1>6, <1>11

(* Splitting a text is one too: a separator opens a part, and any other     *)
(* atom goes to the last.                                                   *)
Parts(before, atom, separator) ==
  IF atom = separator THEN Append(before, <<>>)
  ELSE [before EXCEPT ![Len(before)] = Append(@, atom)]

Divides(text, separator, f) ==
  f = [i \in 0..Len(text) |->
         IF i = 0 THEN << <<>> >>
         ELSE LET before == f[i - 1]
              IN IF text[i] = separator THEN Append(before, <<>>)
                 ELSE [before EXCEPT ![Len(before)] = Append(@, text[i])]]

Divided(text, separator, f) ==
  /\ Split(text, separator) = f[Len(text)] /\ f[0] = << <<>> >>
  /\ \A i \in 1..Len(text) : f[i] = Parts(f[i - 1], text[i], separator)

(* One or more parts stay so.                                               *)
Several(S) == {v \in Seq(Seq(S)) : Len(v) >= 1}

(* One more atom keeps the parts a list of texts, one at least.             *)
LEMMA PartsAre ==
  ASSUME NEW S, NEW before \in Several(S), NEW atom \in S, NEW separator
  PROVE  Parts(before, atom, separator) \in Several(S)
<1> DEFINE n == Len(before)
           T == Seq(S)
<1>1. before \in Seq(T) /\ n \in Nat /\ n >= 1 /\ <<>> \in T
  BY DEF Several
<1>2. Append(before, <<>>) \in Seq(T) /\ Len(Append(before, <<>>)) = n + 1
  <2> HIDE DEF T
  <2> QED BY <1>1
<1>3. Append(before[n], atom) \in T
  <2>1. before[n] \in T
    <3> HIDE DEF T
    <3> QED BY <1>1
  <2> QED BY <2>1
<1> DEFINE last == Append(before[n], atom)
           changed == [before EXCEPT ![n] = last]
<1>4. changed \in Seq(T) /\ Len(changed) = n
  <2> HIDE DEF T, last
  <2>1. before \in [1..n -> T] /\ last \in T
    BY <1>1, <1>3 DEF last
  <2>2. changed \in [1..n -> T]
    BY <2>1
  <2> HIDE DEF changed
  <2> QED BY <1>1, <2>2
<1> QED BY <1>1, <1>2, <1>4 DEF Parts, Several

(* Splitting is such a loop, over the parts so far.                         *)
LEMMA SplitDivides ==
  ASSUME NEW S, NEW text \in Seq(S), NEW separator
  PROVE  /\ \E f : Divided(text, separator, f)
         /\ Split(text, separator) \in Several(S)
<1> DEFINE V == Several(S)
           n == Len(text)
           step == [i \in 1..n |-> [v \in V |-> Parts(v, text[i], separator)]]
<1>1. n \in Nat /\ \A i \in 1..n : text[i] \in S
  OBVIOUS
<1>2. << <<>> >> \in V
  <2> DEFINE T == Seq(S)
  <2>1. <<>> \in T
    OBVIOUS
  <2>2. << <<>> >> \in Seq(T) /\ Len(<< <<>> >>) = 1
    <3> HIDE DEF T
    <3> QED BY <2>1
  <2> QED BY <2>2 DEF Several
<1>3. step \in [1..n -> [V -> V]]
  <2> HIDE DEF V
  <2>1. \A i \in 1..n : \A v \in V : Parts(v, text[i], separator) \in V
    BY <1>1, PartsAre DEF V
  <2> QED BY <2>1
<1>4. PICK f \in [0..n -> V] : Steps(f, n, << <<>> >>, step)
  <2> HIDE DEF V, step, n
  <2> QED BY <1>1, <1>2, <1>3, StepsRun
<1>5. \A i \in 1..n : f[i] = Parts(f[i - 1], text[i], separator)
  <2> SUFFICES ASSUME NEW i \in 1..n PROVE f[i] = Parts(f[i - 1], text[i], separator)
    OBVIOUS
  <2>1. i - 1 \in 0..n
    BY <1>1
  <2>2. f[i - 1] \in V
    <3> HIDE DEF V
    <3> QED BY <2>1
  <2>3. f[i] = step[i][f[i - 1]]
    BY <1>4 DEF Steps
  <2> HIDE DEF V
  <2> QED BY <2>2, <2>3
<1>6. f[0] = << <<>> >>
  BY <1>4 DEF Steps
<1>7. Divides(text, separator, f)
  <2>1. f = [i \in 0..n |-> f[i]]
    <3> HIDE DEF V
    <3> QED OBVIOUS
  <2>2. \A i \in 0..n : f[i] = IF i = 0 THEN << <<>> >>
                               ELSE LET before == f[i - 1]
                                    IN IF text[i] = separator THEN Append(before, <<>>)
                                       ELSE [before EXCEPT ![Len(before)] = Append(@, text[i])]
    <3> SUFFICES ASSUME NEW i \in 0..n
                 PROVE  f[i] = IF i = 0 THEN << <<>> >> ELSE Parts(f[i - 1], text[i], separator)
      BY DEF Parts
    <3>1. i # 0 => i \in 1..n
      BY <1>1
    <3> QED BY <1>5, <1>6, <3>1
  <2> HIDE DEF V
  <2> QED BY <2>1, <2>2 DEF Divides
<1> DEFINE parts == CHOOSE g : Divides(text, separator, g)
<1>8. Divides(text, separator, parts)
  BY <1>7
<1>9. Split(text, separator) = parts[n]
  BY DEF Split, Divides
<1> HIDE DEF parts
<1>10. /\ parts[0] = << <<>> >>
       /\ \A i \in 1..n : parts[i] = Parts(parts[i - 1], text[i], separator)
  <2>1. \A i \in 0..n : parts[i] = IF i = 0 THEN << <<>> >>
                                   ELSE LET before == parts[i - 1]
                                        IN IF text[i] = separator THEN Append(before, <<>>)
                                           ELSE [before EXCEPT ![Len(before)] = Append(@, text[i])]
    BY <1>8 DEF Divides
  <2>2. parts[0] = << <<>> >>
    <3>1. 0 \in 0..n
      BY <1>1
    <3> HIDE DEF n
    <3> QED BY <2>1, <3>1, Zenon
  <2>3. ASSUME NEW i \in 1..n PROVE parts[i] = Parts(parts[i - 1], text[i], separator)
    <3>1. i \in 0..n /\ i # 0
      BY <1>1
    <3>2. parts[i] = LET before == parts[i - 1]
                     IN IF text[i] = separator THEN Append(before, <<>>)
                        ELSE [before EXCEPT ![Len(before)] = Append(@, text[i])]
      <4> HIDE DEF n
      <4> QED BY <2>1, <3>1
    <3> QED BY <3>2 DEF Parts
  <2> QED BY <2>2, <2>3
<1>11. Divided(text, separator, parts)
  BY <1>9, <1>10 DEF Divided
<1> DEFINE P == {i \in 0..n : parts[i] \in V}
<1>12. 0 \in P
  BY <1>1, <1>2, <1>10
<1>13. ASSUME NEW i \in 0..n, i + 1 <= n, i \in P PROVE i + 1 \in P
  <2>1. i + 1 \in 1..n /\ i + 1 - 1 = i /\ i + 1 \in 0..n
    BY <1>1, <1>13
  <2>2. parts[i + 1] = Parts(parts[i], text[i + 1], separator) /\ parts[i] \in Several(S) /\ text[i + 1] \in S
    BY <1>1, <1>10, <1>13, <2>1
  <2>3. parts[i + 1] \in Several(S)
    BY <2>2, PartsAre
  <2> QED BY <2>1, <2>3
<1>14. n \in P
  <2>1. n \in 0..n
    BY <1>1
  <2> HIDE DEF P, V, n
  <2> QED BY <1>1, <1>12, <1>13, <2>1, Climbs
<1> QED BY <1>9, <1>11, <1>14

(* No text has one part, of no atoms.                                       *)
LEMMA SplitNothing ==
  ASSUME NEW separator
  PROVE  Split(<<>>, separator) = << <<>> >>
<1>1. <<>> \in Seq({separator}) /\ Len(<<>>) = 0
  OBVIOUS
<1>2. PICK f : Divided(<<>>, separator, f)
  BY <1>1, SplitDivides
<1> QED BY <1>1, <1>2 DEF Divided

(* One more atom is one more step.                                          *)
LEMMA SplitOneMore ==
  ASSUME NEW S, NEW text \in Seq(S), NEW atom \in S, NEW separator
  PROVE  Split(text \o <<atom>>, separator) = Parts(Split(text, separator), atom, separator)
<1>1. PICK one \in Seq(S) : one = <<atom>> /\ Len(one) = 1 /\ one[1] = atom
  BY OneAtom
<1>2. PICK m \in Seq(S) : Joins(m, text, one)
  BY ConcatIs
<1> DEFINE n == Len(text)
<1>3. n \in Nat /\ Len(m) = n + 1 /\ m[n + 1] = atom /\ \A i \in 1..n : m[i] = text[i]
  BY <1>1, <1>2 DEF Joins
<1>4. PICK f : Divided(m, separator, f)
  BY SplitDivides
<1>5. PICK g : Divided(text, separator, g)
  BY SplitDivides
<1> HIDE DEF n
<1>6. f[n] = g[n]
  <2> DEFINE P == {i \in 0..n : f[i] = g[i]}
  <2>1. 0 \in P
    <3>1. 0 \in 0..n /\ f[0] = g[0]
      BY <1>3, <1>4, <1>5 DEF Divided
    <3> QED BY <3>1
  <2>2. ASSUME NEW i \in 0..n, i + 1 <= n, i \in P PROVE i + 1 \in P
    <3>1. i + 1 \in 1..n /\ i + 1 \in 1..Len(m) /\ i + 1 - 1 = i /\ i + 1 \in 0..n /\ f[i] = g[i]
      BY <1>3, <2>2
    <3>2. f[i + 1] = Parts(f[i], m[i + 1], separator) /\ g[i + 1] = Parts(g[i], text[i + 1], separator)
      BY <1>4, <1>5, <3>1 DEF Divided, n
    <3> QED BY <1>3, <3>1, <3>2
  <2>3. n \in 0..n
    BY <1>3
  <2>4. n \in P
    <3> HIDE DEF P
    <3> QED BY <1>3, <2>1, <2>2, <2>3, Climbs
  <2> QED BY <2>4
<1>7. f[n + 1] = Parts(f[n], atom, separator)
  <2>1. n + 1 \in 1..Len(m) /\ n + 1 - 1 = n
    BY <1>3
  <2> QED BY <1>3, <1>4, <2>1 DEF Divided
<1>8. Split(m, separator) = f[n + 1] /\ Split(text, separator) = g[n]
  BY <1>3, <1>4, <1>5 DEF Divided, n
<1>9. m = text \o <<atom>>
  BY <1>1, <1>2 DEF Joins
<1> QED BY <1>6, <1>7, <1>8, <1>9

(* A NAME joined to a path by a dot is one more element, of itself alone.   *)
LEMMA OneMoreElement ==
  ASSUME NEW S, "." \in S, NEW resource \in Seq(S), NEW name \in S, name \notin {".", ":"}
  PROVE  Elements(resource \o <<".">> \o <<name>>) = Append(Elements(resource), << <<name>> >>)
<1> DEFINE parts == Split(resource, ".")
           n == Len(parts)
           T == Seq(S)
<1>1. parts \in Seq(T) /\ n \in Nat /\ n >= 1
  BY SplitDivides DEF Several
<1>2. PICK dot \in Seq(S) : dot = <<".">>
  BY OneAtom, Zenon
<1>3. resource \o <<".">> \in Seq(S)
  BY <1>2, ConcatIsAList
<1>4. Split(resource \o <<".">>, ".") = Append(parts, <<>>)
  <2>1. Split(resource \o <<".">>, ".") = Parts(parts, ".", ".")
    BY SplitOneMore, Zenon
  <2> QED BY <2>1, Zenon DEF Parts
<1> DEFINE opened == Append(parts, <<>>)
<1>5. <<>> \in T /\ <<name>> \in T /\ Append(<<>>, name) = <<name>>
  OBVIOUS
<1> DEFINE closed == Append(parts, <<name>>)
<1>6. opened \in Seq(T) /\ Len(opened) = n + 1 /\ opened[n + 1] = <<>>
      /\ \A i \in 1..n : opened[i] = parts[i]
  <2> HIDE DEF parts, T
  <2> QED BY <1>1, <1>5
<1>7. closed \in Seq(T) /\ Len(closed) = n + 1 /\ closed[n + 1] = <<name>>
      /\ \A i \in 1..n : closed[i] = parts[i]
  <2> HIDE DEF parts, T
  <2> QED BY <1>1, <1>5
<1>8. [opened EXCEPT ![n + 1] = <<name>>] = closed
  <2> HIDE DEF parts, T, n
  <2>1. DOMAIN opened = 1..(n + 1) /\ DOMAIN closed = 1..(n + 1)
    BY <1>1, <1>6, <1>7
  <2> HIDE DEF opened, closed
  <2>2. closed = [i \in 1..(n + 1) |-> closed[i]]
    BY <1>7, <2>1
  <2>3. ASSUME NEW i \in 1..(n + 1) PROVE [opened EXCEPT ![n + 1] = <<name>>][i] = closed[i]
    <3>1. CASE i = n + 1
      <4>1. closed[i] = <<name>>
        BY <1>7, <3>1
      <4> QED BY <2>1, <3>1, <4>1
    <3>2. CASE i # n + 1
      <4>1. i \in 1..n
        BY <1>1, <3>2
      <4>2. opened[i] = closed[i]
        BY <1>6, <1>7, <4>1
      <4> QED BY <2>1, <3>2, <4>2
    <3> QED BY <3>1, <3>2
  <2> QED BY <2>1, <2>2, <2>3
<1>9. Split(resource \o <<".">> \o <<name>>, ".") = closed
  <2>1. Split(resource \o <<".">> \o <<name>>, ".") = Parts(opened, name, ".")
    <3> DEFINE dotted == resource \o <<".">>
    <3>1. dotted \in Seq(S) /\ Split(dotted, ".") = opened
      BY <1>3, <1>4
    <3> HIDE DEF dotted, opened
    <3>2. Split(dotted \o <<name>>, ".") = Parts(Split(dotted, "."), name, ".")
      BY <3>1, SplitOneMore, Zenon
    <3> QED BY <3>1, <3>2 DEF dotted
  <2>2. Parts(opened, name, ".") = [opened EXCEPT ![Len(opened)] = Append(opened[Len(opened)], name)]
    BY DEF Parts
  <2> HIDE DEF opened, closed
  <2> QED BY <1>5, <1>6, <1>8, <2>1, <2>2
<1>10. Split(<<name>>, ":") = << <<name>> >>
  <2>1. <<>> \in Seq(S) /\ <<>> \o <<name>> = <<name>>
    OBVIOUS
  <2>2. Split(<<name>>, ":") = Parts(<< <<>> >>, name, ":")
    BY <2>1, SplitOneMore, SplitNothing
  <2>3. Parts(<< <<>> >>, name, ":") = [<< <<>> >> EXCEPT ![1] = Append(<<>>, name)]
    BY DEF Parts
  <2>4. [<< <<>> >> EXCEPT ![1] = <<name>>] = << <<name>> >>
    OBVIOUS
  <2> QED BY <1>5, <2>2, <2>3, <2>4
<1> DEFINE split(s) == [i \in DOMAIN s |-> Split(s[i], ":")]
<1>11. split(closed) = Append(split(parts), << <<name>> >>)
  <2> DEFINE U == {Split(s, ":") : s \in T} \cup {<< <<name>> >>}
  <2> HIDE DEF T
  <2>1. split(parts) \in [1..n -> U]
    <3>1. DOMAIN parts = 1..n /\ \A i \in 1..n : parts[i] \in T
      <4> HIDE DEF parts
      <4> QED BY <1>1
    <3> HIDE DEF parts, n
    <3> QED BY <3>1
  <2> DEFINE before == split(parts)
             value == << <<name>> >>
  <2>2. before \in Seq(U) /\ Len(before) = n /\ value \in U
    <3> HIDE DEF before, U, parts
    <3>1. before \in Seq(U) /\ Len(before) = n
      BY <1>1, <2>1 DEF before
    <3> QED BY <3>1 DEF U
  <2>3. \A i \in 1..n : before[i] = Split(parts[i], ":")
    <3>1. DOMAIN parts = 1..n
      <4> HIDE DEF parts
      <4> QED BY <1>1
    <3> QED BY <3>1
  <2> HIDE DEF before, value, U
  <2>4. Append(before, value) \in Seq(U) /\ Len(Append(before, value)) = n + 1
        /\ Append(before, value)[n + 1] = value /\ \A i \in 1..n : Append(before, value)[i] = before[i]
    BY <2>2
  <2>5. DOMAIN closed = 1..(n + 1)
    <3> HIDE DEF closed, parts
    <3> QED BY <1>1, <1>7
  <2>6. ASSUME NEW i \in 1..(n + 1) PROVE Split(closed[i], ":") = Append(before, value)[i]
    <3>1. CASE i = n + 1
      BY <1>7, <1>10, <2>4, <3>1 DEF value
    <3>2. CASE i # n + 1
      <4>1. i \in 1..n
        BY <1>1, <3>2
      <4> HIDE DEF closed, parts
      <4> QED BY <1>7, <2>3, <2>4, <4>1
    <3> QED BY <3>1, <3>2
  <2>7. Append(before, value) = [i \in 1..(n + 1) |-> Append(before, value)[i]]
    <3> DEFINE longer == Append(before, value)
    <3>1. longer \in Seq(U) /\ Len(longer) = n + 1
      BY <2>4
    <3> HIDE DEF longer
    <3>2. longer = [i \in 1..(n + 1) |-> longer[i]]
      BY <3>1
    <3> QED BY <3>2 DEF longer
  <2>8. split(closed) = [i \in 1..(n + 1) |-> Split(closed[i], ":")]
    <3> HIDE DEF closed
    <3> QED BY <2>5
  <2>9. split(closed) = Append(before, value)
    <3> HIDE DEF closed, split
    <3> QED BY <2>6, <2>7, <2>8
  <2> QED BY <2>9 DEF before, value
<1>12. Elements(resource \o <<".">> \o <<name>>) = split(closed) /\ Elements(resource) = split(parts)
  BY <1>9, Zenon DEF Elements
<1> QED BY <1>11, <1>12

-----------------------------------------------------------------------------
(* What a range is: an element's type is one that its id, if it has one,    *)
(* comes after; a path of nothing is none.                                  *)
LEMMA NoPathIsEmpty == parseRangePath(<<>>) = {}
<1>1. Split(<<>>, ".") = << <<>> >> /\ Split(<<>>, ":") = << <<>> >>
  BY SplitNothing
<1>2. DOMAIN << <<>> >> = {1} /\ << <<>> >>[1] = <<>>
  OBVIOUS
<1>3. Elements(<<>>) = [i \in {1} |-> << <<>> >>]
  BY <1>1, <1>2 DEF Elements
<1>4. DOMAIN Elements(<<>>) = {1} /\ Elements(<<>>)[1][1] = <<>>
  BY <1>2, <1>3
<1>5. ~IsName(<<>>)
  BY DEF IsName
<1> HIDE DEF Elements
<1> QED BY <1>4, <1>5 DEF parseRangePath

(* An entry that covers the path of elements asked for.                     *)
CoversPath(entry, asked) ==
  \E e \in parseRangePath(entry) :
    /\ Len(e) <= Len(asked)
    /\ \A i \in DOMAIN e : e[i][1] = asked[i][1] /\ (Len(e[i]) = 2 => e[i] = asked[i])

(* What contains the path of a request covers its resource and its action.  *)
LEMMA ContainedIsCovered ==
  ASSUME NEW resource \in Seq(STRING), NEW action \in Seq(STRING), NEW entry,
         requestedRangePath(resource, action) # ABSENT,
         rangeContains(entry, requestedRangePath(resource, action))
  PROVE  CoversPath(entry, Append(Elements(resource), <<action>>))
<1>1. IsName(action) /\ requestedRangePath(resource, action) = resource \o <<".">> \o action
  BY DEF requestedRangePath
<1>2. Len(action) = 1 /\ action[1] \in Plain
  BY <1>1 DEF IsName
<1>3. PICK name \in STRING : action = <<name>> /\ name \in Plain
  <2>1. action[1] \in STRING /\ action = <<action[1]>>
    BY <1>2
  <2> QED BY <1>2, <2>1, Zenon
<1>4. "." \in Atoms /\ name \in Atoms /\ resource \in Seq(Atoms)
  BY TextsAre DEF Atoms
<1>5. name \notin {".", ":"}
  BY <1>3, GrammarAssumption
<1>6. Elements(resource \o <<".">> \o <<name>>) = Append(Elements(resource), << <<name>> >>)
  BY <1>4, <1>5, OneMoreElement
<1> DEFINE asked == Append(Elements(resource), <<action>>)
<1>7. Elements(requestedRangePath(resource, action)) = asked
  BY <1>1, <1>3, <1>6
<1> HIDE DEF asked
<1>8. PICK within \in parseRangePath(entry), requested \in parseRangePath(requestedRangePath(resource, action)) :
         /\ Len(within) <= Len(requested)
         /\ \A i \in DOMAIN within : within[i] \in {requested[i], <<requested[i][1]>>}
  BY DEF rangeContains
<1>9. requested = asked
  BY <1>7 DEF parseRangePath
<1>10. ASSUME NEW i \in DOMAIN within
       PROVE  within[i][1] = asked[i][1] /\ (Len(within[i]) = 2 => within[i] = asked[i])
  <2>1. CASE within[i] = asked[i]
    BY <2>1
  <2>2. CASE within[i] = <<asked[i][1]>>
    <3> DEFINE x == asked[i][1]
    <3>1. within[i] = <<x>>
      BY <2>2
    <3> HIDE DEF x
    <3>2. <<x>>[1] = x /\ Len(<<x>>) = 1
      OBVIOUS
    <3> QED BY <3>1, <3>2 DEF x
  <2> QED BY <1>8, <1>9, <2>1, <2>2
<1> QED BY <1>8, <1>9, <1>10 DEF CoversPath, asked

-----------------------------------------------------------------------------
(* Every package loaded holds the keys it reserved, and once collectors are *)
(* constructed every package is loaded.                                     *)
Holds(p) == \A key \in p.keys : key \in DOMAIN reservations /\ reservations[key] = p.owner

Reserving ==
  /\ stage = "loading" => \A p \in deployment.packages \ unloaded : Holds(p)
  /\ stage \in {"ready", "unparsed", "conflict", "collected"} => \A p \in deployment.packages : Holds(p)

(* No step disturbs this: a key reserved is not reserved for another.       *)
LEMMA ReservingKept ==
  ASSUME Reserving, [PolicyNext]_policyVars
  PROVE  Reserving'
<1>1. CASE LoadPackage
  <2>1. stage = "loading" /\ UNCHANGED deployment
    BY <1>1 DEF LoadPackage
  <2>2. CASE stage' = "refused"
    BY <2>2 DEF Reserving
  <2>3. CASE stage' # "refused"
    <3>1. PICK p \in unloaded : /\ ~Contested(reservations, p.owner, p.keys)
                                /\ reservations' = Reserved(reservations, p.owner, p.keys)
                                /\ unloaded' = unloaded \ {p} /\ stage' = stage
      BY <1>1, <2>3 DEF LoadPackage
    <3>2. \A key \in DOMAIN reservations : key \in DOMAIN reservations' /\ reservations'[key] = reservations[key]
      BY <3>1 DEF Reserved
    <3>3. Holds(p)'
      BY <3>1 DEF Holds, Reserved, Contested
    <3>4. ASSUME NEW q \in deployment.packages \ unloaded PROVE Holds(q)'
      BY <2>1, <3>2 DEF Reserving, Holds
    <3> QED BY <2>1, <3>1, <3>3, <3>4 DEF Reserving
  <2> QED BY <2>2, <2>3
<1>2. CASE Construct
  <2>1. stage = "loading" /\ unloaded = {} /\ UNCHANGED <<deployment, reservations>> /\ stage' \in {"ready", "refused"}
    BY <1>2 DEF Construct
  <2>2. \A p \in deployment.packages : Holds(p)
    BY <2>1 DEF Reserving
  <2> QED BY <2>1, <2>2 DEF Reserving, Holds
<1>3. CASE CollectPolicy
  <2>1. /\ stage = "ready" /\ stage' \in {"unparsed", "conflict", "collected"}
        /\ UNCHANGED <<deployment, reservations>>
    BY <1>3 DEF CollectPolicy
  <2> QED BY <2>1 DEF Reserving, Holds
<1>4. CASE BeginBuiltin \/ AskBuiltin \/ GivenPhase \/ UNCHANGED policyVars
  <2>1. UNCHANGED policy
    BY <1>4 DEF BeginBuiltin, AskBuiltin, GivenPhase, policyVars
  <2> QED BY <2>1 DEF Reserving, Holds, policy
<1> QED BY <1>1, <1>2, <1>3, <1>4 DEF PolicyNext

(* A token's range, as its collector writes it.                             *)
Ranges(d, r) == entriesOfType(Read(r.subject, d.range.claim), d.range.type)
RangeOf(d, r) == List(rangePaths(CHOOSE entries \in Ranges(d, r) : TRUE))

(* One map makes a key what the map has there.                              *)
LEMMA OneMapMerges ==
  ASSUME NEW map, NEW key, key \in DOMAIN map
  PROVE  MergedValue(<<map>>, key) = map[key]
<1>1. PICK one \in Seq({map}) : one = <<map>> /\ Len(one) = 1 /\ one[1] = map
  BY OneAtom
<1>2. PICK f : Ends(one, key, f)
  BY <1>1, MergeLoops
<1>3. f[1] = Joined(f[0], map, key) /\ f[0] = ABSENT
  <2>1. 1 \in 1..Len(one) /\ 1 - 1 = 0
    BY <1>1
  <2> QED BY <1>1, <1>2, <2>1 DEF Ends
<1>4. f[1] = map[key]
  BY <1>3 DEF Joined, IsList
<1> QED BY <1>1, <1>2, <1>4 DEF Ends

(* The packages' collectors make the range's key the range.                 *)
LEMMA OwnersRange ==
  ASSUME NEW d, NEW r, NEW resource, d.range # ABSENT, Ranges(d, r) # {}
  PROVE  MergedValue(OwnedMaps(d, r, resource), ATTR_DELEGATION_RANGE) = RangeOf(d, r)
<1> DEFINE range == DelegationRangeCollector(r.subject, d.range)
           facts == RequestFactsCollector(resource, r.action)
           factses == If(d.facts, facts)
           key == ATTR_DELEGATION_RANGE
           S == {range, facts}
<1>1. DOMAIN range = {key} /\ range[key] = RangeOf(d, r)
  BY DEF DelegationRangeCollector, Ranges, RangeOf
<1>2. key \notin DOMAIN facts
  <2>1. DOMAIN facts \subseteq CEDAR_ATTRIBUTE_KEYS
    BY DEF RequestFactsCollector
  <2>2. \A a, b : Text(a) = Text(b) => a = b
    BY DEF Text
  <2>3. "delegationRange" \notin {"requestAction", "requestResourceType", "requestResourceId",
                                  "requestResourceRaw"}
    OBVIOUS
  <2> QED BY <2>1, <2>2, <2>3 DEF CEDAR_ATTRIBUTE_KEYS, ATTR_DELEGATION_RANGE, ATTR_REQUEST_ACTION,
             ATTR_REQUEST_RESOURCE_TYPE, ATTR_REQUEST_RESOURCE_ID, ATTR_REQUEST_RESOURCE_RAW
<1>3. range \in S /\ facts \in S
  OBVIOUS
<1>4. OwnedMaps(d, r, resource) = <<range>> \o factses
  BY DEF OwnedMaps, If
<1> HIDE DEF range, facts, key, S
<1>5. factses \in Seq(S) /\ Leaves(factses, key)
  BY <1>2, <1>3, IfIsAList, Zenon
<1>6. <<range>> \in Seq(S)
  BY <1>3, OneAtom, Zenon
<1> HIDE DEF factses
<1>7. MergedValue(<<range>> \o factses, key) = MergedValue(<<range>>, key)
  BY <1>5, <1>6, SkipsBehind, Zenon
<1>8. MergedValue(<<range>>, key) = range[key]
  BY <1>1, OneMapMerges
<1> QED BY <1>1, <1>4, <1>7, <1>8 DEF key

(* Nothing is declared onto a reserved key, and the engine holds its own.   *)
Checked(d, reserved) ==
  /\ parseAttributeMappings(d.fromContext, reserved, {})
  /\ parseAttributeMappings(d.fromClaims, reserved, {CORE})
  /\ \A key \in CORE_ATTRIBUTE_KEYS : key \in DOMAIN reserved /\ reserved[key] = CORE

(* So a package's key is what the packages' collectors make it.             *)
LEMMA PackagesKeep ==
  ASSUME NEW d, NEW r, NEW resource, NEW key, NEW reserved,
         DOMAIN r = {"resource", "action", "subject", "context"}, Checked(d, reserved)
  PROVE  Alone(d, r, resource, key, reserved)
BY NothingVouched, Zenon DEF Checked

(* The range a decision reads is the token's own: its key is reserved, so   *)
(* nothing is declared onto it.                                             *)
LEMMA RangeIsTheTokens ==
  ASSUME Vouching, Reserving, stage = "collected", deployment \in Deployments,
         deployment.range # ABSENT, Ranges(deployment, request) # {}
  PROVE  Read(attributes, ATTR_DELEGATION_RANGE) = RangeOf(deployment, request)
<1> DEFINE key == ATTR_DELEGATION_RANGE
           maps == Maps(deployment, request, Resource)
<1>1. PICK p \in deployment.packages : p.owner # "core" /\ key \in p.keys
  BY DeploymentsAssumption
<1>2. key \in DOMAIN reservations /\ reservations[key] # CORE
  BY <1>1 DEF Reserving, Holds, CORE
<1>3. attributes = merge(maps) /\ DOMAIN request = {"resource", "action", "subject", "context"}
  BY RequestsAssumption DEF Vouching
<1>4. Read(merge(maps), key) = MergedValue(maps, key)
  BY MapsMerge
<1>5. MergedValue(maps, key) = MergedValue(OwnedMaps(deployment, request, Resource), key)
  <2>1. Checked(deployment, reservations)
    BY DEF Vouching, Checked
  <2> HIDE DEF key
  <2> QED BY <1>2, <1>3, <2>1, PackagesKeep DEF Alone
<1>6. MergedValue(OwnedMaps(deployment, request, Resource), key) = RangeOf(deployment, request)
  BY OwnersRange
<1> QED BY <1>2, <1>3, <1>4, <1>5, <1>6

-----------------------------------------------------------------------------
(* What is on the list a range's collector writes is the path of an entry,  *)
(* and one of the grammar.                                                  *)
LEMMA PathsAreEntries ==
  ASSUME NEW T, NEW entries \in Seq(T), NEW v \in ToSet(rangePaths(entries))
  PROVE  RangePath(v) /\ \E e \in T : e.items[1] = v
<1> DEFINE U == {e.items[1] : e \in T}
           paths == [i \in DOMAIN entries |-> entries[i].items[1]]
           keep == {x \in ToSet(paths) : RangePath(x)}
<1>1. DOMAIN entries = 1..Len(entries) /\ Len(entries) \in Nat /\ \A i \in 1..Len(entries) : entries[i] \in T
  OBVIOUS
<1>2. paths \in [1..Len(entries) -> U]
  BY <1>1
<1>3. Len(paths) \in Nat /\ \A x \in ToSet(paths) : x \in U
  <2> HIDE DEF paths, U
  <2> QED BY <1>1, <1>2 DEF ToSet
<1>4. rangePaths(entries) = Filter(paths, keep)
  BY DEF rangePaths
<1>5. Filter(paths, keep) \in Seq(keep)
  <2> HIDE DEF keep, paths
  <2> QED BY <1>3, FilterKeeps
<1>6. v \in keep
  <2> HIDE DEF keep, paths
  <2> QED BY <1>4, <1>5 DEF ToSet
<1>7. RangePath(v) /\ v \in U
  <2> HIDE DEF paths, U
  <2> QED BY <1>3, <1>6
<1> QED BY <1>7

(* A token's range is of its entries of the type, whatever else its claim   *)
(* holds.                                                                   *)
LEMMA RangeIsOfEntries ==
  ASSUME NEW claim, NEW type, claim # ABSENT /\ claim.kind = "list" => Len(claim.items) \in Nat,
         entriesOfType(claim, type) # {},
         NEW v \in ToSet(rangePaths(CHOOSE entries \in entriesOfType(claim, type) : TRUE))
  PROVE  /\ claim.kind = "list" /\ RangePath(v)
         /\ \E i \in DOMAIN claim.items : claim.items[i].text = type /\ claim.items[i].items[1] = v
<1> DEFINE ranges == entriesOfType(claim, type)
           entries == CHOOSE entries \in ranges : TRUE
           ofType == {e \in ToSet(claim.items) : e.text = type}
<1>1. entries \in ranges /\ claim # ABSENT /\ v \in ToSet(rangePaths(entries))
  BY DEF entriesOfType
<1>2. CASE claim.kind # "list" \/ \E i \in DOMAIN claim.items : claim.items[i].kind # "object"
  <2>1. entries = <<>>
    BY <1>1, <1>2 DEF entriesOfType
  <2>2. PICK none : none = {} /\ entries \in Seq(none)
    <3>1. <<>> \in Seq({})
      OBVIOUS
    <3> QED BY <2>1, <3>1
  <2> HIDE DEF entries
  <2>3. \E e \in none : e.items[1] = v
    BY <1>1, <2>2, PathsAreEntries
  <2> QED BY <2>2, <2>3
<1>3. CASE claim.kind = "list" /\ \A i \in DOMAIN claim.items : claim.items[i].kind = "object"
  <2>1. entries = Filter(claim.items, ofType)
    BY <1>1, <1>3 DEF entriesOfType
  <2>2. entries \in Seq(ofType)
    <3> HIDE DEF entries, ofType
    <3> QED BY <1>1, <1>3, <2>1, FilterKeeps
  <2>3. RangePath(v) /\ \E e \in ofType : e.items[1] = v
    <3> HIDE DEF entries, ofType
    <3> QED BY <1>1, <2>2, PathsAreEntries
  <2> QED BY <1>3, <2>3 DEF ToSet
<1> QED BY <1>2, <1>3

(* A rule for the range is the only restriction collected.                  *)
LEMMA RulesRestrict ==
  ASSUME NEW d, NEW r, NEW resource, NEW x
  PROVE  /\ x \in ScopeRules(d, r, resource) => x.type = Text("scope") /\ ~x.restricts
         /\ x \in PermissionRules(d, r) => x.type = Text("permission") /\ ~x.restricts
         /\ x \in RangeRules(d, r) => x = WithinDelegationRange(requestedRangePath(r.resource, r.action))
         /\ x \in AttrRules(d) => ~x.restricts
<1>1. \A z : ToSet(<<z>>) = {z} /\ ToSet(<<>>) = {}
  BY OneOrNone
<1>2. x \in ScopeRules(d, r, resource) => x.type = Text("scope") /\ ~x.restricts
  BY <1>1 DEF ScopeRules, ResourceActionScopeRuleCollector, HasScope
<1>3. x \in PermissionRules(d, r) => x.type = Text("permission") /\ ~x.restricts
  BY <1>1 DEF PermissionRules, ResourceActionPermissionRuleCollector, HasPermission
<1>4. x \in RangeRules(d, r) => x = WithinDelegationRange(requestedRangePath(r.resource, r.action))
  <2> DEFINE rule == WithinDelegationRange(requestedRangePath(r.resource, r.action))
             list == DelegationRangeRuleCollector(r.subject, r.resource, r.action, d.ruleRange)
  <2>1. list \in {<<>>, <<rule>>}
    BY DEF DelegationRangeRuleCollector
  <2>2. RangeRules(d, r) \in {{}, ToSet(list)}
    BY DEF RangeRules
  <2> HIDE DEF rule, list
  <2>3. RangeRules(d, r) \in {{}, {rule}}
    BY <1>1, <2>1, <2>2
  <2> QED BY <2>3 DEF rule
<1>5. x \in AttrRules(d) => ~x.restricts
  BY DEF AttrRules, AttrRule
<1> QED BY <1>2, <1>3, <1>4, <1>5

(* What is granted a token with a range, the range contains.                *)
LEMMA GrantedIsContained ==
  ASSUME NEW d, NEW r, NEW resource, NEW attrs, NEW empty, Granted(d, r, resource, attrs, empty),
         d.ruleRange = d.range, d.range # ABSENT, Ranges(d, r) # {},
         Read(attrs, ATTR_DELEGATION_RANGE) = RangeOf(d, r)
  PROVE  /\ requestedRangePath(r.resource, r.action) # ABSENT
         /\ Read(attrs, ATTR_DELEGATION_RANGE) # ABSENT
         /\ \E v \in ToSet(RangeOf(d, r).items) :
              v.kind = "string" /\ rangeContains(v.text, requestedRangePath(r.resource, r.action))
<1> DEFINE path == requestedRangePath(r.resource, r.action)
           rule == WithinDelegationRange(path)
<1>1. rule \in RuleSet(d, r, resource)
  <2>1. RangeRules(d, r) = ToSet(<<rule>>)
    BY DEF RangeRules, DelegationRangeRuleCollector, Ranges
  <2>2. rule \in RangeRules(d, r)
    BY <2>1, OneOrNone
  <2> QED BY <2>2 DEF RuleSet
<1>2. rule.restricts /\ rule.rule = "delegation_range" /\ rule.of = path
  BY DEF WithinDelegationRange
<1> HIDE DEF rule, path
<1>3. PICK y \in RuleSet(d, r, resource) : y.type = rule.type /\ verify(y, attrs)
  BY <1>1 DEF Granted, SetAllows
<1>4. y.restricts
  BY <1>1, <1>2, <1>3 DEF Granted, Unmixed
<1>5. y = rule
  BY <1>4, RulesRestrict DEF RuleSet, rule, path
<1>6. WithinDelegationRangeHolds(path, attrs)
  BY <1>2, <1>3, <1>5 DEF verify
<1>7. Entries(attrs, ATTR_DELEGATION_RANGE) = ToSet(RangeOf(d, r).items)
  <2>1. RangeOf(d, r).kind = "list"
    BY DEF RangeOf, List
  <2>2. Entries(attrs, ATTR_DELEGATION_RANGE) \in {{}, ToSet(RangeOf(d, r).items)}
    BY DEF Entries
  <2> QED BY <1>6, <2>1, <2>2 DEF Entries, WithinDelegationRangeHolds, Texts
<1>8. Read(attrs, ATTR_DELEGATION_RANGE) # ABSENT
  BY <1>6 DEF Entries, WithinDelegationRangeHolds, Texts
<1> QED BY <1>6, <1>7, <1>8 DEF WithinDelegationRangeHolds, Texts, path

(* A token that carries a range has one to be held to, however spelled.     *)
LEMMA DelegatedHasRange ==
  ASSUME NEW claim, NEW type, Delegated(claim, type)
  PROVE  entriesOfType(claim, type) # {}
<1>1. claim # ABSENT
  BY DEF Delegated
<1>2. CASE claim.kind # "list" \/ \E i \in DOMAIN claim.items : claim.items[i].kind # "object"
  BY <1>1, <1>2 DEF entriesOfType
<1>3. CASE claim.kind = "list" /\ \A i \in DOMAIN claim.items : claim.items[i].kind = "object"
  <2>1. PICK i \in DOMAIN claim.items : claim.items[i].text = type
    BY <1>3 DEF Delegated
  <2>2. claim.items[i] \in {e \in ToSet(claim.items) : e.text = type}
    BY <2>1 DEF ToSet
  <2> QED BY <1>1, <1>3, <2>2 DEF entriesOfType
<1> QED BY <1>2, <1>3

(* What is granted it, an entry of it covers.                               *)
LEMMA GrantedIsCovered ==
  ASSUME NEW d, NEW r, NEW resource, NEW attrs, NEW empty, Granted(d, r, resource, attrs, empty),
         r.resource \in Seq(STRING), r.action \in Seq(STRING),
         LET claim == Read(r.subject, d.range.claim)
         IN claim # ABSENT /\ claim.kind = "list" => Len(claim.items) \in Nat,
         d.ruleRange = d.range, d.range # ABSENT, Ranges(d, r) # {},
         Read(attrs, ATTR_DELEGATION_RANGE) = RangeOf(d, r)
  PROVE  LET claim == Read(r.subject, d.range.claim)
         IN /\ claim.kind = "list"
            /\ \E i \in DOMAIN claim.items :
                 /\ claim.items[i].text = d.range.type /\ NonEmpty(claim.items[i].items[1])
                 /\ CoversPath(claim.items[i].items[1].text, Append(Elements(r.resource), <<r.action>>))
<1> DEFINE claim == Read(r.subject, d.range.claim)
           path == requestedRangePath(r.resource, r.action)
<1>1. path # ABSENT
      /\ \E v \in ToSet(RangeOf(d, r).items) : v.kind = "string" /\ rangeContains(v.text, path)
  BY GrantedIsContained
<1>2. PICK v \in ToSet(RangeOf(d, r).items) : rangeContains(v.text, path)
  BY <1>1
<1>3. v \in ToSet(rangePaths(CHOOSE entries \in entriesOfType(claim, d.range.type) : TRUE))
  BY DEF RangeOf, Ranges, List
<1>4. claim # ABSENT /\ claim.kind = "list" => Len(claim.items) \in Nat
  OBVIOUS
<1>5. entriesOfType(claim, d.range.type) # {}
  BY DEF Ranges
<1>6. CoversPath(v.text, Append(Elements(r.resource), <<r.action>>))
  BY <1>1, <1>2, ContainedIsCovered
<1> HIDE DEF claim, path
<1>7. /\ claim.kind = "list" /\ RangePath(v)
      /\ \E i \in DOMAIN claim.items : claim.items[i].text = d.range.type /\ claim.items[i].items[1] = v
  BY <1>3, <1>4, <1>5, RangeIsOfEntries
<1>8. NonEmpty(v)
  BY <1>7, NoPathIsEmpty DEF RangePath, NonEmpty
<1> QED BY <1>6, <1>7, <1>8 DEF claim

-----------------------------------------------------------------------------
(* Maps that say the same of a key, place by place.                         *)
Alike(s, t, key) ==
  /\ Len(s) \in Nat /\ Len(t) = Len(s)
  /\ \A i \in 1..Len(s) : /\ key \in DOMAIN s[i] <=> key \in DOMAIN t[i]
                          /\ key \in DOMAIN s[i] => s[i][key] = t[i][key]

(* They merge to the same of it.                                            *)
LEMMA AlikeMerge ==
  ASSUME NEW s, NEW t, NEW key, Alike(s, t, key)
  PROVE  MergedValue(s, key) = MergedValue(t, key)
<1> DEFINE n == Len(s)
<1>1. n \in Nat /\ Len(t) = n
  BY DEF Alike
<1>2. PICK f : Ends(s, key, f)
  BY <1>1, MergeLoops
<1>3. PICK g : Ends(t, key, g)
  BY <1>1, MergeLoops
<1> DEFINE P == {i \in 0..n : f[i] = g[i]}
<1>4. 0 \in P /\ n \in 0..n
  <2>1. 0 \in 0..n
    BY <1>1
  <2> QED BY <1>1, <1>2, <1>3, <2>1 DEF Ends
<1>5. ASSUME NEW i \in 0..n, i + 1 <= n, i \in P PROVE i + 1 \in P
  <2>1. i + 1 \in 1..n /\ i + 1 - 1 = i /\ i + 1 \in 0..n
    BY <1>1, <1>5
  <2>2. f[i + 1] = Joined(f[i], s[i + 1], key) /\ g[i + 1] = Joined(g[i], t[i + 1], key)
    BY <1>1, <1>2, <1>3, <2>1 DEF Ends
  <2>3. /\ key \in DOMAIN s[i + 1] <=> key \in DOMAIN t[i + 1]
        /\ key \in DOMAIN s[i + 1] => s[i + 1][key] = t[i + 1][key]
    BY <2>1 DEF Alike
  <2>4. f[i] = g[i]
    BY <1>5
  <2>5. Joined(f[i], s[i + 1], key) = Joined(g[i], t[i + 1], key)
    BY <2>3, <2>4 DEF Joined
  <2> QED BY <2>1, <2>2, <2>5
<1>6. n \in P
  <2> HIDE DEF P, n
  <2> QED BY <1>1, <1>4, <1>5, Climbs
<1> QED BY <1>1, <1>2, <1>3, <1>6 DEF Ends

(* In a row they still do,                                                  *)
LEMMA AlikeInARow ==
  ASSUME NEW S, NEW s \in Seq(S), NEW s2 \in Seq(S), NEW t \in Seq(S), NEW t2 \in Seq(S), NEW key,
         Alike(s, s2, key), Alike(t, t2, key)
  PROVE  Alike(s \o t, s2 \o t2, key)
<1>1. PICK m \in Seq(S) : Joins(m, s, t)
  BY ConcatIs
<1>2. PICK m2 \in Seq(S) : Joins(m2, s2, t2)
  BY ConcatIs
<1>3. Len(m) \in Nat /\ Len(m2) = Len(m)
  BY <1>1, <1>2 DEF Joins, Alike
<1>4. ASSUME NEW i \in 1..Len(m)
      PROVE  /\ key \in DOMAIN m[i] <=> key \in DOMAIN m2[i]
             /\ key \in DOMAIN m[i] => m[i][key] = m2[i][key]
  <2>1. CASE i \in 1..Len(s)
    <3>1. m[i] = s[i] /\ m2[i] = s2[i]
      BY <1>1, <1>2, <2>1 DEF Joins, Alike
    <3> QED BY <2>1, <3>1 DEF Alike
  <2>2. CASE i \notin 1..Len(s)
    <3>1. i - Len(s) \in 1..Len(t) /\ i = Len(s) + (i - Len(s))
      BY <1>1, <2>2 DEF Joins
    <3>2. m[i] = t[i - Len(s)] /\ m2[i] = t2[i - Len(s)]
      BY <1>1, <1>2, <3>1 DEF Joins, Alike
    <3> QED BY <3>1, <3>2 DEF Alike
  <2> QED BY <2>1, <2>2
<1>5. Alike(m, m2, key)
  BY <1>3, <1>4 DEF Alike
<1> QED BY <1>1, <1>2, <1>5 DEF Joins

(* and reversed.                                                            *)
LEMMA AlikeTurned ==
  ASSUME NEW S, NEW s \in Seq(S), NEW t \in Seq(S), NEW key, NEW back, Alike(s, t, key)
  PROVE  Alike(Turned(back, s), Turned(back, t), key)
<1>1. PICK rs \in Seq(S) : /\ rs = Reverse(s) /\ Len(rs) = Len(s) /\ Len(s) \in Nat
                           /\ \A i \in 1..Len(s) : rs[i] = s[(Len(s) - i) + 1]
  BY ReverseIs
<1>2. PICK rt \in Seq(S) : /\ rt = Reverse(t) /\ Len(rt) = Len(t) /\ Len(t) \in Nat
                           /\ \A i \in 1..Len(t) : rt[i] = t[(Len(t) - i) + 1]
  BY ReverseIs
<1>3. ASSUME NEW i \in 1..Len(s)
      PROVE  /\ key \in DOMAIN rs[i] <=> key \in DOMAIN rt[i]
             /\ key \in DOMAIN rs[i] => rs[i][key] = rt[i][key]
  <2>1. (Len(s) - i) + 1 \in 1..Len(s) /\ Len(t) = Len(s)
    BY <1>1 DEF Alike
  <2>2. rs[i] = s[(Len(s) - i) + 1] /\ rt[i] = t[(Len(s) - i) + 1]
    BY <1>1, <1>2, <2>1
  <2> QED BY <2>1, <2>2 DEF Alike
<1>4. Alike(rs, rt, key)
  BY <1>1, <1>2, <1>3 DEF Alike
<1> QED BY <1>1, <1>2, <1>4 DEF Turned

-----------------------------------------------------------------------------
(* The request of the same token without the range.                         *)
Without(r, claim) ==
  [r EXCEPT !.subject = [name \in DOMAIN @ \ {claim} |-> r.subject[name]]]

(* Its token says nothing of the range, and of anything else what it did.   *)
LEMMA BareReads ==
  ASSUME NEW r, r = [resource |-> r.resource, action |-> r.action, subject |-> r.subject,
                     context |-> r.context],
         NEW claim, NEW name
  PROVE  LET bare == Without(r, claim)
         IN /\ bare.resource = r.resource /\ bare.action = r.action /\ bare.context = r.context
            /\ Read(bare.subject, claim) = ABSENT
            /\ name # claim => Read(bare.subject, name) = Read(r.subject, name)
<1> DEFINE bare == Without(r, claim)
           said == [x \in DOMAIN r.subject \ {claim} |-> r.subject[x]]
<1>1. DOMAIN r = {"resource", "action", "subject", "context"}
  OBVIOUS
<1>2. bare = [r EXCEPT !.subject = said]
  BY DEF Without
<1>3. /\ bare.resource = r.resource /\ bare.action = r.action /\ bare.context = r.context
      /\ bare.subject = said
  <2> HIDE DEF said, bare
  <2> QED BY <1>1, <1>2
<1>4. Read(said, claim) = ABSENT /\ (name # claim => Read(said, name) = Read(r.subject, name))
  BY DEF Read
<1> QED BY <1>3, <1>4

(* Some places of a list have a last one.                                   *)
LEMMA LastOfSome ==
  ASSUME NEW n \in Nat, NEW Q \in SUBSET (1..n), Q # {}
  PROVE  \E m \in Q : \A j \in Q : j <= m
<1> DEFINE Back == {n - i : i \in Q}
<1>1. Back \in SUBSET Nat /\ Back # {}
  <2>1. \A i \in Q : n - i \in Nat
    OBVIOUS
  <2>2. PICK i : i \in Q
    OBVIOUS
  <2> QED BY <2>1, <2>2
<1>2. Least(Back) \in Back /\ \A x \in Back : Least(Back) <= x
  <2> HIDE DEF Back
  <2> QED BY <1>1, LeastIsLeast
<1>3. PICK m \in Q : Least(Back) = n - m
  BY <1>2
<1>4. \A j \in Q : n - m <= n - j
  BY <1>2, <1>3
<1> QED BY <1>4

(* Claims that read the same are promoted alike.                            *)
LEMMA PromotedAlike ==
  ASSUME NEW mappings, Len(mappings) \in Nat, DOMAIN mappings = 1..Len(mappings),
         NEW one, NEW other,
         \A i \in DOMAIN mappings : Read(one, mappings[i].from) = Read(other, mappings[i].from)
  PROVE  promoteMappings(mappings, one) = promoteMappings(mappings, other)
<1> DEFINE Promoted(source) == {i \in DOMAIN mappings :
                                  matchesType(Read(source, mappings[i].from), mappings[i].type)}
           P == Promoted(one)
           last(key) == CHOOSE i \in P :
                          /\ Destination(mappings[i]) = key
                          /\ \A j \in P : Destination(mappings[j]) = key => j <= i
<1>1. Promoted(other) = P
  OBVIOUS
<1>2. ASSUME NEW key \in {Destination(mappings[i]) : i \in P}
      PROVE  Read(one, mappings[last(key)].from) = Read(other, mappings[last(key)].from)
  <2> DEFINE Q == {i \in P : Destination(mappings[i]) = key}
  <2>1. Q # {} /\ Q \in SUBSET (1..Len(mappings))
    BY <1>2
  <2>2. PICK m \in Q : \A j \in Q : j <= m
    <3> HIDE DEF Q
    <3> QED BY <2>1, LastOfSome
  <2>3. \E i \in P : /\ Destination(mappings[i]) = key
                     /\ \A j \in P : Destination(mappings[j]) = key => j <= i
    BY <2>2
  <2>4. last(key) \in P
    <3> HIDE DEF P
    <3> QED BY <2>3
  <2> HIDE DEF last
  <2> QED BY <2>4
<1>3. promoteMappings(mappings, one)
        = [key \in {Destination(mappings[i]) : i \in P} |-> Read(one, mappings[last(key)].from)]
  BY DEF promoteMappings
<1>4. promoteMappings(mappings, other)
        = [key \in {Destination(mappings[i]) : i \in P} |-> Read(other, mappings[last(key)].from)]
  <2>1. promoteMappings(mappings, other)
          = LET Q == Promoted(other)
                latest(key) == CHOOSE i \in Q :
                                 /\ Destination(mappings[i]) = key
                                 /\ \A j \in Q : Destination(mappings[j]) = key => j <= i
            IN [key \in {Destination(mappings[i]) : i \in Q} |-> Read(other, mappings[latest(key)].from)]
    BY DEF promoteMappings
  <2> HIDE DEF P, Promoted
  <2> QED BY <1>1, <2>1, Zenon
<1> HIDE DEF P, last
<1> QED BY <1>2, <1>3, <1>4

(* What the range's claim does not reach: the engine's collectors and what  *)
(* is declared.                                                             *)
LEMMA BareMaps ==
  ASSUME NEW d, RangeApart(d), Len(d.fromClaims) \in Nat, DOMAIN d.fromClaims = 1..Len(d.fromClaims),
         NEW r, r = [resource |-> r.resource, action |-> r.action, subject |-> r.subject,
                     context |-> r.context]
  PROVE  LET bare == Without(r, d.range.claim)
         IN /\ CoreMaps(d, bare) = CoreMaps(d, r) /\ ClaimMaps(d, bare) = ClaimMaps(d, r)
            /\ ContextMaps(d, bare) = ContextMaps(d, r)
<1> DEFINE bare == Without(r, d.range.claim)
<1>1. /\ bare.context = r.context
      /\ \A name : name # d.range.claim => Read(bare.subject, name) = Read(r.subject, name)
  <2>1. ASSUME NEW name
        PROVE  bare.context = r.context
               /\ (name # d.range.claim => Read(bare.subject, name) = Read(r.subject, name))
    BY BareReads
  <2> HIDE DEF bare
  <2> QED BY <2>1
<1> HIDE DEF bare
<1>2. /\ d.scopeClaim # d.range.claim /\ Text("sub") # d.range.claim
      /\ Text("client_id") # d.range.claim /\ Text("azp") # d.range.claim
  BY DEF RangeApart
<1>3. PayloadScopeCollector(bare.subject, d.scopeClaim) = PayloadScopeCollector(r.subject, d.scopeClaim)
  <2>1. Read(bare.subject, d.scopeClaim) = Read(r.subject, d.scopeClaim)
    BY <1>1, <1>2
  <2> QED BY <2>1 DEF PayloadScopeCollector
<1>4. PayloadSubjectIdCollector(bare.subject) = PayloadSubjectIdCollector(r.subject)
  <2>1. Read(bare.subject, Text("sub")) = Read(r.subject, Text("sub"))
        /\ clientOf(bare.subject) = clientOf(r.subject)
    BY <1>1, <1>2 DEF clientOf
  <2> QED BY <2>1 DEF PayloadSubjectIdCollector
<1>5. promoteMappings(d.fromClaims, bare.subject) = promoteMappings(d.fromClaims, r.subject)
  <2>1. \A i \in DOMAIN d.fromClaims :
          Read(bare.subject, d.fromClaims[i].from) = Read(r.subject, d.fromClaims[i].from)
    BY <1>1 DEF RangeApart
  <2> QED BY <2>1, PromotedAlike
<1>6. CoreMaps(d, bare) = CoreMaps(d, r)
  BY <1>3, <1>4 DEF CoreMaps
<1>7. ClaimMaps(d, bare) = ClaimMaps(d, r)
  BY <1>5 DEF ClaimMaps
<1>8. ContextMaps(d, bare) = ContextMaps(d, r)
  BY <1>1 DEF ContextMaps
<1> QED BY <1>6, <1>7, <1>8 DEF bare

(* A list over some maps is one over more.                                  *)
LEMMA SeqsGrow ==
  ASSUME NEW S, NEW T, S \subseteq T, NEW s \in Seq(S)
  PROVE  s \in Seq(T)
<1>1. Len(s) \in Nat /\ s \in [1..Len(s) -> T]
  OBVIOUS
<1> QED BY <1>1

(* A list is like itself.                                                   *)
LEMMA AlikeItself ==
  ASSUME NEW S, NEW s \in Seq(S), NEW key
  PROVE  Alike(s, s, key)
BY DEF Alike

(* What the packages' collectors write but the range stands.                *)
LEMMA BareOwned ==
  ASSUME NEW d, d.range # ABSENT, NEW r, NEW bare, bare.action = r.action, NEW resource,
         NEW key, key # ATTR_DELEGATION_RANGE
  PROVE  Alike(OwnedMaps(d, r, resource), OwnedMaps(d, bare, resource), key)
<1> DEFINE one == DelegationRangeCollector(r.subject, d.range)
           other == DelegationRangeCollector(bare.subject, d.range)
           facts == RequestFactsCollector(resource, r.action)
           factses == If(d.facts, facts)
           S == {one, other, facts}
<1>1. key \notin DOMAIN one /\ key \notin DOMAIN other
  BY DEF DelegationRangeCollector
<1>2. one \in S /\ other \in S /\ facts \in S
  OBVIOUS
<1>3. OwnedMaps(d, r, resource) = <<one>> \o factses /\ OwnedMaps(d, bare, resource) = <<other>> \o factses
  BY DEF OwnedMaps, If
<1> HIDE DEF one, other, facts, S
<1>4. factses \in Seq(S)
  BY <1>2, IfIsAList, Zenon
<1>5. Alike(factses, factses, key)
  BY <1>4, AlikeItself, Zenon
<1> HIDE DEF factses
<1>6. PICK h \in Seq(S) : h = <<one>> /\ Len(h) = 1 /\ h[1] = one
  BY <1>2, OneAtom, Zenon
<1>7. PICK k \in Seq(S) : k = <<other>> /\ Len(k) = 1 /\ k[1] = other
  BY <1>2, OneAtom, Zenon
<1>8. Alike(h, k, key)
  BY <1>1, <1>6, <1>7 DEF Alike
<1>9. Alike(h \o factses, k \o factses, key)
  BY <1>4, <1>5, <1>8, AlikeInARow
<1> QED BY <1>3, <1>6, <1>7, <1>9

(* Without the range the attributes are the same but for it.                *)
LEMMA BareAttributes ==
  ASSUME NEW d, RangeApart(d), Len(d.fromClaims) \in Nat, DOMAIN d.fromClaims = 1..Len(d.fromClaims),
         d.range # ABSENT,
         NEW r, r = [resource |-> r.resource, action |-> r.action, subject |-> r.subject,
                     context |-> r.context],
         NEW resource, NEW key, key # ATTR_DELEGATION_RANGE
  PROVE  Read(merge(Maps(d, Without(r, d.range.claim), resource)), key)
           = Read(merge(Maps(d, r, resource)), key)
<1> DEFINE bare == Without(r, d.range.claim)
           core == CoreMaps(d, r)
           owned == OwnedMaps(d, r, resource)
           spared == OwnedMaps(d, bare, resource)
           claims == ClaimMaps(d, r)
           context == ContextMaps(d, r)
<1>1. CoreMaps(d, bare) = core /\ ClaimMaps(d, bare) = claims /\ ContextMaps(d, bare) = context
  BY BareMaps
<1>2. bare.action = r.action
  BY BareReads
<1> HIDE DEF bare
<1>3. Maps(d, r, resource) = Turned(d.reversed, core \o owned \o claims \o context)
  BY MapsAre
<1>4. Maps(d, bare, resource) = Turned(d.reversed, core \o spared \o claims \o context)
  BY <1>1, MapsAre
<1>5. Alike(owned, spared, key)
  BY <1>2, BareOwned
<1>6. PICK S : core \in Seq(S) /\ owned \in Seq(S) /\ claims \in Seq(S) /\ context \in Seq(S)
  BY MapsAre DEF Collected
<1>7. PICK S2 : spared \in Seq(S2)
  BY MapsAre DEF Collected
<1> HIDE DEF core, owned, spared, claims, context
<1> DEFINE T == S \cup S2
<1>8. S \subseteq T /\ S2 \subseteq T
  OBVIOUS
<1> HIDE DEF T
<1>9. core \in Seq(T) /\ owned \in Seq(T) /\ claims \in Seq(T) /\ context \in Seq(T) /\ spared \in Seq(T)
  BY <1>6, <1>7, <1>8, SeqsGrow
<1>10. Alike(core, core, key) /\ Alike(claims, claims, key) /\ Alike(context, context, key)
  BY <1>9, AlikeItself
<1> DEFINE two == core \o owned
           two2 == core \o spared
           three == two \o claims
           three2 == two2 \o claims
           all == three \o context
           all2 == three2 \o context
<1>11. two \in Seq(T) /\ two2 \in Seq(T) /\ Alike(two, two2, key)
  BY <1>5, <1>9, <1>10, ConcatIsAList, AlikeInARow
<1>12. three \in Seq(T) /\ three2 \in Seq(T) /\ Alike(three, three2, key)
  <2> HIDE DEF two, two2
  <2> QED BY <1>9, <1>10, <1>11, ConcatIsAList, AlikeInARow
<1>13. all \in Seq(T) /\ all2 \in Seq(T) /\ Alike(all, all2, key)
  <2> HIDE DEF three, three2
  <2> QED BY <1>9, <1>10, <1>12, ConcatIsAList, AlikeInARow
<1>14. Maps(d, r, resource) = Turned(d.reversed, all) /\ Maps(d, bare, resource) = Turned(d.reversed, all2)
  BY <1>3, <1>4
<1> HIDE DEF all, all2
<1>15. Alike(Turned(d.reversed, all), Turned(d.reversed, all2), key)
  BY <1>13, AlikeTurned
<1>16. MergedValue(Maps(d, r, resource), key) = MergedValue(Maps(d, bare, resource), key)
  BY <1>14, <1>15, AlikeMerge
<1>17. /\ Read(merge(Maps(d, r, resource)), key) = MergedValue(Maps(d, r, resource), key)
       /\ Read(merge(Maps(d, bare, resource)), key) = MergedValue(Maps(d, bare, resource), key)
  BY MapsMerge
<1> QED BY <1>16, <1>17 DEF bare

-----------------------------------------------------------------------------
(* Attributes alike but for the range, which is a list.                     *)
AlikeButRange(attrs, other) ==
  /\ \A key : key # ATTR_DELEGATION_RANGE => Read(attrs, key) = Read(other, key)
  /\ Read(attrs, ATTR_DELEGATION_RANGE) # ABSENT /\ Read(attrs, ATTR_DELEGATION_RANGE).kind = "list"

(* No attribute rule holds of a list, so what holds with the range holds    *)
(* without it.                                                              *)
LEMMA AttrHoldsWithoutRange ==
  ASSUME NEW s, Configured(s), Constructs(s), NEW attrs, NEW other, AlikeButRange(attrs, other),
         AttrHolds(s, attrs)
  PROVE  AttrHolds(s, other)
<1> DEFINE x == Read(attrs, s.a)
           y == Read(attrs, s.b)
           x2 == Read(other, s.a)
           y2 == Read(other, s.b)
<1>1. (x = x2 \/ x.kind = "list") /\ (y = y2 \/ y.kind = "list")
  BY DEF AlikeButRange
<1>2. s.rule \in PairRules \/ s.rule \in LiteralRules
  BY DEF Configured
<1> HIDE DEF x, y, x2, y2
<1>3. CASE s.rule \in LiteralRules
  <2>1. /\ Value(s) \in s.values /\ \A v \in s.values : v.kind \in {"string", "number", "boolean"}
    BY <1>3, LiteralsAre
  <2>2. s.rule \in {"attr_literal_equal", "attr_literal_not_equal", "attr_literal_compare",
                    "attr_literal_in", "attr_literal_not_in"}
    BY <1>3 DEF LiteralRules, SetRules
  <2>3. x.kind # "list"
    <3>1. x \in s.values => x.kind # "list"
      BY <2>1
    <3>2. OfTheirKind(s, x) => x.kind # "list"
      BY <2>1 DEF OfTheirKind
    <3>3. IsNumber(x) => x.kind # "list"
      BY DEF IsNumber
    <3>4. x \in s.values \/ OfTheirKind(s, x) \/ IsNumber(x)
      BY <2>2 DEF AttrHolds, AttrLiteralEqual, AttrLiteralNotEqual, AttrLiteralIn,
                  AttrLiteralNotIn, AttrLiteralCompare, x
    <3> QED BY <3>1, <3>2, <3>3, <3>4
  <2> QED BY <1>1, <2>2, <2>3 DEF AttrHolds, x, x2
<1>4. CASE s.rule \in PairRules
  <2>1. s.rule \in {"attr_pair_equal", "attr_pair_not_equal", "attr_pair_compare", "attr_match"}
    BY <1>4 DEF PairRules
  <2>2. x.kind # "list" /\ y.kind # "list"
    <3>1. (NonEmpty(x) /\ NonEmpty(y)) \/ (IsNumber(x) /\ IsNumber(y))
      BY <2>1 DEF AttrHolds, AttrPairEqual, AttrPairNotEqual, AttrPairCompare, x, y
    <3> QED BY <3>1 DEF NonEmpty, IsNumber
  <2> QED BY <1>1, <2>1, <2>2 DEF AttrHolds, x, x2, y, y2
<1> QED BY <1>2, <1>3, <1>4

(* The same goes for every rule but the range's.                            *)
LEMMA HoldsWithoutRange ==
  ASSUME NEW d, \A s \in ToSet(d.attrRules) : Configured(s) /\ Constructs(s),
         NEW r, NEW resource, NEW attrs, NEW other, AlikeButRange(attrs, other),
         NEW y \in ScopeRules(d, r, resource) \cup PermissionRules(d, r) \cup AttrRules(d),
         verify(y, attrs)
  PROVE  verify(y, other)
<1>1. \A key \in {ATTR_SCOPES, ATTR_PERMISSIONS, ATTR_ROLES} : Entries(attrs, key) = Entries(other, key)
  <2>1. \A a, b : Text(a) = Text(b) => a = b
    BY DEF Text
  <2>2. "delegationRange" \notin {"scopes", "permissions", "roles"}
    OBVIOUS
  <2>3. ATTR_DELEGATION_RANGE \notin {ATTR_SCOPES, ATTR_PERMISSIONS, ATTR_ROLES}
    BY <2>1, <2>2 DEF ATTR_DELEGATION_RANGE, ATTR_SCOPES, ATTR_PERMISSIONS, ATTR_ROLES
  <2> QED BY <2>3 DEF Entries, AlikeButRange
<1>2. \A z : ToSet(<<z>>) = {z} /\ ToSet(<<>>) = {}
  BY OneOrNone
<1>3. CASE y \in ScopeRules(d, r, resource)
  <2>1. y.rule = "scope"
    BY <1>2, <1>3 DEF ScopeRules, ResourceActionScopeRuleCollector, HasScope
  <2> QED BY <1>1, <2>1 DEF verify, HasScopeHolds
<1>4. CASE y \in PermissionRules(d, r)
  <2>1. y.rule = "permission"
    BY <1>2, <1>4 DEF PermissionRules, ResourceActionPermissionRuleCollector, HasPermission
  <2> QED BY <1>1, <2>1 DEF verify, HasPermissionHolds
<1>5. CASE y \in AttrRules(d)
  <2>1. PICK s \in ToSet(d.attrRules) : y = AttrRule(s)
    BY <1>5 DEF AttrRules, ToSet
  <2>2. y.rule = s.rule /\ y.of = s /\ s.rule \notin {"scope", "permission", "delegation_range"}
    BY <2>1 DEF AttrRule, Configured, PairRules, LiteralRules, SetRules
  <2>3. AttrHolds(s, attrs)
    BY <2>2 DEF verify
  <2>4. AttrHolds(s, other)
    BY <2>3, AttrHoldsWithoutRange
  <2> QED BY <2>2, <2>4 DEF verify
<1> QED BY <1>3, <1>4, <1>5

(* The rules of the request without the range are the others.               *)
LEMMA BareRules ==
  ASSUME NEW d, RangeApart(d), d.range # ABSENT, d.ruleRange = d.range,
         NEW r, r = [resource |-> r.resource, action |-> r.action, subject |-> r.subject,
                     context |-> r.context],
         NEW resource
  PROVE  RuleSet(d, Without(r, d.range.claim), resource)
           = ScopeRules(d, r, resource) \cup PermissionRules(d, r) \cup AttrRules(d)
<1> DEFINE bare == Without(r, d.range.claim)
<1>1. bare.resource = r.resource /\ bare.action = r.action
      /\ Read(bare.subject, d.range.claim) = ABSENT
  BY BareReads
<1>2. d.scoped # ABSENT => Read(bare.subject, d.scoped.claim) = Read(r.subject, d.scoped.claim)
  BY BareReads DEF RangeApart
<1> HIDE DEF bare
<1>3. ScopeRules(d, bare, resource) = ScopeRules(d, r, resource)
  <2>1. CASE d.scoped = ABSENT
    BY <2>1 DEF ScopeRules
  <2>2. CASE d.scoped # ABSENT
    BY <1>1, <1>2, <2>2 DEF ScopeRules, ResourceActionScopeRuleCollector
  <2> QED BY <2>1, <2>2
<1>4. PermissionRules(d, bare) = PermissionRules(d, r)
  BY <1>1 DEF PermissionRules
<1>5. RangeRules(d, bare) = {}
  <2>1. entriesOfType(Read(bare.subject, d.range.claim), d.range.type) = {}
    BY <1>1 DEF entriesOfType
  <2>2. DelegationRangeRuleCollector(bare.subject, bare.resource, bare.action, d.ruleRange) = <<>>
    BY <2>1 DEF DelegationRangeRuleCollector
  <2> QED BY <2>2, OneOrNone DEF RangeRules
<1>6. RuleSet(d, bare, resource)
        = ScopeRules(d, r, resource) \cup PermissionRules(d, r) \cup {} \cup AttrRules(d)
  BY <1>3, <1>4, <1>5 DEF RuleSet
<1> QED BY <1>6 DEF bare

(* What is granted with the range would be without it: no rule for the      *)
(* range stands in for another.                                             *)
LEMMA BareIsGranted ==
  ASSUME NEW d, \A s \in ToSet(d.attrRules) : Configured(s) /\ Constructs(s),
         RangeApart(d), d.range # ABSENT, d.ruleRange = d.range,
         NEW r, r = [resource |-> r.resource, action |-> r.action, subject |-> r.subject,
                     context |-> r.context],
         NEW resource, NEW attrs, NEW other, AlikeButRange(attrs, other),
         NEW empty, Granted(d, r, resource, attrs, empty)
  PROVE  SetAllows(RuleSet(d, Without(r, d.range.claim), resource), other, empty)
<1> DEFINE others == ScopeRules(d, r, resource) \cup PermissionRules(d, r) \cup AttrRules(d)
           all == RuleSet(d, r, resource)
<1>1. all = others \cup RangeRules(d, r)
  BY DEF RuleSet
<1>2. \A x \in others : ~x.restricts
  BY RulesRestrict
<1>3. \A x \in RangeRules(d, r) : x.restricts
  BY RulesRestrict DEF WithinDelegationRange
<1>4. Unmixed(all) /\ SetAllows(all, attrs, empty)
  BY DEF Granted
<1>5. RuleSet(d, Without(r, d.range.claim), resource) = others
  BY BareRules
<1>6. \A y \in others : verify(y, attrs) => verify(y, other)
  BY HoldsWithoutRange
<1> HIDE DEF others, all
<1>7. empty = "allow" \/ \E x \in others : ~x.restricts
  BY <1>1, <1>3, <1>4 DEF SetAllows
<1>8. ASSUME NEW x \in others
      PROVE  \E y \in others : x.type = y.type /\ verify(y, other)
  <2>1. PICK y \in all : x.type = y.type /\ verify(y, attrs)
    BY <1>1, <1>4 DEF SetAllows
  <2>2. ~y.restricts
    BY <1>1, <1>2, <1>4, <2>1 DEF Unmixed
  <2>3. y \in others
    BY <1>1, <1>3, <2>1, <2>2
  <2> QED BY <1>6, <2>1, <2>3
<1> QED BY <1>5, <1>7, <1>8 DEF SetAllows

(* What the requests' assumption says of one.                               *)
LEMMA RequestsAre ==
  ASSUME NEW r \in Requests, NEW claim
  PROVE  /\ r = [resource |-> r.resource, action |-> r.action, subject |-> r.subject,
                 context |-> r.context]
         /\ r.resource \in Seq(STRING) /\ r.action \in Seq(STRING)
         /\ Read(r.subject, claim) # ABSENT /\ Read(r.subject, claim).kind = "list" =>
              Len(Read(r.subject, claim).items) \in Nat
<1>1. Read(r.subject, claim) # ABSENT =>
        claim \in DOMAIN r.subject /\ Read(r.subject, claim) = r.subject[claim]
  BY DEF Read
<1>2. ASSUME claim \in DOMAIN r.subject, IsList(r.subject[claim])
      PROVE  Len(r.subject[claim].items) \in Nat
  BY <1>2, RequestsAssumption
<1>3. /\ r = [resource |-> r.resource, action |-> r.action, subject |-> r.subject,
              context |-> r.context]
      /\ r.resource \in Seq(STRING) /\ r.action \in Seq(STRING)
  BY RequestsAssumption
<1> QED BY <1>1, <1>2, <1>3 DEF IsList

(* The attributes without the range are the decision's but for its key.     *)
LEMMA AttributesButRange ==
  ASSUME Vouching, stage = "collected", deployment \in Deployments,
         deployment.range # ABSENT, RangeApart(deployment),
         Read(attributes, ATTR_DELEGATION_RANGE) # ABSENT,
         Read(attributes, ATTR_DELEGATION_RANGE).kind = "list"
  PROVE  AlikeButRange(attributes,
           merge(Maps(deployment, Without(request, deployment.range.claim), Resource)))
<1> DEFINE d == deployment
           bare == merge(Maps(d, Without(request, d.range.claim), Resource))
<1>1. attributes = merge(Maps(d, request, Resource)) /\ request \in Requests
  BY DEF Vouching
<1>2. request = [resource |-> request.resource, action |-> request.action,
                 subject |-> request.subject, context |-> request.context]
  BY <1>1, RequestsAssumption
<1>3. Len(d.fromClaims) \in Nat /\ DOMAIN d.fromClaims = 1..Len(d.fromClaims)
  BY DeploymentsAssumption
<1>4. ASSUME NEW key, key # ATTR_DELEGATION_RANGE
      PROVE  Read(bare, key) = Read(attributes, key)
  <2>1. Read(bare, key) = Read(merge(Maps(d, request, Resource)), key)
    BY <1>2, <1>3, <1>4, BareAttributes
  <2> QED BY <1>1, <2>1
<1> HIDE DEF bare
<1>5. AlikeButRange(attributes, bare)
  BY <1>4 DEF AlikeButRange
<1> QED BY <1>5 DEF bare

(* A delegation only narrows: what a token that carries a range is allowed, *)
(* an entry of the range covers, element by element, and the same token     *)
(* without the range would be allowed it too, where nothing but the range's *)
(* collectors reads its claim (DelegationRangeCollector,                    *)
(* WithinDelegationRange, evaluateRules' refusal of a mixed group).         *)
THEOREM DelegationNarrowsHolds == PolicySpec => []DelegationNarrows
<1>1. PolicyInit => Answered /\ Ruled /\ Vouching /\ Reserving
  <2>1. PolicyInit => Answered /\ Ruled /\ Vouching
    BY DEF PolicyInit, Answered, Ruled, Vouching, Reserved
  <2>2. PolicyInit => Reserving
    BY DEF PolicyInit, Reserving
  <2> QED BY <2>1, <2>2
<1>2. PolicyInv /\ Answered /\ Ruled /\ Vouching /\ Reserving /\ [PolicyNext]_policyVars
        => Answered' /\ Ruled' /\ Vouching' /\ Reserving'
  BY AnsweredKept, RuledKept, VouchingKept, ReservingKept
<1>3. PolicyInv /\ Answered /\ Ruled /\ Vouching /\ Reserving => DelegationNarrows
  <2> DEFINE d == deployment
             range == deployment.range
             claim == Read(request.subject, range.claim)
             bare == Without(request, range.claim)
             spared == merge(Maps(d, bare, Resource))
  <2> SUFFICES ASSUME PolicyInv, Answered, Ruled, Vouching, Reserving,
                      stage = "collected", Allowed, range # ABSENT, range = d.ruleRange,
                      RangeApart(d), Delegated(claim, range.type)
               PROVE  /\ claim.kind = "list"
                      /\ \E i \in DOMAIN claim.items :
                           LET path == claim.items[i].items[1]
                           IN claim.items[i].text = range.type /\ NonEmpty(path) /\ Covers(path.text)
                      /\ WouldAllow(RulesFor(d, bare, Resource), spared, onEmpty)
    BY DEF DelegationNarrows, Without
  <2>1. /\ d \in Deployments /\ \A i \in DOMAIN d.attrRules : Constructs(d.attrRules[i])
        /\ Granted(d, request, Resource, attributes, onEmpty)
    BY AllowedIsGranted
  <2>2. request \in Requests
    BY DEF Vouching
  <2>3. /\ request = [resource |-> request.resource, action |-> request.action,
                      subject |-> request.subject, context |-> request.context]
        /\ request.resource \in Seq(STRING) /\ request.action \in Seq(STRING)
        /\ claim # ABSENT /\ claim.kind = "list" => Len(claim.items) \in Nat
    BY <2>2, RequestsAre
  <2>4. Ranges(d, request) # {}
    BY DelegatedHasRange DEF Ranges
  <2>5. Read(attributes, ATTR_DELEGATION_RANGE) = RangeOf(d, request)
    BY <2>1, <2>4, RangeIsTheTokens
  <2>6. Read(attributes, ATTR_DELEGATION_RANGE) # ABSENT
    BY <2>1, <2>4, <2>5, GrantedIsContained
  <2>7. /\ claim.kind = "list"
        /\ \E i \in DOMAIN claim.items :
             LET path == claim.items[i].items[1]
             IN claim.items[i].text = range.type /\ NonEmpty(path) /\ Covers(path.text)
    <3>1. /\ claim.kind = "list"
          /\ \E i \in DOMAIN claim.items :
               /\ claim.items[i].text = range.type /\ NonEmpty(claim.items[i].items[1])
               /\ CoversPath(claim.items[i].items[1].text,
                             Append(Elements(request.resource), <<request.action>>))
      BY <2>1, <2>3, <2>4, <2>5, GrantedIsCovered
    <3>2. \A entry : CoversPath(entry, Append(Elements(request.resource), <<request.action>>))
                       => Covers(entry)
      BY DEF CoversPath, Covers, Asked
    <3> HIDE DEF claim, range
    <3> QED BY <3>1, <3>2
  <2>8. WouldAllow(RulesFor(d, bare, Resource), spared, onEmpty)
    <3>1. Read(attributes, ATTR_DELEGATION_RANGE).kind = "list"
      BY <2>5 DEF RangeOf, List
    <3>2. AlikeButRange(attributes, spared)
      BY <2>1, <2>6, <3>1, AttributesButRange
    <3>3. PICK n \in Nat : DOMAIN d.attrRules = 1..n
      BY <2>1, RulesConfigured
    <3>4. \A s \in ToSet(d.attrRules) : Configured(s) /\ Constructs(s)
      BY <2>1, RulesConfigured
    <3> HIDE DEF spared
    <3>5. SetAllows(RuleSet(d, bare, Resource), spared, onEmpty)
      BY <2>1, <2>3, <3>2, <3>4, BareIsGranted
    <3>6. ToSet(RulesFor(d, bare, Resource)) = RuleSet(d, bare, Resource)
      BY <3>3, RulesAre
    <3> QED BY <3>5, <3>6, AllowsAsASet
  <2> QED BY <2>7, <2>8
<1> QED BY <1>1, <1>2, <1>3, PolicyInvariance, PTL DEF PolicySpec

=============================================================================
