-------------------------- MODULE RulePhaseProofs --------------------------
(***************************************************************************)
(* Proofs about RulePhase for rule lists of any length over any types, any *)
(* budgets and any clock.  Nothing below depends on the types being those  *)
(* of Types, or on MaxRules, so that it also holds of rules collected by   *)
(* another module (PolicyDecision).                                        *)
(***************************************************************************)
EXTENDS RulePhase, FiniteSetTheorems, TLAPS

Outcomes == {NONE, "pass", "fail"}
Phases == {"collecting", "start", "asking", "awaiting", "decided", "thrown"}

Listed == \E n \in Nat : Indices = 1..n

RulesTyped ==
  /\ Listed
  /\ ran \in [Indices -> Outcomes]
  /\ onEmpty \in {"deny", "allow"}
  /\ phase \in Phases
  /\ at \in Indices \cup {0} /\ blamed \in Indices \cup {0}
  /\ now \in Nat /\ began \in Nat /\ due \in Nat
  /\ caller \in BOOLEAN
  /\ doubted \subseteq Indices
  /\ thrown \in Throws \cup {NONE}

(* Something was thrown exactly in the phase of that name; before the phase *)
(* begins nothing was asked.                                                *)
Unbegun == at = 0 /\ doubted = {} /\ \A i \in Indices : ran[i] = NONE

Staged ==
  /\ phase = "thrown" <=> thrown # NONE
  /\ phase \in {"collecting", "start"} => Unbegun

(* The timer of the rule in flight is due when its budget, or what the      *)
(* phase had left as it started, is spent.                                  *)
Budgeted ==
  /\ phase = "awaiting" =>
       /\ began < Deadline
       /\ due = began + (IF PhaseBinds(Deadline - began) THEN Deadline - began ELSE RuleTimeout)
  /\ BudgetsTripWhenSpent

(* A group that was gone through: an alternative passed, or each failed.    *)
Closed(i) == GroupPassed(i) \/ \A j \in GroupOf(i) : ran[j] = "fail"

(* Where the evaluation stands: the groups before the one of the rule asked *)
(* are closed, its alternatives before it failed, and nothing else was      *)
(* asked.                                                                   *)
AskedSoFar(i) ==
  /\ FirstOf(i) < FirstOf(at) => Closed(i)
  /\ FirstOf(i) > FirstOf(at) => ran[i] = NONE
  /\ FirstOf(i) = FirstOf(at) => ran[i] = IF i < at THEN "fail" ELSE NONE

Standing ==
  /\ phase \in {"asking", "awaiting"} =>
       /\ at # 0 /\ Mixed = {} /\ ~NoApplicableRule
       /\ \A i \in Indices : AskedSoFar(i)
  /\ phase = "decided" =>
       \/ NoApplicableRule /\ \A i \in Indices : ran[i] = NONE
       \/ ~NoApplicableRule /\ Mixed = {} /\ \A i \in Indices : Closed(i)

(* A rule in doubt failed, or its answer was thrown.                        *)
DoubtsEnd ==
  \A i \in doubted : ran[i] = "fail" \/ (ran[i] = NONE /\ phase = "thrown")

RuleInv ==
  RulesTyped /\ Staged /\ Budgeted /\ Standing /\ DoubtsEnd /\ ThrowsBlameTheRuleAsked

-----------------------------------------------------------------------------
(* A set of naturals has a least element: of the initial segments its       *)
(* elements end, one contains no other.                                     *)
LEMMA LeastIsLeast ==
  ASSUME NEW S \in SUBSET Nat, S # {}
  PROVE  Least(S) \in S /\ \A x \in S : Least(S) <= x
<1> DEFINE Segments == {1..m : m \in S}
           Smaller == StrictSubsetOrdering(Nat)
<1>1. Segments \subseteq FiniteSubsetsOf(Nat) /\ Segments # {}
  <2>1. ASSUME NEW m \in S PROVE 1..m \in FiniteSubsetsOf(Nat)
    BY FS_Interval DEF FiniteSubsetsOf
  <2> QED BY <2>1
<1>2. PICK A \in Segments : \A B \in Segments : ~(<<B, A>> \in Smaller)
  <2>1. IsWellFoundedOn(Smaller, FiniteSubsetsOf(Nat))
    BY FS_StrictSubsetOrderingWellFounded
  <2> HIDE DEF Smaller, Segments
  <2> QED BY <1>1, <2>1, WFMin
<1>3. PICK m \in S : A = 1..m
  BY <1>2
<1>4. ASSUME NEW x \in S, x < m PROVE FALSE
  <2>1. 1..x \in Segments /\ 1..x \in SUBSET Nat /\ 1..m \in SUBSET Nat
    BY <1>4
  <2>2. 1..x \subseteq 1..m /\ m \in 1..m /\ m \notin 1..x
    BY <1>4
  <2>3. <<1..x, 1..m>> \in Smaller
    BY <2>1, <2>2 DEF StrictSubsetOrdering
  <2> QED BY <1>2, <1>3, <2>1, <2>3
<1>5. \A x \in S : m <= x
  BY <1>4
<1> QED BY <1>3, <1>5 DEF Least

(* Least of a set of indices is 0 exactly for the empty one.                *)
LEMMA LeastOrZero ==
  ASSUME NEW S \in SUBSET (Nat \ {0})
  PROVE  Least(S) \in S \cup {0} /\ (Least(S) = 0 <=> S = {})
<1>1. CASE S = {}
  BY <1>1 DEF Least
<1>2. CASE S # {}
  BY <1>2, LeastIsLeast
<1> QED BY <1>1, <1>2

(* A group is led by its first rule, and told apart from the others by it.  *)
LEMMA GroupsLed ==
  ASSUME Listed, NEW i \in Indices
  PROVE  /\ i \in GroupOf(i) /\ FirstOf(i) \in GroupOf(i) /\ GroupOf(i) \subseteq Indices
         /\ \A j \in GroupOf(i) : FirstOf(i) <= j /\ GroupOf(j) = GroupOf(i) /\ FirstOf(j) = FirstOf(i)
         /\ \A j \in Indices : FirstOf(j) = FirstOf(i) => j \in GroupOf(i)
<1>1. /\ GroupOf(i) \in SUBSET Nat /\ i \in GroupOf(i)
  BY DEF Listed, GroupOf
<1>2. FirstOf(i) \in GroupOf(i) /\ \A j \in GroupOf(i) : FirstOf(i) <= j
  BY <1>1, LeastIsLeast DEF FirstOf
<1>3. \A j \in GroupOf(i) : GroupOf(j) = GroupOf(i) /\ FirstOf(j) = FirstOf(i)
  BY DEF GroupOf, FirstOf
<1>4. ASSUME NEW j \in Indices, FirstOf(j) = FirstOf(i)
      PROVE  j \in GroupOf(i)
  <2>1. GroupOf(j) \in SUBSET Nat /\ j \in GroupOf(j)
    BY DEF Listed, GroupOf
  <2>2. FirstOf(j) \in GroupOf(j)
    BY <2>1, LeastIsLeast DEF FirstOf
  <2> QED BY <1>2, <1>4, <2>2 DEF GroupOf
<1>5. GroupOf(i) \subseteq Indices
  BY DEF GroupOf
<1> QED BY <1>1, <1>2, <1>3, <1>4, <1>5

(* The first rules of the groups lead themselves, and every rule is led by  *)
(* one of them.                                                             *)
LEMMA FirstsAreFirst ==
  ASSUME Listed
  PROVE  /\ Firsts \subseteq Indices /\ Indices \in SUBSET (Nat \ {0})
         /\ \A f \in Firsts : FirstOf(f) = f
         /\ \A i \in Indices : FirstOf(i) \in Firsts
<1>1. Indices \in SUBSET (Nat \ {0})
  BY DEF Listed
<1>2. ASSUME NEW i \in Indices
      PROVE  FirstOf(i) \in Indices /\ FirstOf(FirstOf(i)) = FirstOf(i)
  BY GroupsLed
<1> QED BY <1>1, <1>2 DEF Firsts

(* The group asked after the one of a rule is the first behind it.          *)
LEMMA NextGroupIsNext ==
  ASSUME Listed, NEW i \in Indices
  PROVE  LET g == NextGroup(i) IN
         /\ g \in Firsts \cup {0}
         /\ g = 0 => \A j \in Indices : FirstOf(j) <= FirstOf(i)
         /\ g # 0 => /\ FirstOf(g) = g /\ g > FirstOf(i)
                     /\ \A j \in Indices : FirstOf(j) > FirstOf(i) => g <= FirstOf(j)
<1> DEFINE Behind == {f \in Firsts : f > FirstOf(i)}
<1>1. Behind \in SUBSET (Nat \ {0}) /\ NextGroup(i) = Least(Behind)
  BY FirstsAreFirst DEF NextGroup
<1>2. \A j \in Indices : FirstOf(j) \in Nat /\ (FirstOf(j) > FirstOf(i) => FirstOf(j) \in Behind)
  BY FirstsAreFirst
<1>3. CASE Behind = {}
  BY <1>1, <1>2, <1>3 DEF Least
<1>4. CASE Behind # {}
  <2>1. Least(Behind) \in Behind /\ \A f \in Behind : Least(Behind) <= f
    BY <1>1, <1>4, LeastIsLeast
  <2> QED BY <1>1, <1>2, <2>1, FirstsAreFirst
<1> QED BY <1>3, <1>4

-----------------------------------------------------------------------------
(* While the list stands its groups do.                                     *)
LEMMA SameRules ==
  ASSUME UNCHANGED rules
  PROVE  /\ Indices' = Indices /\ Firsts' = Firsts /\ Mixed' = Mixed
         /\ Granting' = Granting /\ Listed' = Listed
         /\ \A i : GroupOf(i)' = GroupOf(i) /\ FirstOf(i)' = FirstOf(i)
<1>1. Indices' = Indices
  BY DEF Indices
<1>2. \A i : GroupOf(i)' = GroupOf(i)
  BY <1>1 DEF GroupOf
<1>3. \A i : FirstOf(i)' = FirstOf(i)
  BY <1>2 DEF FirstOf
<1>4. Firsts' = Firsts
  BY <1>1, <1>3 DEF Firsts
<1>5. Mixed' = Mixed
  BY <1>2, <1>4 DEF Mixed
<1> QED BY <1>1, <1>2, <1>3, <1>4, <1>5 DEF Granting, Listed

(* A phase begins as the list demands, and nothing was asked before.        *)
LEMMA BeginKeeps ==
  ASSUME RuleInv, Begin
  PROVE  RuleInv'
<1>1. /\ Listed /\ UNCHANGED rules /\ Unbegun /\ thrown = NONE
      /\ Listed' /\ Indices' = Indices
  BY SameRules DEF RuleInv, RulesTyped, Staged, Begin, RulePhaseAssumption
<1>2. Least(Indices) \in Indices \cup {0} /\ (Least(Indices) = 0 <=> Indices = {})
  BY <1>1, FirstsAreFirst, LeastOrZero
<1>3. Mixed \subseteq Indices /\ Least(Mixed) \in Mixed \cup {0} /\ (Mixed # {} => Least(Mixed) \in Mixed)
  <2>1. Mixed \in SUBSET (Nat \ {0}) /\ Mixed \subseteq Indices
    BY <1>1, FirstsAreFirst DEF Mixed
  <2> QED BY <2>1, LeastOrZero
<1>4. RulesTyped'
  BY <1>1, <1>2, <1>3 DEF RuleInv, RulesTyped, Begin, Throw, Phases, Throws
<1>5. Staged'
  BY <1>1, RulePhaseAssumption DEF RuleInv, Staged, Begin, Throw, Unbegun, Throws
<1>6. Budgeted'
  BY <1>1, RulePhaseAssumption DEF RuleInv, Budgeted, BudgetsTripWhenSpent, Begin, Throw
<1>7. Standing'
  <2>1. CASE Mixed # {}
    BY <2>1 DEF Begin, Throw, Standing
  <2>2. CASE Mixed = {} /\ NoApplicableRule
    <3>1. phase' = "decided" /\ NoApplicableRule'
      BY <1>1, <2>2, SameRules DEF Begin, NoApplicableRule
    <3> QED BY <1>1, <3>1 DEF Standing, Begin, Unbegun
  <2>3. CASE Mixed = {} /\ ~NoApplicableRule
    <3>1. /\ Mixed' = {} /\ ~NoApplicableRule' /\ at' = Least(Indices)
          /\ \A i \in Indices : ran'[i] = NONE
      BY <1>1, <2>3, SameRules DEF Begin, NoApplicableRule, Unbegun
    <3>2. CASE Indices = {}
      BY <1>1, <2>3, <3>1, <3>2 DEF Begin, Standing
    <3>3. CASE Indices # {}
      <4>1. /\ at' \in Indices /\ \A i \in Indices : at' <= i
        BY <1>1, <3>1, <3>3, FirstsAreFirst, LeastIsLeast
      <4>2. \A i \in Indices : FirstOf(i) \in Indices /\ at' <= FirstOf(i)
        BY <1>1, <4>1, FirstsAreFirst
      <4>3. FirstOf(at') = at'
        BY <1>1, <4>1, <4>2, GroupsLed, FirstsAreFirst
      <4>4. \A i \in Indices : AskedSoFar(i)'
        <5> SUFFICES ASSUME NEW i \in Indices PROVE AskedSoFar(i)'
          OBVIOUS
        <5>1. FirstOf(i)' = FirstOf(i) /\ FirstOf(at)' = at'
          BY <1>1, <4>3, SameRules DEF FirstOf, GroupOf
        <5>2. ran'[i] = NONE /\ FirstOf(i) \in Nat /\ at' \in Nat /\ i \in Nat /\ ~(i < at')
          BY <1>1, <3>1, <4>1, FirstsAreFirst
        <5> QED BY <4>2, <5>1, <5>2 DEF AskedSoFar
      <4> QED BY <1>1, <2>3, <3>1, <3>3, <4>1, <4>4, FirstsAreFirst DEF Begin, Standing
    <3> QED BY <3>2, <3>3
  <2> QED BY <2>1, <2>2, <2>3
<1>8. DoubtsEnd'
  BY <1>1 DEF Begin, DoubtsEnd, Unbegun
<1>9. ThrowsBlameTheRuleAsked'
  <2>1. CASE Mixed # {}
    <3>1. phase' = "thrown" /\ thrown' = "mixed" /\ blamed' \in Mixed
      BY <1>3, <2>1 DEF Begin, Throw
    <3>2. \A i \in Indices' : ran'[i] = NONE
      BY <1>1 DEF Begin, Unbegun
    <3> QED BY <1>1, <3>1, <3>2, SameRules DEF ThrowsBlameTheRuleAsked
  <2>2. CASE Mixed = {}
    BY <2>2 DEF Begin, ThrowsBlameTheRuleAsked
  <2> QED BY <2>1, <2>2
<1> QED BY <1>4, <1>5, <1>6, <1>7, <1>8, <1>9 DEF RuleInv

-----------------------------------------------------------------------------
(* The rule asked next: in the same group what is left of it, else the      *)
(* first rule of the next group; none, and no group is left.                *)
LEMMA NextRuleIsNext ==
  ASSUME Listed, NEW i \in Indices, NEW passed \in BOOLEAN
  PROVE  LET n == NextRule(i, passed)
             rest == {j \in GroupOf(i) : j > i}
         IN /\ n \in Indices \cup {0}
            /\ ~passed /\ rest # {} => n \in rest /\ \A j \in rest : n <= j
            /\ passed \/ rest = {} => n = NextGroup(i)
<1> DEFINE rest == {j \in GroupOf(i) : j > i}
<1>1. rest \in SUBSET Nat /\ rest \subseteq Indices
  BY FirstsAreFirst, GroupsLed
<1>2. CASE ~passed /\ rest # {}
  BY <1>1, <1>2, LeastIsLeast DEF NextRule
<1>3. CASE passed \/ rest = {}
  BY <1>3, NextGroupIsNext, FirstsAreFirst DEF NextRule
<1> QED BY <1>2, <1>3

(* An outcome leaves every group the evaluation has gone through closed.    *)
LEMMA OutcomeStands ==
  ASSUME RulesTyped, Standing, phase \in {"asking", "awaiting"},
         NEW passed \in BOOLEAN, Outcome(passed), UNCHANGED <<rules, onEmpty>>
  PROVE  Standing'
<1> DEFINE outcome == IF passed THEN "pass" ELSE "fail"
           rest == {j \in GroupOf(at) : j > at}
<1>1. /\ Listed /\ Indices' = Indices /\ at \in Indices /\ Mixed' = {}
      /\ ~NoApplicableRule' /\ ~NoApplicableRule /\ Mixed = {}
  BY SameRules DEF RulesTyped, Standing, NoApplicableRule
<1>2. \A i \in Indices : AskedSoFar(i)
  BY DEF Standing
<1>3. /\ \A i : GroupOf(i)' = GroupOf(i) /\ FirstOf(i)' = FirstOf(i)
      /\ FirstOf(at)' = FirstOf(at')
  BY SameRules DEF FirstOf, GroupOf
<1>4. /\ \A i \in Indices : ran'[i] = IF i = at THEN outcome ELSE ran[i]
      /\ at' = NextRule(at, passed)
      /\ phase' = IF at' = 0 THEN "decided" ELSE "asking"
  BY <1>1 DEF Outcome, RulesTyped
<1>5. /\ at' \in Indices \cup {0}
      /\ ~passed /\ rest # {} => at' \in rest /\ \A j \in rest : at' <= j
      /\ passed \/ rest = {} => at' = NextGroup(at)
  BY <1>1, <1>4, NextRuleIsNext
<1>6. \A i \in Indices : FirstOf(i) \in Nat /\ i \in Nat /\ i # 0
  BY <1>1, FirstsAreFirst
(* A group closed before stays closed: the rule asked is in none of them.   *)
<1>7. ASSUME NEW i \in Indices, FirstOf(i) < FirstOf(at)
      PROVE  Closed(i)'
  <2>1. Closed(i)
    BY <1>1, <1>2, <1>7 DEF AskedSoFar
  <2>2. at \notin GroupOf(i) /\ GroupOf(i) \subseteq Indices
    BY <1>1, <1>6, <1>7, GroupsLed
  <2>3. \A j \in GroupOf(i) : ran'[j] = ran[j]
    BY <1>4, <2>2
  <2> QED BY <1>3, <2>1, <2>3 DEF Closed, GroupPassed
(* The group of the rule asked is closed if it is left.                     *)
<1>8. ASSUME NEW i \in Indices, FirstOf(i) = FirstOf(at), passed \/ rest = {}
      PROVE  Closed(i)'
  <2>1. GroupOf(i) = GroupOf(at) /\ at \in GroupOf(at) /\ GroupOf(at) \subseteq Indices
    BY <1>1, <1>8, GroupsLed
  <2>2. CASE passed
    <3>1. ran'[at] = "pass"
      BY <1>1, <1>4, <2>2
    <3> QED BY <1>3, <2>1, <3>1 DEF Closed, GroupPassed
  <2>3. CASE ~passed
    <3>1. ASSUME NEW j \in GroupOf(i) PROVE ran'[j] = "fail"
      <4>1. j \in Indices /\ FirstOf(j) = FirstOf(at) /\ ~(j > at)
        BY <1>1, <1>8, <2>1, <2>3, GroupsLed
      <4>2. AskedSoFar(j)
        BY <1>2, <4>1
      <4>3. CASE j = at
        BY <1>4, <2>3, <4>1, <4>3
      <4>4. CASE j # at
        BY <1>4, <1>6, <1>1, <4>1, <4>2, <4>4 DEF AskedSoFar
      <4> QED BY <4>3, <4>4
    <3> QED BY <1>3, <3>1 DEF Closed, GroupPassed
  <2> QED BY <2>2, <2>3
<1>9. CASE ~passed /\ rest # {}
  <2>1. /\ at' \in rest /\ at' \in Indices /\ at' # 0 /\ FirstOf(at') = FirstOf(at) /\ at' > at
        /\ phase' = "asking" /\ outcome = "fail"
    BY <1>1, <1>4, <1>5, <1>6, <1>9, GroupsLed
  <2>2. ASSUME NEW i \in Indices PROVE AskedSoFar(i)'
    <3>1. CASE FirstOf(i) < FirstOf(at)
      BY <1>3, <1>6, <1>7, <2>1, <3>1 DEF AskedSoFar
    <3>2. CASE FirstOf(i) > FirstOf(at)
      <4>1. ran'[i] = NONE
        BY <1>1, <1>2, <1>4, <1>6, <3>2 DEF AskedSoFar
      <4> QED BY <1>1, <1>3, <1>6, <2>1, <3>2, <4>1 DEF AskedSoFar
    <3>3. CASE FirstOf(i) = FirstOf(at)
      <4>1. i \in GroupOf(at)
        BY <1>1, <3>3, GroupsLed
      <4>2. ran[i] = IF i < at THEN "fail" ELSE NONE
        BY <1>2, <3>3 DEF AskedSoFar
      <4>3. i > at => at' <= i
        BY <1>5, <1>9, <4>1
      <4>4. ran'[i] = IF i < at' THEN "fail" ELSE NONE
        BY <1>1, <1>4, <1>6, <2>1, <4>2, <4>3
      <4> QED BY <1>1, <1>3, <1>6, <2>1, <3>3, <4>4 DEF AskedSoFar
    <3> QED BY <1>1, <1>6, <3>1, <3>2, <3>3
  <2> QED BY <1>1, <2>1, <2>2 DEF Standing
<1>10. CASE (passed \/ rest = {}) /\ NextGroup(at) # 0
  <2>1. /\ at' \in Indices /\ at' # 0 /\ FirstOf(at') = at' /\ at' > FirstOf(at)
        /\ phase' = "asking"
        /\ \A j \in Indices : FirstOf(j) > FirstOf(at) => at' <= FirstOf(j)
    BY <1>1, <1>4, <1>5, <1>10, NextGroupIsNext
  <2>2. ASSUME NEW i \in Indices PROVE AskedSoFar(i)'
    <3>1. CASE FirstOf(i) <= FirstOf(at)
      <4>1. Closed(i)'
        BY <1>1, <1>6, <1>7, <1>8, <1>10, <3>1
      <4> QED BY <1>1, <1>3, <1>6, <2>1, <3>1, <4>1 DEF AskedSoFar
    <3>2. CASE FirstOf(i) > FirstOf(at)
      <4>1. ran'[i] = NONE /\ at' <= FirstOf(i)
        BY <1>1, <1>2, <1>4, <1>6, <2>1, <3>2 DEF AskedSoFar
      <4>2. FirstOf(i) <= i
        BY <1>1, GroupsLed
      <4> QED BY <1>1, <1>3, <1>6, <2>1, <4>1, <4>2 DEF AskedSoFar
    <3> QED BY <1>1, <1>6, <3>1, <3>2
  <2> QED BY <1>1, <2>1, <2>2 DEF Standing
<1>11. CASE (passed \/ rest = {}) /\ NextGroup(at) = 0
  <2>1. at' = 0 /\ phase' = "decided" /\ \A j \in Indices : FirstOf(j) <= FirstOf(at)
    BY <1>1, <1>4, <1>5, <1>11, NextGroupIsNext
  <2>2. \A i \in Indices : Closed(i)'
    BY <1>1, <1>6, <1>7, <1>8, <1>11, <2>1
  <2> QED BY <1>1, <2>1, <2>2 DEF Standing
<1> QED BY <1>9, <1>10, <1>11

(* A rule settles: its error is thrown for it, or its outcome stands.       *)
LEMMA SettleKeeps ==
  ASSUME RuleInv, phase \in {"asking", "awaiting"},
         NEW answer \in AnswerKinds, NEW report \in ReportKinds, Settle(answer, report),
         UNCHANGED <<rules, onEmpty, now, began, due, caller>>
  PROVE  RuleInv'
<1> DEFINE verdict == Concludes(answer, report)
<1>1. /\ Listed' /\ Indices' = Indices /\ at \in Indices /\ thrown = NONE /\ ran[at] = NONE
      /\ phase' \in {"thrown", "decided", "asking"}
  <2>1. Listed /\ at \in Indices /\ phase # "thrown" /\ AskedSoFar(at)
    BY DEF RuleInv, RulesTyped, Standing
  <2>2. Listed' /\ Indices' = Indices
    BY <2>1, SameRules
  <2>3. ran[at] = NONE
    BY <2>1 DEF AskedSoFar, Listed
  <2>4. phase' \in {"thrown", "decided", "asking"}
    BY DEF Settle, Throw, Outcome
  <2> QED BY <2>1, <2>2, <2>3, <2>4 DEF RuleInv, Staged
<1>2. CASE verdict = "error"
  <2>1. /\ phase' = "thrown" /\ thrown' = "error" /\ blamed' = at /\ at' = at /\ ran' = ran
        /\ doubted' \subseteq doubted \cup {at}
    BY <1>2 DEF Settle, Throw
  <2>2. RulesTyped'
    BY <1>1, <2>1 DEF RuleInv, RulesTyped, Phases, Throws
  <2>3. Staged' /\ Standing'
    BY <2>1, RulePhaseAssumption DEF Staged, Standing, Throws
  <2>4. Budgeted'
    BY <2>1 DEF RuleInv, Budgeted, BudgetsTripWhenSpent
  <2>5. DoubtsEnd'
    BY <1>1, <2>1 DEF RuleInv, DoubtsEnd
  <2>6. ThrowsBlameTheRuleAsked'
    BY <1>1, <2>1 DEF ThrowsBlameTheRuleAsked
  <2> QED BY <2>2, <2>3, <2>4, <2>5, <2>6 DEF RuleInv
<1>3. CASE verdict # "error"
  <2>1. PICK passed \in BOOLEAN : passed = (verdict = "pass") /\ Outcome(passed)
    BY <1>3 DEF Settle
  <2>2. /\ thrown' = thrown /\ blamed' = blamed /\ phase' \in {"decided", "asking"}
        /\ at' \in Indices \cup {0} /\ ran' \in [Indices -> Outcomes]
        /\ \A i \in Indices : ran'[i] = IF i = at THEN (IF passed THEN "pass" ELSE "fail") ELSE ran[i]
    BY <1>1, <2>1, NextRuleIsNext DEF Outcome, RuleInv, RulesTyped, Outcomes
  <2>3. /\ doubted' \subseteq Indices
        /\ passed => doubted' = doubted
        /\ doubted' \subseteq doubted \cup {at}
    <3>1. passed => Proves(answer, report)
      BY <1>3, <2>1 DEF Concludes, Proves
    <3> QED BY <1>1, <3>1 DEF Settle, RuleInv, RulesTyped
  <2>4. RulesTyped'
    BY <1>1, <2>2, <2>3 DEF RuleInv, RulesTyped, Phases
  <2>5. Staged'
    BY <1>1, <2>2 DEF Staged
  <2>6. Budgeted'
    BY <1>1, <2>2, RulePhaseAssumption DEF RuleInv, Budgeted, BudgetsTripWhenSpent, Throws
  <2>7. Standing'
    BY <2>1, OutcomeStands DEF RuleInv
  <2>8. DoubtsEnd'
    <3> SUFFICES ASSUME NEW i \in doubted' PROVE ran'[i] = "fail"
      BY DEF DoubtsEnd
    <3>1. CASE i = at
      <4>1. ~passed
        BY <1>1, <2>3, <3>1, RulePhaseAssumption DEF RuleInv, DoubtsEnd
      <4> QED BY <1>1, <2>2, <3>1, <4>1
    <3>2. CASE i # at
      BY <1>1, <2>2, <2>3, <3>2 DEF RuleInv, DoubtsEnd, RulesTyped
    <3> QED BY <3>1, <3>2
  <2>9. ThrowsBlameTheRuleAsked'
    BY <2>2 DEF ThrowsBlameTheRuleAsked
  <2> QED BY <2>4, <2>5, <2>6, <2>7, <2>8, <2>9 DEF RuleInv
<1> QED BY <1>2, <1>3

(* What stands goes on standing while no outcome is added.                  *)
LEMMA SameStanding ==
  ASSUME Standing, UNCHANGED <<rules, onEmpty, at, ran>>,
         phase' = phase \/ phase' = "thrown" \/ (phase = "asking" /\ phase' = "awaiting")
  PROVE  Standing'
<1>1. Indices' = Indices /\ Mixed' = Mixed /\ NoApplicableRule' = NoApplicableRule
  BY SameRules DEF NoApplicableRule
<1>2. \A i : AskedSoFar(i)' = AskedSoFar(i) /\ Closed(i)' = Closed(i)
  BY DEF AskedSoFar, Closed, GroupPassed, FirstOf, GroupOf, Indices
<1> QED BY <1>1, <1>2 DEF Standing

(* The caller's steps, the clock's and the timers' ask nothing.             *)
LEMMA StartAsyncKeeps ==
  ASSUME RuleInv, StartAsync
  PROVE  RuleInv'
<1>1. /\ Listed' /\ Indices' = Indices /\ at \in Indices /\ thrown = NONE /\ ran[at] = NONE
      /\ phase = "asking"
  <2>1. Listed /\ at \in Indices /\ phase = "asking" /\ AskedSoFar(at)
    BY DEF RuleInv, RulesTyped, Standing, StartAsync
  <2>2. Listed' /\ Indices' = Indices
    BY <2>1, SameRules DEF StartAsync
  <2> QED BY <2>1, <2>2 DEF RuleInv, Staged, AskedSoFar, Listed
<1>2. Standing'
  BY <1>1, SameStanding DEF RuleInv, StartAsync, Throw
<1>3. DoubtsEnd'
  BY DEF RuleInv, DoubtsEnd, StartAsync
<1>4. CASE phase' = "thrown"
  <2>1. /\ blamed' = IF caller THEN 0 ELSE at
        /\ thrown' = IF caller THEN "caller" ELSE "timeout_deadline"
        /\ ~caller => now >= Deadline
        /\ UNCHANGED <<rules, onEmpty, doubted, at, ran, now, caller, began, due>>
    BY <1>4, RulePhaseAssumption DEF StartAsync, Throw, Remaining, RuleInv, RulesTyped
  <2>2. RulesTyped'
    BY <1>1, <1>4, <2>1 DEF RuleInv, RulesTyped, Phases, Throws
  <2>3. Staged' /\ Budgeted'
    BY <1>4, <2>1, RulePhaseAssumption DEF RuleInv, Staged, Budgeted, BudgetsTripWhenSpent, Throws
  <2>4. ThrowsBlameTheRuleAsked'
    BY <1>1, <1>4, <2>1 DEF ThrowsBlameTheRuleAsked
  <2> QED BY <1>2, <1>3, <2>2, <2>3, <2>4 DEF RuleInv
<1>5. CASE phase' = "awaiting"
  <2>1. /\ ~caller /\ Deadline - now > 0 /\ began' = now
        /\ due' = now + (IF PhaseBinds(Deadline - now) THEN Deadline - now ELSE RuleTimeout)
        /\ UNCHANGED <<rules, onEmpty, doubted, at, ran, now, caller, thrown, blamed>>
    BY <1>5 DEF StartAsync, Throw, Remaining
  <2>2. now \in Nat /\ due' \in Nat /\ due' <= Deadline /\ due' - began' <= RuleTimeout
    BY <2>1, RulePhaseAssumption DEF RuleInv, RulesTyped, PhaseBinds
  <2>3. RulesTyped'
    BY <1>1, <1>5, <2>1, <2>2 DEF RuleInv, RulesTyped, Phases
  <2>4. Staged'
    BY <1>1, <1>5, <2>1 DEF Staged
  <2>5. Budgeted'
    BY <1>1, <1>5, <2>1, <2>2, RulePhaseAssumption
       DEF RuleInv, RulesTyped, Budgeted, BudgetsTripWhenSpent, PhaseBinds, Throws
  <2>6. ThrowsBlameTheRuleAsked'
    BY <1>5, <2>1 DEF ThrowsBlameTheRuleAsked
  <2> QED BY <1>2, <1>3, <2>3, <2>4, <2>5, <2>6 DEF RuleInv
<1> QED BY <1>4, <1>5 DEF StartAsync, Throw

(* A timer that fires rejects what it bounds and keeps the invariant.       *)
LEMMA TimerKeeps ==
  ASSUME RuleInv, TimerFires
  PROVE  RuleInv'
<1>1. /\ Listed' /\ Indices' = Indices /\ at \in Indices /\ ran[at] = NONE
      /\ phase = "awaiting" /\ phase' = "thrown" /\ blamed' = at
      /\ thrown' = IF PhaseBinds(Deadline - began) THEN "timeout_deadline" ELSE "timeout_rule"
  <2>1. Listed /\ at \in Indices /\ AskedSoFar(at)
    BY DEF RuleInv, RulesTyped, Standing, TimerFires
  <2>2. Listed' /\ Indices' = Indices
    BY <2>1, SameRules DEF TimerFires
  <2> QED BY <2>1, <2>2 DEF AskedSoFar, Listed, TimerFires, Throw
<1>2. RulesTyped'
  BY <1>1 DEF RuleInv, RulesTyped, TimerFires, Phases, Throws
<1>3. Staged' /\ DoubtsEnd'
  BY <1>1, RulePhaseAssumption DEF RuleInv, Staged, DoubtsEnd, TimerFires, Throws
<1>4. Standing'
  BY <1>1, SameStanding DEF RuleInv, TimerFires
<1>5. Budgeted'
  BY <1>1, RulePhaseAssumption
     DEF RuleInv, RulesTyped, Budgeted, BudgetsTripWhenSpent, PhaseBinds, TimerFires
<1>6. ThrowsBlameTheRuleAsked'
  BY <1>1 DEF ThrowsBlameTheRuleAsked, TimerFires
<1> QED BY <1>2, <1>3, <1>4, <1>5, <1>6 DEF RuleInv

(* The caller's leaving rejects the rule in flight and keeps the invariant. *)
LEMMA CallerKeeps ==
  ASSUME RuleInv, CallerAborts
  PROVE  RuleInv'
<1>1. Listed' /\ Indices' = Indices /\ Mixed' = Mixed
  BY SameRules DEF RuleInv, RulesTyped, CallerAborts
<1>2. RulesTyped'
  BY <1>1 DEF RuleInv, RulesTyped, CallerAborts, Throw, Phases, Throws
<1>3. Staged' /\ DoubtsEnd'
  BY <1>1, RulePhaseAssumption
     DEF RuleInv, Staged, Unbegun, DoubtsEnd, CallerAborts, Throw, Throws
<1>4. Standing'
  BY SameStanding DEF RuleInv, CallerAborts, Throw
<1>5. Budgeted'
  BY RulePhaseAssumption
     DEF RuleInv, Staged, Budgeted, BudgetsTripWhenSpent, CallerAborts, Throw, Throws
<1>6. ThrowsBlameTheRuleAsked'
  BY <1>1 DEF RuleInv, ThrowsBlameTheRuleAsked, CallerAborts, Throw
<1> QED BY <1>2, <1>3, <1>4, <1>5, <1>6 DEF RuleInv

(* Time that passes keeps the invariant: what is spent only grows.          *)
LEMMA TickKeeps ==
  ASSUME RuleInv, Tick
  PROVE  RuleInv'
<1>1. Listed' /\ Indices' = Indices /\ Mixed' = Mixed
  BY SameRules DEF RuleInv, RulesTyped, Tick
<1>2. RulesTyped' /\ Staged' /\ DoubtsEnd'
  BY <1>1 DEF RuleInv, RulesTyped, Staged, Unbegun, DoubtsEnd, Tick
<1>3. Standing'
  BY SameStanding DEF RuleInv, Tick
<1>4. Budgeted'
  BY RulePhaseAssumption DEF RuleInv, RulesTyped, Staged, Budgeted, BudgetsTripWhenSpent, Tick
<1>5. ThrowsBlameTheRuleAsked'
  BY <1>1 DEF RuleInv, ThrowsBlameTheRuleAsked, Tick
<1> QED BY <1>2, <1>3, <1>4, <1>5 DEF RuleInv

(* A step that leaves the phase alone.                                      *)
LEMMA StutterKeeps ==
  ASSUME RuleInv, UNCHANGED vars
  PROVE  RuleInv'
<1>1. Listed' /\ Indices' = Indices /\ Mixed' = Mixed
  BY SameRules DEF RuleInv, RulesTyped, vars
<1>2. Standing'
  BY SameStanding DEF RuleInv, vars
<1> QED BY <1>1, <1>2 DEF RuleInv, RulesTyped, Staged, Unbegun, Budgeted, BudgetsTripWhenSpent,
           DoubtsEnd, ThrowsBlameTheRuleAsked, vars

(* Each step keeps the invariant.                                           *)
LEMMA NextKeeps ==
  ASSUME RuleInv, Next
  PROVE  RuleInv'
<1>1. CASE Begin
  BY <1>1, BeginKeeps
<1>2. CASE AskSync
  BY <1>2, SettleKeeps DEF AskSync
<1>3. CASE StartAsync
  BY <1>3, StartAsyncKeeps
<1>4. CASE AsyncSettles
  BY <1>4, SettleKeeps DEF AsyncSettles
<1>5. CASE TimerFires
  BY <1>5, TimerKeeps
<1>6. CASE CallerAborts
  BY <1>6, CallerKeeps
<1>7. CASE Tick
  BY <1>7, TickKeeps
<1> QED BY <1>1, <1>2, <1>3, <1>4, <1>5, <1>6, <1>7 DEF Next

(* A phase over a list of rules starts as it should.                        *)
LEMMA StartKeeps ==
  ASSUME NEW list, NEW empty \in {"deny", "allow"}, NEW where \in {"collecting", "start"},
         NEW n \in Nat, DOMAIN list = 1..n, Starts(list, empty, where)
  PROVE  RuleInv
<1>1. Listed /\ ran = [i \in Indices |-> NONE]
  BY DEF Starts, Listed, Indices
<1>2. RulesTyped
  BY <1>1 DEF RulesTyped, Starts, Outcomes, Phases
<1>3. Staged /\ Standing /\ DoubtsEnd /\ ThrowsBlameTheRuleAsked
  BY <1>1 DEF Starts, Staged, Unbegun, Standing, DoubtsEnd, ThrowsBlameTheRuleAsked
<1>4. Budgeted
  BY RulePhaseAssumption DEF Starts, Budgeted, BudgetsTripWhenSpent, Throws
<1> QED BY <1>2, <1>3, <1>4 DEF RuleInv

(* So does one over any list of rules of the types there are.              *)
LEMMA InitKeeps == ASSUME Init PROVE RuleInv
<1>1. PICK list \in RuleLists, empty \in {"deny", "allow"} : Starts(list, empty, "start")
  BY DEF Init
<1>2. PICK n \in Nat : list \in [1..n -> Rule]
  BY RulePhaseAssumption DEF RuleLists
<1> QED BY <1>1, <1>2, StartKeeps

-----------------------------------------------------------------------------
(* What the invariant says of a phase that is over.                         *)
LEMMA RuleInvDecides ==
  ASSUME RuleInv
  PROVE  DecisionMeansAndOfOrs
<1> SUFFICES ASSUME phase = "decided" PROVE DecisionMeansAndOfOrs
  BY DEF DecisionMeansAndOfOrs
<1> DEFINE failed == {f \in Firsts : ~GroupPassed(f)}
<1>1. Listed /\ failed \in SUBSET (Nat \ {0}) /\ DenyingRule = Least(failed)
  BY FirstsAreFirst DEF RuleInv, RulesTyped, DenyingRule
<1>2. CASE NoApplicableRule
  BY <1>2 DEF RuleInv, Standing, DecisionMeansAndOfOrs, Allowed
<1>3. CASE ~NoApplicableRule
  <2>1. Mixed = {} /\ \A i \in Indices : Closed(i)
    BY <1>3 DEF RuleInv, Standing
  <2>2. \A i \in Indices : /\ FirstOf(i) \in Firsts /\ FirstOf(i) <= i /\ i \in Nat
                           /\ FirstOf(i) \in Nat
                           /\ GroupPassed(FirstOf(i)) => \E j \in GroupOf(i) : ran[j] = "pass"
    BY <1>1, FirstsAreFirst, GroupsLed DEF GroupPassed
  <2>3. CASE failed = {}
    <3>1. DenyingRule = 0 /\ Allowed
      BY <1>1, <1>3, <2>3, LeastOrZero DEF Allowed
    <3>2. \A i \in Indices : \E j \in GroupOf(i) : ran[j] = "pass"
      BY <2>2, <2>3
    <3>3. ASSUME onEmpty = "deny"
          PROVE  \E j \in Indices : ~rules[j].restricts /\ ran[j] = "pass"
      <4>1. PICK i \in Indices : ~rules[i].restricts
        BY <1>3, <3>3 DEF NoApplicableRule, Granting
      <4>2. PICK j \in GroupOf(i) : ran[j] = "pass"
        BY <3>2
      <4>3. i \in GroupOf(FirstOf(i)) /\ j \in GroupOf(FirstOf(i)) /\ j \in Indices
        BY <1>1, GroupsLed
      <4>4. ~rules[j].restricts
        BY <2>1, <2>2, <4>1, <4>3 DEF Mixed
      <4> QED BY <4>2, <4>3, <4>4
    <3> QED BY <3>1, <3>2, <3>3 DEF DecisionMeansAndOfOrs
  <2>4. CASE failed # {}
    <3>1. DenyingRule \in failed /\ \A f \in failed : DenyingRule <= f
      BY <1>1, <2>4, LeastIsLeast
    <3>2. DenyingRule \in Indices /\ DenyingRule \in Nat \ {0} /\ FirstOf(DenyingRule) = DenyingRule
      BY <1>1, <3>1, FirstsAreFirst
    <3>3. \A j \in GroupOf(DenyingRule) : ran[j] = "fail" /\ j >= DenyingRule
      BY <1>1, <2>1, <3>1, <3>2, GroupsLed, FirstsAreFirst DEF Closed
    <3>4. ASSUME NEW i \in 1..(DenyingRule - 1)
          PROVE  \E j \in GroupOf(i) : ran[j] = "pass"
      <4>1. i \in Indices /\ i < DenyingRule
        BY <1>1, <3>2 DEF Listed
      <4>2. FirstOf(i) \notin failed
        BY <2>2, <3>1, <3>2, <4>1
      <4> QED BY <2>2, <4>1, <4>2
    <3> QED BY <3>2, <3>3, <3>4 DEF DecisionMeansAndOfOrs, Allowed
  <2> QED BY <2>3, <2>4
<1> QED BY <1>2, <1>3

(* The invariant implies three of the phase's safety properties.            *)
LEMMA RuleInvProves ==
  ASSUME RuleInv
  PROVE  PassesAreProven /\ BudgetsTripWhenSpent /\ ThrowsBlameTheRuleAsked
BY RulePhaseAssumption DEF RuleInv, DoubtsEnd, PassesAreProven, Budgeted

-----------------------------------------------------------------------------
(* Every rule phase, over any list of rules, keeps the invariant.           *)
THEOREM RuleInvariance == Spec => []RuleInv
<1>1. Init => RuleInv
  BY InitKeeps
<1>2. RuleInv /\ [Next]_vars => RuleInv'
  BY NextKeeps, StutterKeeps
<1> QED BY <1>1, <1>2, PTL DEF Spec

(* Every variable of a rule phase keeps its type; the rule asked, the rule  *)
(* blamed and the rules in doubt are rules of the list (evaluate).          *)
THEOREM RulesTypedHolds == Spec => []RulesTyped
<1>1. RuleInv => RulesTyped
  BY DEF RuleInv
<1> QED BY <1>1, RuleInvariance, PTL

(* A decision is the AND over the groups of the ORs within them, a deny     *)
(* named after the first group that failed (evaluate, conclude).            *)
THEOREM DecisionMeansAndOfOrsHolds == Spec => []DecisionMeansAndOfOrs
BY RuleInvariance, RuleInvDecides, PTL

(* A budget that tripped was spent, and is named for what spent it          *)
(* (runAsyncRule).                                                          *)
THEOREM BudgetsTripWhenSpentHolds == Spec => []BudgetsTripWhenSpent
BY RuleInvariance, RuleInvProves, PTL

(* What evaluate throws is recorded for the rule asked last, the caller's   *)
(* reason for nobody (runAsyncRule, evaluate).                              *)
THEOREM ThrowsBlameTheRuleAskedHolds == Spec => []ThrowsBlameTheRuleAsked
BY RuleInvariance, RuleInvProves, PTL

(* No rule whose answer was doubted passed (conclude).                      *)
THEOREM PassesAreProvenHolds == Spec => []PassesAreProven
BY RuleInvariance, RuleInvProves, PTL

=============================================================================
