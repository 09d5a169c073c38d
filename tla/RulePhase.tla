----------------------------- MODULE RulePhase -----------------------------
(***************************************************************************)
(* One call of evaluate (packages/core/src/evaluate.mts): the collected    *)
(* rules asked one at a time, group by group, synchronous ones through     *)
(* verify and asynchronous ones through decide, each of those under the    *)
(* shorter of its own budget and what is left of the phase.                *)
(*                                                                         *)
(* A rule is known by its place in the list.  What it answers and reports  *)
(* is chosen when it settles; the clock is advanced between any two steps, *)
(* since a rule takes time, and a timer fires at its time or later.        *)
(***************************************************************************)
EXTENDS Integers, Sequences

CONSTANTS
  Types,        \* ruleType values
  MaxRules,     \* bound on the length of the rule list
  RuleTimeout,  \* ruleTimeoutMs, in ticks
  Deadline,     \* evaluateDeadlineMs, in ticks: the phase starts at 0
  MaxTime,      \* bound on the clock
  NONE

Rule == [type : Types, async : BOOLEAN, restricts : BOOLEAN]
RuleLists == UNION {[1..n -> Rule] : n \in 0..MaxRules}

\* What evaluate throws: a rule's own error (or one evaluate raised for it),
\* a budget naming the limit that tripped, the caller's reason, a mixed group.
Throws == {"error", "timeout_rule", "timeout_deadline", "caller", "mixed"}

ASSUME RulePhaseAssumption ==
  /\ MaxRules \in Nat
  /\ RuleTimeout \in Nat \ {0} /\ Deadline \in Nat \ {0}
  /\ MaxTime \in Nat /\ MaxTime >= Deadline
  /\ NONE \notin Throws \cup {"pass", "fail"}

VARIABLES
  rules,   \* the list of rules collected
  onEmpty, \* options.onEmptyRuleSet
  phase,   \* "start", "asking", "awaiting", "decided" or "thrown"; "collecting"
           \* before it, where a module says how the rules are collected
  at,      \* the rule asked now, 0 before the first and after the last
  ran,     \* rule -> "pass" or "fail" once it was evaluated
  now,     \* performance.now(), from the start of the phase
  began,   \* when the asynchronous rule in flight was started
  due,     \* when its timer is due
  caller,  \* the caller's signal has aborted
  doubted, \* history: rules that answered without proof of an evaluation
  thrown,  \* what evaluate threw, or NONE
  blamed   \* the rule the thrown value was recorded for, or 0

vars == <<rules, onEmpty, phase, at, ran, now, began, due, caller, doubted,
          thrown, blamed>>

Indices == DOMAIN rules

(* A phase over the rules of a list, which may not have been collected yet. *)
Starts(list, empty, where) ==
  /\ rules = list
  /\ onEmpty = empty
  /\ phase = where
  /\ at = 0
  /\ ran = [i \in DOMAIN list |-> NONE]
  /\ now = 0 /\ began = 0 /\ due = 0
  /\ caller = FALSE
  /\ doubted = {}
  /\ thrown = NONE
  /\ blamed = 0

Init ==
  \E list \in RuleLists, empty \in {"deny", "allow"} : Starts(list, empty, "start")

-----------------------------------------------------------------------------
(* Groups: Map.groupBy keeps the order in which each ruleType first appears *)
(* and, within one, the order of collection.                                *)
Least(S) == IF S = {} THEN 0 ELSE CHOOSE m \in S : \A x \in S : m <= x
GroupOf(i) == {j \in Indices : rules[j].type = rules[i].type}
FirstOf(i) == Least(GroupOf(i))
Firsts == {FirstOf(i) : i \in Indices}

(* The rule asked after rule i: the next alternative of its group, or the   *)
(* first rule of the next group once the group has passed or run out.       *)
NextGroup(i) == Least({f \in Firsts : f > FirstOf(i)})
NextRule(i, passed) ==
  LET alternatives == {j \in GroupOf(i) : j > i}
  IN IF passed \/ alternatives = {} THEN NextGroup(i) ELSE Least(alternatives)

(* restrictingGroups: the groups that mix both kinds; whether any grants.   *)
Mixed == {f \in Firsts : \E i, j \in GroupOf(f) :
                           rules[i].restricts /\ ~rules[j].restricts}
Granting == \E i \in Indices : ~rules[i].restricts

(* conclude: the first rule of the first group that did not pass stands for *)
(* a deny; 0 is an allow.                                                   *)
GroupPassed(f) == \E j \in GroupOf(f) : ran[j] = "pass"

(* Mutant of DenyingRule: the last failing group speaks.                    *)
DenyingRuleLast ==
  LET failed == {f \in Firsts : ~GroupPassed(f)}
  IN IF failed = {} THEN 0 ELSE CHOOSE m \in failed : \A x \in failed : m >= x

DenyingRule == Least({f \in Firsts : ~GroupPassed(f)})

NoApplicableRule == ~Granting /\ onEmpty # "allow"
Allowed == phase = "decided" /\ ~NoApplicableRule /\ DenyingRule = 0

Throw(what, who) ==
  /\ phase' = "thrown"
  /\ thrown' = what
  /\ blamed' = who

(* evaluate up to its loop: a mixed group is refused before any rule runs;  *)
(* a list without a granting rule is a deny unless the deployment opted out.*)
Begin ==
  /\ phase = "start"
  /\ \/ /\ Mixed # {}
        /\ Throw("mixed", Least(Mixed))
        /\ UNCHANGED at
     \/ /\ Mixed = {}
        /\ phase' = IF NoApplicableRule \/ Indices = {} THEN "decided" ELSE "asking"
        /\ at' = IF NoApplicableRule THEN 0 ELSE Least(Indices)
        /\ UNCHANGED <<thrown, blamed>>
  /\ UNCHANGED <<rules, onEmpty, doubted, ran, now, began, due, caller>>

(* evaluateGroup: the outcome is pushed; the loops go on or conclude.       *)
Outcome(passed) ==
  /\ ran' = [ran EXCEPT ![at] = IF passed THEN "pass" ELSE "fail"]
  /\ at' = NextRule(at, passed)
  /\ phase' = IF at' = 0 THEN "decided" ELSE "asking"
  /\ UNCHANGED <<thrown, blamed>>

(* beginRuleInvocation(...).conclude: a refused report, an answer that is   *)
(* no boolean, or a pass behind an evaluation that did not complete, is the *)
(* rule's error; so is what it threw.                                       *)
AnswerKinds == {"true", "false", "other", "throws"}
ReportKinds == {"none", "completed", "failed", "not_invoked", "refused"}

(* Mutant of Concludes: the answer is read by truthiness, reports aside.    *)
ConcludesTruthy(answer, report) ==
  CASE answer = "throws" -> "error"
    [] answer \in {"true", "other"} -> "pass"
    [] OTHER -> "fail"

Concludes(answer, report) ==
  CASE answer = "true" /\ report \in {"none", "completed"} -> "pass"
    [] answer = "false" /\ report # "refused" -> "fail"
    [] OTHER -> "error"

Proves(answer, report) ==
  answer \in {"true", "false"} /\ report \in {"none", "completed"}

Settle(answer, report) ==
  LET verdict == Concludes(answer, report)
  IN /\ doubted' = IF Proves(answer, report) THEN doubted ELSE doubted \cup {at}
     /\ \/ verdict = "error" /\ Throw("error", at) /\ UNCHANGED <<ran, at>>
        \/ verdict # "error" /\ Outcome(verdict = "pass")

(* verifyRule: a synchronous rule answers within the step.                  *)
AskSync ==
  /\ phase = "asking"
  /\ ~rules[at].async
  /\ \E answer \in AnswerKinds, report \in ReportKinds : Settle(answer, report)
  /\ UNCHANGED <<rules, onEmpty, now, began, due, caller>>

(* runAsyncRule up to its race: not started for a caller who has left or a  *)
(* phase that is spent, else its timer runs for the shorter budget.         *)
Remaining == Deadline - now
PhaseBinds(left) == left < RuleTimeout

(* Mutant of StartAsync: the phase's deadline never shortens a rule's own   *)
(* budget.                                                                  *)
StartAsyncOwnBudget ==
  /\ phase = "asking"
  /\ rules[at].async
  /\ ~caller
  /\ phase' = "awaiting"
  /\ began' = now
  /\ due' = now + RuleTimeout
  /\ UNCHANGED <<rules, onEmpty, doubted, at, ran, now, caller, thrown, blamed>>

StartAsync ==
  /\ phase = "asking"
  /\ rules[at].async
  /\ \/ /\ caller
        /\ Throw("caller", 0)
        /\ UNCHANGED <<began, due>>
     \/ /\ ~caller
        /\ Remaining <= 0
        /\ Throw("timeout_deadline", at)
        /\ UNCHANGED <<began, due>>
     \/ /\ ~caller
        /\ Remaining > 0
        /\ phase' = "awaiting"
        /\ began' = now
        /\ due' = now + (IF PhaseBinds(Remaining) THEN Remaining ELSE RuleTimeout)
        /\ UNCHANGED <<thrown, blamed>>
  /\ UNCHANGED <<rules, onEmpty, doubted, at, ran, now, caller>>

(* The rule in flight settles before its signal aborts.                     *)
AsyncSettles ==
  /\ phase = "awaiting"
  /\ \E answer \in AnswerKinds, report \in ReportKinds : Settle(answer, report)
  /\ UNCHANGED <<rules, onEmpty, now, began, due, caller>>

(* Mutant of TimerFires: the rule is signalled and then awaited.            *)
TimerFiresUnraced ==
  /\ phase = "awaiting"
  /\ now >= due
  /\ thrown = NONE
  /\ thrown' = "timeout_rule"
  /\ blamed' = at
  /\ UNCHANGED <<rules, onEmpty, doubted, phase, at, ran, now, began, due, caller>>

(* Its timer fires: recorded for the rule, and the race is lost.            *)
TimerFires ==
  /\ phase = "awaiting"
  /\ now >= due
  /\ Throw(IF PhaseBinds(Deadline - began) THEN "timeout_deadline"
                                           ELSE "timeout_rule", at)
  /\ UNCHANGED <<rules, onEmpty, doubted, at, ran, now, began, due, caller>>

(* Mutant of CallerAborts: the caller's reason is blamed on the rule.       *)
CallerAbortsBlamed ==
  /\ ~caller
  /\ phase \in {"start", "asking", "awaiting"}
  /\ caller' = TRUE
  /\ IF phase = "awaiting" THEN Throw("caller", at)
                           ELSE UNCHANGED <<phase, thrown, blamed>>
  /\ UNCHANGED <<rules, onEmpty, doubted, at, ran, now, began, due>>

(* The caller leaves: the rule in flight is aborted, attributed to nobody.  *)
CallerAborts ==
  /\ ~caller
  /\ phase \in {"start", "asking", "awaiting"}
  /\ caller' = TRUE
  /\ IF phase = "awaiting" THEN Throw("caller", 0)
                           ELSE UNCHANGED <<phase, thrown, blamed>>
  /\ UNCHANGED <<rules, onEmpty, doubted, at, ran, now, began, due>>

Tick ==
  /\ phase \in {"start", "asking", "awaiting"}
  /\ now < MaxTime
  /\ now' = now + 1
  /\ UNCHANGED <<rules, onEmpty, doubted, phase, at, ran, began, due, caller, thrown,
                 blamed>>

-----------------------------------------------------------------------------
Next ==
  \/ Begin \/ AskSync \/ StartAsync \/ AsyncSettles
  \/ TimerFires \/ CallerAborts \/ Tick

Spec == Init /\ [][Next]_vars

-----------------------------------------------------------------------------
(* AND over groups, OR within one, and nothing granted by restrictions: an  *)
(* allow has a passing rule in every group and, unless the deployment opted *)
(* out of the default deny, a granting rule among them; a deny is named     *)
(* after the first rule of the first group in which every rule failed, all  *)
(* the groups before it having passed (evaluate, conclude).                 *)
DecisionMeansAndOfOrs ==
  phase = "decided" =>
    IF Allowed
    THEN /\ \A i \in Indices : \E j \in GroupOf(i) : ran[j] = "pass"
         /\ onEmpty = "deny" =>
              \E j \in Indices : ~rules[j].restricts /\ ran[j] = "pass"
    ELSE \/ NoApplicableRule /\ \A i \in Indices : ran[i] = NONE
         \/ /\ \A j \in GroupOf(DenyingRule) : ran[j] = "fail" /\ j >= DenyingRule
            /\ \A i \in 1..(DenyingRule - 1) :
                 \E j \in GroupOf(i) : ran[j] = "pass"

(* A budget that tripped is named for the limit that did: the phase's only  *)
(* once the phase is spent, a rule's own only after the whole of it and     *)
(* within the phase's deadline (runAsyncRule, phaseBinds).                  *)
BudgetsTripWhenSpent ==
  /\ thrown = "timeout_deadline" => now >= Deadline
  /\ thrown = "timeout_rule" => now - began >= RuleTimeout /\ due <= Deadline
  /\ phase = "awaiting" => due <= Deadline /\ due - began <= RuleTimeout

(* Whatever evaluate throws is recorded for the rule asked last, or for the *)
(* first rule of a mixed group with no rule run; the caller's reason alone  *)
(* is nobody's, and a caller who has left starts no rule.                   *)
ThrowsBlameTheRuleAsked ==
  /\ phase = "thrown" =>
       CASE thrown = "caller" -> blamed = 0
         [] thrown = "mixed" -> blamed \in Mixed /\ \A i \in Indices : ran[i] = NONE
         [] OTHER -> blamed = at /\ ran[at] = NONE
  /\ phase = "awaiting" => ~caller

(* A pass stands only on a boolean answer and, if the rule reported what it *)
(* evaluated, on an evaluation that completed (conclude): a rule that       *)
(* failed behind a true neither grants nor lets its alternatives be skipped.*)
PassesAreProven == \A i \in Indices : ran[i] = "pass" => i \notin doubted

(* The rule phase ends although an asynchronous rule may never settle.      *)
PhaseEnds == phase = "start" ~> phase \in {"decided", "thrown"}
=============================================================================
