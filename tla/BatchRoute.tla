----------------------------- MODULE BatchRoute -----------------------------
(***************************************************************************)
(* POST /verify/batch once its body is validated and its token verified    *)
(* (packages/server/src/routes/verify.mts), with the decider each entry    *)
(* goes through (decision/decide.mts, observability/failure.mts): entries  *)
(* are decided in lanes, each by two pipelines collected in parallel and   *)
(* one evaluation, and one response speaks for the batch.                  *)
(*                                                                         *)
(* A collect is what CollectPromise makes of a fan-out: it resolves whole, *)
(* or rejects with a value recorded for its pipeline or with the caller's  *)
(* reason.  The evaluation is what RulePhase makes of a rule list: a       *)
(* decision, or a value recorded for a rule, or the caller's reason.       *)
(* POST /verify is the batch of one entry, up to its status code.          *)
(***************************************************************************)
EXTENDS Integers, FiniteSets

CONSTANTS
  BatchSize,         \* entries of the batch
  BatchConcurrency,  \* verify.batchConcurrency
  Errors,            \* error objects collectors and rules throw, shared
  NONE

Entries == 1..BatchSize
Sides == {"attribute", "rule"}

\* Mutant of LaneCount: every entry at once.
LaneCountUncapped == BatchSize

\* Array.from({ length: Math.min(batchConcurrency, entries.length) })
LaneCount == IF BatchConcurrency < BatchSize THEN BatchConcurrency ELSE BatchSize
Lanes == 1..LaneCount

(***************************************************************************)
(* What a decision can fail with: an error object, a collector's timeout   *)
(* or a pipeline's deadline, a conflict of the merged attributes, a rule's *)
(* or the rule phase's budget, the caller's abort reason.                  *)
(***************************************************************************)
Timeout(s) == [kind |-> "collector_timeout", of |-> s]
RuleTimeout == [kind |-> "rule_timeout", of |-> NONE]
Conflict == [kind |-> "attribute_conflict", of |-> NONE]
CallerReason == [kind |-> "caller", of |-> NONE]
Thrown(e) == [kind |-> "thrown", of |-> e]
Causes == {Thrown(e) : e \in Errors} \cup {Timeout(s) : s \in Sides}
            \cup {RuleTimeout, Conflict, CallerReason}

\* How a pipeline's collect stands: a cause once it has rejected.
Pending == [kind |-> "pending", of |-> NONE]
Resolved == [kind |-> "resolved", of |-> NONE]

\* FailureRecord sources: a collector of a pipeline, or a rule.
Sources == Sides \cup {"evaluator"}

ASSUME BatchAssumption ==
  /\ BatchSize \in Nat \ {0} /\ BatchConcurrency \in Nat \ {0}
  /\ NONE \notin Causes
  /\ NONE \notin Sources \cup {"allow", "deny", "200", "500", "gone"}

Categories == {"collector_timeout", "rule_timeout", "attribute_conflict",
               "collector_threw", "rule_threw", "internal"}
Denied == {"collector_timeout", "rule_timeout", "attribute_conflict"}

VARIABLES
  next,      \* the shared cursor: entries a lane has pulled
  lane,      \* lane -> the entry it decides, 0 once it has ended
  stage,     \* entry -> "queued", "collecting", "evaluating", "decided", "faulted"
  collect,   \* entry -> side -> "pending", "resolved" or what it rejected with
  cause,     \* entry -> what its decision failed with first
  failures,  \* entry -> its FailureRecord: cause -> source
  failure,   \* entry -> its classified failure, once it has one
  decision,  \* entry -> "allow" or "deny" once it is made
  slot,      \* position of the answer -> the entry answered there, or 0
  fault,     \* the first lane rejection, as Promise.all hands it over: an entry
  response,  \* "200", "500", "gone" (the caller left: no response), or NONE
  caller     \* the caller's signal has aborted

vars == <<next, lane, stage, collect, cause, failures, failure, decision, slot,
          fault, response, caller>>

(* Every lane has pulled its first entry and started to decide it; the      *)
(* caller may have left while the token was verified.                       *)
Init ==
  /\ next = LaneCount
  /\ lane = [l \in Lanes |-> l]
  /\ stage = [e \in Entries |-> IF e \in Lanes THEN "collecting" ELSE "queued"]
  /\ collect = [e \in Entries |-> [s \in Sides |-> Pending]]
  /\ cause = [e \in Entries |-> NONE]
  /\ failures = [e \in Entries |-> [v \in Causes |-> NONE]]
  /\ failure = [e \in Entries |-> NONE]
  /\ decision = [e \in Entries |-> NONE]
  /\ slot = [e \in Entries |-> 0]
  /\ fault = 0
  /\ response = NONE
  /\ caller \in BOOLEAN

-----------------------------------------------------------------------------
(* decide: the two pipelines.                                               *)

(* Mutant of Record: one record for all decisions.                          *)
RecordShared(e, v, source) ==
  failures' = [d \in Entries |->
                 IF failures[d][v] = NONE THEN [failures[d] EXCEPT ![v] = source]
                                          ELSE failures[d]]

(* FailureRecord.record, in the record of this decision alone.              *)
Record(e, v, source) ==
  failures' = IF failures[e][v] = NONE
              THEN [failures EXCEPT ![e][v] = source] ELSE failures

(* The first rejection is the one Promise.all keeps.                        *)
Fail(e, v) == cause' = IF cause[e] = NONE THEN [cause EXCEPT ![e] = v] ELSE cause

Collecting(e, s) == stage[e] # "queued" /\ collect[e][s] = Pending

CollectResolves(e, s) ==
  /\ Collecting(e, s)
  /\ collect' = [collect EXCEPT ![e][s] = Resolved]
  /\ UNCHANGED <<next, lane, stage, cause, failures, failure, decision, slot,
                 fault, response, caller>>

(* A conflict is the merge's own error, recorded for no collector; nor is   *)
(* the caller's reason.                                                     *)
CollectRejects(e, s) ==
  /\ Collecting(e, s)
  /\ \E v \in Causes \ {RuleTimeout} :
       /\ v = Conflict => s = "attribute"
       /\ v = CallerReason => caller
       /\ v.kind = "collector_timeout" => v.of = s
       /\ collect' = [collect EXCEPT ![e][s] = v]
       /\ Fail(e, v)
       /\ IF v \in {Conflict, CallerReason} THEN UNCHANGED failures
                                            ELSE Record(e, v, s)
  /\ UNCHANGED <<next, lane, stage, failure, decision, slot, fault, response,
                 caller>>

(* Both resolved: evaluate is called.                                       *)
Evaluate(e) ==
  /\ stage[e] = "collecting"
  /\ \A s \in Sides : collect[e][s] = Resolved
  /\ stage' = [stage EXCEPT ![e] = "evaluating"]
  /\ UNCHANGED <<next, lane, collect, cause, failures, failure, decision, slot,
                 fault, response, caller>>

(* evaluate answers: the decision is reported and handed to the lane.       *)
EvaluateDecides(e) ==
  /\ stage[e] = "evaluating"
  /\ cause[e] = NONE
  /\ \E d \in {"allow", "deny"} : decision' = [decision EXCEPT ![e] = d]
  /\ stage' = [stage EXCEPT ![e] = "decided"]
  /\ UNCHANGED <<next, lane, collect, cause, failures, failure, slot, fault,
                 response, caller>>

(* evaluate throws: a rule's error, a spent budget, the caller's reason.    *)
EvaluateThrows(e) ==
  /\ stage[e] = "evaluating"
  /\ cause[e] = NONE
  /\ \E v \in {Thrown(x) : x \in Errors} \cup {RuleTimeout, CallerReason} :
       /\ v = CallerReason => caller
       /\ Fail(e, v)
       /\ IF v = CallerReason THEN UNCHANGED failures
                              ELSE Record(e, v, "evaluator")
  /\ UNCHANGED <<next, lane, stage, collect, failure, decision, slot, fault,
                 response, caller>>

(* classifyFailure: the deny errors by class, then by who was recorded.     *)
Classify(e, v) ==
  [category |-> IF v.kind \in Denied THEN v.kind
                ELSE CASE failures[e][v] \in Sides -> "collector_threw"
                       [] failures[e][v] = "evaluator" -> "rule_threw"
                       [] OTHER -> "internal",
   source |-> failures[e][v]]

(* Mutant of DecisionFails: a timed-out pipeline still reaches evaluate.    *)
DecisionFailsToEvaluate(e) ==
  /\ stage[e] \in {"collecting", "evaluating"}
  /\ cause[e] # NONE
  /\ failure' = [failure EXCEPT ![e] = Classify(e, cause[e])]
  /\ IF failure'[e].category \in Denied /\ stage[e] = "collecting"
     THEN /\ stage' = [stage EXCEPT ![e] = "evaluating"]
          /\ cause' = [cause EXCEPT ![e] = NONE]
          /\ UNCHANGED decision
     ELSE /\ stage' = [stage EXCEPT ![e] = "faulted"]
          /\ UNCHANGED <<decision, cause>>
  /\ UNCHANGED <<next, lane, collect, failures, slot, fault, response, caller>>

(* The catch of decide: a denied failure is logged, counted, and made a     *)
(* deny that is reported like any other; the rest is thrown to the lane.    *)
(* The other pipeline is not told: it collects on.                          *)
DecisionFails(e) ==
  /\ stage[e] \in {"collecting", "evaluating"}
  /\ cause[e] # NONE
  /\ failure' = [failure EXCEPT ![e] = Classify(e, cause[e])]
  /\ IF failure'[e].category \in Denied
     THEN /\ stage' = [stage EXCEPT ![e] = "decided"]
          /\ decision' = [decision EXCEPT ![e] = "deny"]
     ELSE /\ stage' = [stage EXCEPT ![e] = "faulted"]
          /\ UNCHANGED decision
  /\ UNCHANGED <<next, lane, collect, cause, failures, slot, fault, response,
                 caller>>

-----------------------------------------------------------------------------
(* The lanes and the response.                                              *)

\* abandoned, set with the response in one run of the catch.
Abandoned == response \in {"500", "gone"}

(* Mutant of PullNext: after the batch was abandoned.                      *)
PullOn(l) ==
  \/ /\ next < BatchSize
     /\ next' = next + 1
     /\ lane' = [lane EXCEPT ![l] = next + 1]
     /\ stage' = [stage EXCEPT ![next + 1] = "collecting"]
  \/ /\ next = BatchSize
     /\ lane' = [lane EXCEPT ![l] = 0]
     /\ UNCHANGED <<next, stage>>

(* while (!abandoned && next < entries.length)                              *)
PullNext(l) ==
  \/ /\ ~Abandoned /\ next < BatchSize
     /\ next' = next + 1
     /\ lane' = [lane EXCEPT ![l] = next + 1]
     /\ stage' = [stage EXCEPT ![next + 1] = "collecting"]
  \/ /\ Abandoned \/ next = BatchSize
     /\ lane' = [lane EXCEPT ![l] = 0]
     /\ UNCHANGED <<next, stage>>

(* Mutant of SlotOf: answers in the order the decisions were made.          *)
SlotInTurn(e) == CHOOSE i \in Entries : /\ slot[i] = 0
                                        /\ \A j \in Entries : slot[j] = 0 => i <= j
(* decisions[index] = ... *)
SlotOf(e) == e

LaneAdvances(l) ==
  /\ lane[l] # 0
  /\ stage[lane[l]] = "decided"
  /\ slot' = [slot EXCEPT ![SlotOf(lane[l])] = lane[l]]
  /\ PullNext(l)
  /\ UNCHANGED <<collect, cause, failures, failure, decision, fault, response,
                 caller>>

LaneFails(l) ==
  /\ lane[l] # 0
  /\ stage[lane[l]] = "faulted"
  /\ lane' = [lane EXCEPT ![l] = 0]
  /\ fault' = IF fault = 0 THEN lane[l] ELSE fault
  /\ UNCHANGED <<next, stage, collect, cause, failures, failure, decision, slot,
                 response, caller>>

AllEnded == \A l \in Lanes : lane[l] = 0

Answer200 ==
  /\ response = NONE
  /\ fault = 0
  /\ AllEnded
  /\ response' = "200"
  /\ UNCHANGED <<next, lane, stage, collect, cause, failures, failure, decision,
                 slot, fault, caller>>

(* Mutants of AnswerFault: any fault is silenced once the caller left; the  *)
(* fault waits for the lanes still deciding.                                *)
AnswerFaultSilenced ==
  /\ response = NONE
  /\ fault # 0
  /\ response' = IF caller THEN "gone" ELSE "500"
  /\ UNCHANGED <<next, lane, stage, collect, cause, failures, failure, decision,
                 slot, fault, caller>>

AnswerFaultWhole ==
  /\ response = NONE
  /\ fault # 0
  /\ \A e \in Entries : slot[e] # 0
  /\ response' = "500"
  /\ UNCHANGED <<next, lane, stage, collect, cause, failures, failure, decision,
                 slot, fault, caller>>

(* Promise.all rejected: the lanes are told to stop, and the fault is       *)
(* logged, counted and answered, unless it is the caller's own leaving.     *)
AnswerFault ==
  /\ response = NONE
  /\ fault # 0
  /\ response' = IF caller /\ cause[fault] = CallerReason THEN "gone" ELSE "500"
  /\ UNCHANGED <<next, lane, stage, collect, cause, failures, failure, decision,
                 slot, fault, caller>>

(* The response closes before it was finished.                              *)
CallerLeaves ==
  /\ ~caller
  /\ caller' = TRUE
  /\ UNCHANGED <<next, lane, stage, collect, cause, failures, failure, decision,
                 slot, fault, response>>

-----------------------------------------------------------------------------
Settle(e, s) == CollectResolves(e, s) \/ CollectRejects(e, s)
EvaluateSettles(e) == EvaluateDecides(e) \/ EvaluateThrows(e)

Next ==
  \/ \E e \in Entries, s \in Sides : Settle(e, s)
  \/ \E e \in Entries : Evaluate(e) \/ EvaluateSettles(e) \/ DecisionFails(e)
  \/ \E l \in Lanes : LaneAdvances(l) \/ LaneFails(l)
  \/ Answer200 \/ AnswerFault
  \/ CallerLeaves

Spec == Init /\ [][Next]_vars

(* A collect settles (CollectorFanOut's Settles) and so does an evaluation  *)
(* (RulePhase's PhaseEnds); queued continuations run.                       *)
Fairness ==
  /\ \A e \in Entries :
       /\ \A s \in Sides : WF_vars(Settle(e, s))
       /\ WF_vars(Evaluate(e)) /\ WF_vars(EvaluateSettles(e))
       /\ WF_vars(DecisionFails(e))
  /\ \A l \in Lanes : WF_vars(LaneAdvances(l)) /\ WF_vars(LaneFails(l))
  /\ WF_vars(Answer200) /\ WF_vars(AnswerFault)

FairSpec == Spec /\ Fairness

-----------------------------------------------------------------------------
(* Nobody is allowed on half of a decision: both pipelines of the entry     *)
(* resolved and its evaluation threw nothing; what failed is a deny or a    *)
(* fault, never handed to the evaluator (decide.mts, "deliberately never    *)
(* reached").                                                               *)
AllowedOnWholeDecisions ==
  \A e \in Entries :
    decision[e] = "allow" =>
      /\ \A s \in Sides : collect[e][s] = Resolved
      /\ cause[e] = NONE /\ failure[e] = NONE

(* A 200 answers every entry, each in its own place, whatever the order in  *)
(* which the lanes finished (verify.mts:733-748).                           *)
AnswersInRequestOrder ==
  response = "200" =>
    \A e \in Entries : slot[e] = e /\ stage[e] = "decided"

(* A failure is named after the pipeline or rule of its own decision that   *)
(* failed with it, though error objects are shared between decisions, and   *)
(* only the caller's leaving is nobody's (FailureRecord, one per decision). *)
NamedInOwnDecision ==
  \A e \in Entries :
    failure[e] # NONE =>
      CASE failure[e].source \in Sides ->
             collect[e][failure[e].source] = cause[e]
        [] failure[e].source = "evaluator" ->
             \A s \in Sides : collect[e][s] = Resolved
        [] OTHER -> cause[e] \in {Conflict, CallerReason}

(* The batch goes unanswered only when the failure itself is the caller's   *)
(* leaving: a fault that lands as the caller leaves is still a logged 500,  *)
(* and a failure that is a deny never fails the batch (verify.mts:764-779). *)
FaultsAreAnswered ==
  /\ response = "gone" => caller /\ cause[fault] = CallerReason
  /\ response = "500" => /\ cause[fault] # CallerReason
                         /\ failure[fault].category \notin Denied

(* No further entry is begun once the batch has been answered for, decided  *)
(* in part or not (verify.mts:753-759, "the lanes stop pulling entries").   *)
StopsPulling ==
  [][response # NONE => \A e \in Entries : stage[e] = "queued" => stage'[e] = "queued"]_vars

(* Every batch ends, in an answer or with its caller gone.                  *)
BatchEnds == <>(response # NONE)

(* What DEFAULT_BATCH_CONCURRENCY says: "the per-request ceiling is 8 x 8   *)
(* per pipeline, not 50 x 8" (config/defaults.mts:27): as many collects of  *)
(* a pipeline at once as entries are decided at once.                       *)
PerRequestCeiling ==
  \A s \in Sides :
    Cardinality({e \in Entries : Collecting(e, s)}) <= BatchConcurrency
=============================================================================
