-------------------------- MODULE BatchRouteProofs --------------------------
(***************************************************************************)
(* Proofs about BatchRoute for batches of any size, any cap on the lanes   *)
(* and any error objects shared between the decisions.                     *)
(***************************************************************************)
EXTENDS BatchRoute, FiniteSetTheorems, TLAPS

Stages == {"queued", "collecting", "evaluating", "decided", "faulted"}
Failure == [category : Categories, source : Sources \cup {NONE}]

BatchTyped ==
  /\ next \in 0..BatchSize
  /\ lane \in [Lanes -> 0..BatchSize]
  /\ stage \in [Entries -> Stages]
  /\ collect \in [Entries -> [Sides -> Causes \cup {Pending, Resolved}]]
  /\ cause \in [Entries -> Causes \cup {NONE}]
  /\ failures \in [Entries -> [Causes -> Sources \cup {NONE}]]
  /\ failure \in [Entries -> Failure \cup {NONE}]
  /\ decision \in [Entries -> {"allow", "deny", NONE}]
  /\ slot \in [Entries -> 0..BatchSize]
  /\ fault \in 0..BatchSize
  /\ response \in {"200", "500", "gone", NONE}
  /\ caller \in BOOLEAN

-----------------------------------------------------------------------------
(* One decision: its record names whoever failed with an error, and what it *)
(* failed with first is recorded, unless nobody is to be named for it.      *)
Whole(e) == \A s \in Sides : collect[e][s] = Resolved

Recorded(e) ==
  /\ \A v \in Causes :
       /\ failures[e][v] \in Sides => collect[e][failures[e][v]] = v
       /\ failures[e][v] = "evaluator" => Whole(e)
  /\ failures[e][Conflict] = NONE /\ failures[e][CallerReason] = NONE
  /\ cause[e] \notin {NONE, Conflict, CallerReason} => failures[e][cause[e]] # NONE
  /\ cause[e] = CallerReason => caller

(* It is classified when it ends, by a record that says the same ever after. *)
Classified(e) ==
  /\ stage[e] = "evaluating" => Whole(e)
  /\ decision[e] = "allow" =>
       stage[e] = "decided" /\ Whole(e) /\ cause[e] = NONE /\ failure[e] = NONE
  /\ failure[e] # NONE =>
       /\ stage[e] \in {"decided", "faulted"}
       /\ cause[e] # NONE /\ failure[e] = Classify(e, cause[e])
  /\ stage[e] = "faulted" =>
       /\ cause[e] # NONE /\ failure[e] = Classify(e, cause[e])
       /\ failure[e].category \notin Denied

Decisions == \A e \in Entries : Recorded(e) /\ Classified(e)

(* The lanes: entries are pulled in order, each by one lane, which leaves   *)
(* it answered in its own place, or faulted.                                *)
Pulled ==
  /\ LaneCount <= next
  /\ \A e \in Entries : stage[e] = "queued" <=> e > next
  /\ \A l \in Lanes :
       /\ lane[l] <= next
       /\ lane[l] = 0 => next = BatchSize \/ fault # 0
       /\ \A k \in Lanes \ {l} : lane[l] # 0 => lane[l] # lane[k]

Left ==
  /\ \A e \in Entries :
       /\ slot[e] \in {0, e}
       /\ slot[e] = e => stage[e] = "decided"
       /\ \/ stage[e] = "queued" \/ slot[e] = e \/ \E l \in Lanes : lane[l] = e
          \/ stage[e] = "faulted" /\ fault # 0
  /\ fault # 0 => stage[fault] = "faulted"

Responded ==
  /\ response \in {"500", "gone"} => fault # 0
  /\ response = "200" => fault = 0 /\ AllEnded
  /\ FaultsAreAnswered

BatchInv == BatchTyped /\ Decisions /\ Pulled /\ Left /\ Responded

(* Who answers a decision's failure: the values a cause can be are apart.   *)
LEMMA CausesApart ==
  /\ Conflict \in Causes /\ CallerReason \in Causes /\ RuleTimeout \in Causes
  /\ Pending \notin Causes /\ Resolved \notin Causes /\ Pending # Resolved
  /\ Conflict # CallerReason /\ RuleTimeout \notin {Conflict, CallerReason}
  /\ \A x \in Errors : Thrown(x) \in Causes \ {Conflict, CallerReason, RuleTimeout}
BY DEF Causes, Conflict, CallerReason, RuleTimeout, Pending, Resolved, Thrown, Timeout

(* The collectors of both sides and the evaluator are sources, NONE is none.*)
LEMMA SourcesApart ==
  /\ Sides \subseteq Sources /\ "evaluator" \in Sources /\ "evaluator" \notin Sides
  /\ NONE \notin Sides /\ NONE # "evaluator" /\ NONE \notin Causes
BY BatchAssumption DEF Sides, Sources

(* There is a lane at least, and never more than entries or the bound.      *)
LEMMA LanesOfEntries ==
  /\ LaneCount \in Nat \ {0} /\ LaneCount <= BatchSize /\ LaneCount <= BatchConcurrency
  /\ BatchSize \in Nat /\ Entries = 1..BatchSize /\ Lanes = 1..LaneCount
BY BatchAssumption DEF LaneCount, Entries, Lanes

(* A decision nobody touches stands as it did.                              *)
LEMMA SameDecision ==
  ASSUME NEW e, Recorded(e), Classified(e), caller => caller',
         UNCHANGED <<stage[e], collect[e], cause[e], failures[e], failure[e], decision[e]>>
  PROVE  Recorded(e)' /\ Classified(e)'
BY DEF Recorded, Classified, Whole, Classify

(* A step of the decisions alone, out of an undecided stage if of any,      *)
(* changes nothing for the lanes and the response.                          *)
LEMMA LanesStand ==
  ASSUME BatchInv, UNCHANGED <<next, lane, slot, fault, response, caller>>,
         \A d \in Entries :
           /\ stage'[d] # stage[d] => /\ stage[d] \in {"collecting", "evaluating"}
                                      /\ stage'[d] # "queued"
           /\ stage[d] = "faulted" => UNCHANGED <<cause[d], failure[d]>>
  PROVE  Pulled' /\ Left' /\ Responded'
<1>1. Pulled'
  BY DEF BatchInv, Pulled
<1>2. fault # 0 => fault \in Entries /\ stage[fault] = "faulted"
  BY LanesOfEntries DEF BatchInv, BatchTyped, Left
<1>3. Left'
  BY <1>2 DEF BatchInv, Left
<1>4. Responded'
  BY <1>2 DEF BatchInv, Responded, AllEnded, FaultsAreAnswered
<1> QED BY <1>1, <1>3, <1>4

-----------------------------------------------------------------------------
(* A fan-out that resolves makes its decision no less accounted for.        *)
LEMMA CollectResolvesKeeps ==
  ASSUME BatchInv, NEW e \in Entries, NEW s \in Sides, CollectResolves(e, s)
  PROVE  BatchInv'
<1>1. /\ collect[e][s] = Pending
      /\ collect' = [collect EXCEPT ![e][s] = Resolved]
      /\ UNCHANGED <<next, lane, stage, cause, failures, failure, decision, slot,
                     fault, response, caller>>
  BY DEF CollectResolves, Collecting
<1>2. BatchTyped'
  BY <1>1 DEF BatchInv, BatchTyped
<1>3. /\ \A d \in Entries \ {e} : collect'[d] = collect[d]
      /\ \A t \in Sides : collect'[e][t] = IF t = s THEN Resolved ELSE collect[e][t]
  BY <1>1 DEF BatchInv, BatchTyped
<1>4. Recorded(e)' /\ Classified(e)'
  BY <1>1, <1>3, CausesApart, SourcesApart
     DEF BatchInv, BatchTyped, Decisions, Recorded, Classified, Whole, Classify
<1>5. Decisions'
  BY <1>1, <1>3, <1>4, SameDecision DEF BatchInv, Decisions
<1> QED BY <1>1, <1>2, <1>5, LanesStand DEF BatchInv

(* The first fan-out to reject is its decision's cause; each records its own*)
(* failure under a name of its side.                                        *)
LEMMA CollectRejectsKeeps ==
  ASSUME BatchInv, NEW e \in Entries, NEW s \in Sides, CollectRejects(e, s)
  PROVE  BatchInv'
<1>1. PICK v \in Causes \ {RuleTimeout} :
        /\ collect[e][s] = Pending /\ stage[e] # "queued"
        /\ v = CallerReason => caller
        /\ collect' = [collect EXCEPT ![e][s] = v]
        /\ cause' = IF cause[e] = NONE THEN [cause EXCEPT ![e] = v] ELSE cause
        /\ failures' = IF v \notin {Conflict, CallerReason} /\ failures[e][v] = NONE
                       THEN [failures EXCEPT ![e][v] = s] ELSE failures
        /\ UNCHANGED <<next, lane, stage, failure, decision, slot, fault, response, caller>>
  BY DEF CollectRejects, Collecting, Fail, Record
<1>2. BatchTyped'
  BY <1>1, SourcesApart DEF BatchInv, BatchTyped
<1>3. /\ \A d \in Entries \ {e} : UNCHANGED <<collect[d], cause[d], failures[d]>>
      /\ \A t \in Sides : collect'[e][t] = IF t = s THEN v ELSE collect[e][t]
      /\ cause'[e] = IF cause[e] = NONE THEN v ELSE cause[e]
      /\ \A w \in Causes : failures'[e][w] =
           IF w = v /\ v \notin {Conflict, CallerReason} /\ failures[e][v] = NONE
           THEN s ELSE failures[e][w]
  BY <1>1 DEF BatchInv, BatchTyped
<1>4. Recorded(e)'
  BY <1>1, <1>3, CausesApart, SourcesApart DEF BatchInv, BatchTyped, Decisions, Recorded, Whole
<1>5. Classified(e)'
  <2>1. ~Whole(e) /\ stage[e] # "evaluating" /\ decision[e] # "allow"
    BY <1>1, CausesApart DEF BatchInv, Decisions, Classified, Whole
  <2>2. ASSUME cause[e] # NONE PROVE cause'[e] = cause[e] /\ failures'[e][cause[e]] = failures[e][cause[e]]
    BY <1>1, <1>3, <2>2, CausesApart DEF BatchInv, BatchTyped, Decisions, Recorded
  <2>3. cause[e] # NONE => Classify(e, cause[e])' = Classify(e, cause[e])
    BY <2>2 DEF Classify
  <2> QED BY <1>1, <2>1, <2>2, <2>3 DEF BatchInv, Decisions, Classified
<1>6. Decisions'
  BY <1>1, <1>3, <1>4, <1>5, SameDecision DEF BatchInv, Decisions
<1>7. \A d \in Entries : stage[d] = "faulted" => cause'[d] = cause[d]
  BY <1>3 DEF BatchInv, Decisions, Classified
<1> QED BY <1>1, <1>2, <1>6, <1>7, LanesStand DEF BatchInv

(* A decision evaluates with both its sets whole, and with no cause.        *)
LEMMA EvaluateKeeps ==
  ASSUME BatchInv, NEW e \in Entries, Evaluate(e)
  PROVE  BatchInv'
<1>1. /\ stage[e] = "collecting" /\ Whole(e)
      /\ stage' = [stage EXCEPT ![e] = "evaluating"]
      /\ UNCHANGED <<next, lane, collect, cause, failures, failure, decision, slot,
                     fault, response, caller>>
  BY DEF Evaluate, Whole
<1>2. BatchTyped'
  BY <1>1 DEF BatchInv, BatchTyped, Stages
<1>3. \A d \in Entries : stage'[d] = IF d = e THEN "evaluating" ELSE stage[d]
  BY <1>1 DEF BatchInv, BatchTyped
<1>4. Recorded(e)' /\ Classified(e)'
  BY <1>1, <1>3 DEF BatchInv, Decisions, Recorded, Classified, Whole, Classify
<1>5. Decisions'
  BY <1>1, <1>3, <1>4, SameDecision DEF BatchInv, Decisions
<1> QED BY <1>1, <1>2, <1>3, <1>5, LanesStand DEF BatchInv

(* An evaluation that ends decides, from attributes collected whole.        *)
LEMMA EvaluateDecidesKeeps ==
  ASSUME BatchInv, NEW e \in Entries, EvaluateDecides(e)
  PROVE  BatchInv'
<1>1. PICK verdict \in {"allow", "deny"} :
        /\ stage[e] = "evaluating" /\ cause[e] = NONE
        /\ decision' = [decision EXCEPT ![e] = verdict]
        /\ stage' = [stage EXCEPT ![e] = "decided"]
        /\ UNCHANGED <<next, lane, collect, cause, failures, failure, slot, fault,
                       response, caller>>
  BY DEF EvaluateDecides
<1>2. BatchTyped'
  BY <1>1 DEF BatchInv, BatchTyped, Stages
<1>3. \A d \in Entries : /\ stage'[d] = IF d = e THEN "decided" ELSE stage[d]
                         /\ decision'[d] = IF d = e THEN verdict ELSE decision[d]
  BY <1>1 DEF BatchInv, BatchTyped
<1>4. Recorded(e)' /\ Classified(e)'
  BY <1>1, <1>3 DEF BatchInv, Decisions, Recorded, Classified, Whole, Classify
<1>5. Decisions'
  BY <1>1, <1>3, <1>4, SameDecision DEF BatchInv, Decisions
<1> QED BY <1>1, <1>2, <1>3, <1>5, LanesStand DEF BatchInv

(* What the evaluation throws is the decision's cause, in its own name.     *)
LEMMA EvaluateThrowsKeeps ==
  ASSUME BatchInv, NEW e \in Entries, EvaluateThrows(e)
  PROVE  BatchInv'
<1>1. PICK v \in Causes \ {Conflict} :
        /\ stage[e] = "evaluating" /\ cause[e] = NONE
        /\ v = CallerReason => caller
        /\ cause' = [cause EXCEPT ![e] = v]
        /\ failures' = IF v # CallerReason /\ failures[e][v] = NONE
                       THEN [failures EXCEPT ![e][v] = "evaluator"] ELSE failures
        /\ UNCHANGED <<next, lane, stage, collect, failure, decision, slot, fault, response,
                       caller>>
  BY CausesApart DEF EvaluateThrows, Fail, Record
<1>2. BatchTyped'
  BY <1>1, SourcesApart DEF BatchInv, BatchTyped
<1>3. /\ \A d \in Entries \ {e} : UNCHANGED <<cause[d], failures[d]>>
      /\ cause'[e] = v
      /\ \A w \in Causes : failures'[e][w] =
           IF w = v /\ v # CallerReason /\ failures[e][v] = NONE THEN "evaluator" ELSE failures[e][w]
  BY <1>1 DEF BatchInv, BatchTyped
<1>4. Whole(e) /\ decision[e] # "allow" /\ failure[e] = NONE
  BY <1>1 DEF BatchInv, Decisions, Classified
<1>5. Recorded(e)'
  BY <1>1, <1>3, <1>4, CausesApart, SourcesApart
     DEF BatchInv, BatchTyped, Decisions, Recorded, Whole
<1>6. Classified(e)'
  BY <1>1, <1>4 DEF Classified, Whole
<1>7. Decisions'
  BY <1>1, <1>3, <1>5, <1>6, SameDecision DEF BatchInv, Decisions
<1> QED BY <1>1, <1>2, <1>3, <1>7, LanesStand DEF BatchInv

(* A decision that failed is a deny or a fault, as its cause is classified. *)
LEMMA DecisionFailsKeeps ==
  ASSUME BatchInv, NEW e \in Entries, DecisionFails(e)
  PROVE  BatchInv'
<1> DEFINE classified == Classify(e, cause[e])
           denied == classified.category \in Denied
<1>1. /\ stage[e] \in {"collecting", "evaluating"} /\ cause[e] # NONE /\ cause[e] \in Causes
      /\ failure' = [failure EXCEPT ![e] = classified]
      /\ stage' = [stage EXCEPT ![e] = IF denied THEN "decided" ELSE "faulted"]
      /\ decision' = IF denied THEN [decision EXCEPT ![e] = "deny"] ELSE decision
      /\ UNCHANGED <<next, lane, collect, cause, failures, slot, fault, response, caller>>
  BY DEF DecisionFails, BatchInv, BatchTyped
<1>2. classified \in Failure
  BY <1>1 DEF BatchInv, BatchTyped, Classify, Failure, Categories, Denied
<1>3. BatchTyped'
  BY <1>1, <1>2 DEF BatchInv, BatchTyped, Stages
<1>4. \A d \in Entries : /\ stage'[d] = IF d = e THEN IF denied THEN "decided" ELSE "faulted"
                                        ELSE stage[d]
                         /\ failure'[d] = IF d = e THEN classified ELSE failure[d]
                         /\ decision'[d] = IF d = e /\ denied THEN "deny" ELSE decision[d]
  BY <1>1 DEF BatchInv, BatchTyped
<1>5. Recorded(e)'
  BY <1>1 DEF BatchInv, Decisions, Recorded, Whole
<1>6. Classified(e)'
  <2>1. Classify(e, cause[e])' = classified
    BY <1>1 DEF Classify
  <2>2. decision[e] # "allow"
    BY <1>1 DEF BatchInv, Decisions, Classified
  <2> HIDE DEF classified
  <2> QED BY <1>1, <1>4, <2>1, <2>2 DEF Classified
<1>7. Decisions'
  BY <1>1, <1>4, <1>5, <1>6, SameDecision DEF BatchInv, Decisions
<1>8. \A d \in Entries :
           /\ stage'[d] # stage[d] => /\ stage[d] \in {"collecting", "evaluating"}
                                      /\ stage'[d] # "queued"
           /\ stage[d] = "faulted" => UNCHANGED <<cause[d], failure[d]>>
  BY <1>1, <1>4
<1> QED BY <1>1, <1>3, <1>7, <1>8, LanesStand DEF BatchInv

-----------------------------------------------------------------------------
(* A lane hands over its answer and pulls the next entry, or ends.          *)
LEMMA LaneAdvancesKeeps ==
  ASSUME BatchInv, NEW l \in Lanes, LaneAdvances(l)
  PROVE  BatchInv'
<1> DEFINE e == lane[l]
<1>1. /\ e \in Entries /\ e = lane[l] /\ e <= next /\ stage[e] = "decided" /\ next \in Nat /\ next <= BatchSize
      /\ slot' = [slot EXCEPT ![e] = e]
      /\ PullNext(l)
      /\ UNCHANGED <<collect, cause, failures, failure, decision, fault, response, caller>>
  BY LanesOfEntries DEF LaneAdvances, SlotOf, BatchInv, BatchTyped, Pulled
<1>2. response # "200"
  BY <1>1, LanesOfEntries DEF BatchInv, Responded, AllEnded
<1> HIDE DEF e
<1>3. CASE ~Abandoned /\ next < BatchSize
  <2>1. PICK n \in Entries :
        /\ n = next + 1
        /\ next' = n /\ lane' = [lane EXCEPT ![l] = n] /\ stage' = [stage EXCEPT ![n] = "collecting"]
        /\ stage[n] = "queued" /\ n # e
    BY <1>1, <1>3, LanesOfEntries DEF PullNext, BatchInv, Pulled
  <2>2. BatchTyped'
    <3>1. n \in 0..BatchSize /\ e \in 0..BatchSize /\ "collecting" \in Stages
      BY <2>1, <1>1, LanesOfEntries DEF Stages
    <3>2. BatchTyped
      BY DEF BatchInv
    <3>3. /\ next' \in 0..BatchSize /\ lane' \in [Lanes -> 0..BatchSize]
          /\ stage' \in [Entries -> Stages] /\ slot' \in [Entries -> 0..BatchSize]
      BY <1>1, <2>1, <3>1, <3>2 DEF BatchTyped
    <3> QED BY <1>1, <3>2, <3>3 DEF BatchTyped
  <2>3. /\ \A d \in Entries : /\ stage'[d] = IF d = n THEN "collecting" ELSE stage[d]
                              /\ slot'[d] = IF d = e THEN e ELSE slot[d]
        /\ \A k \in Lanes : lane'[k] = IF k = l THEN n ELSE lane[k]
    BY <1>1, <2>1 DEF BatchInv, BatchTyped
  <2>4. Recorded(n)' /\ Classified(n)'
    BY <1>1, <2>1, <2>3 DEF BatchInv, Decisions, Recorded, Classified, Whole
  <2>5. Decisions'
    BY <1>1, <2>3, <2>4, SameDecision DEF BatchInv, Decisions
  <2>6. Pulled'
    <3>1. LaneCount <= next' /\ \A d \in Entries : stage'[d] = "queued" <=> d > next'
      BY <1>1, <2>1, <2>3, LanesOfEntries DEF BatchInv, Pulled
    <3>2. ASSUME NEW k \in Lanes
          PROVE  lane'[k] <= next' /\ (lane'[k] = 0 => fault' # 0)
      BY <1>1, <1>3, <2>1, <2>3, LanesOfEntries DEF BatchInv, BatchTyped, Pulled
    <3>3. ASSUME NEW k \in Lanes, NEW j \in Lanes \ {k}, lane'[k] # 0
          PROVE  lane'[k] # lane'[j]
      <4>1. /\ lane[k] <= next /\ lane[j] <= next /\ n > next
            /\ lane[k] # 0 => lane[k] # lane[j]
        BY <1>1, <2>1, LanesOfEntries DEF BatchInv, Pulled
      <4>2. lane[k] \in Nat /\ lane[j] \in Nat
        BY LanesOfEntries DEF BatchInv, BatchTyped
      <4>3. /\ lane'[k] = IF k = l THEN n ELSE lane[k]
            /\ lane'[j] = IF j = l THEN n ELSE lane[j]
        BY <2>3
      <4> QED BY <1>1, <3>3, <4>1, <4>2, <4>3
    <3> QED BY <3>1, <3>2, <3>3 DEF Pulled
  <2>7. Left'
    <3>1. ASSUME NEW d \in Entries
          PROVE  \/ stage'[d] = "queued" \/ slot'[d] = d \/ \E k \in Lanes : lane'[k] = d
                 \/ stage'[d] = "faulted" /\ fault' # 0
      <4>0. CASE d = n
        BY <2>3, <4>0
      <4>1. CASE d # n /\ (d = e \/ stage[d] = "queued" \/ slot[d] = d \/ (stage[d] = "faulted" /\ fault # 0))
        BY <1>1, <2>1, <2>3, <4>1
      <4>2. CASE d # e /\ d # n /\ \E k \in Lanes : lane[k] = d
        BY <1>1, <2>3, <4>2
      <4> QED BY <4>0, <4>1, <4>2 DEF BatchInv, Left
    <3>2. ASSUME NEW d \in Entries
          PROVE  slot'[d] \in {0, d} /\ (slot'[d] = d => stage'[d] = "decided")
      BY <1>1, <2>1, <2>3, LanesOfEntries DEF BatchInv, Left
    <3>3. fault # 0 => fault \in Entries /\ stage[fault] = "faulted"
      BY LanesOfEntries DEF BatchInv, BatchTyped, Left
    <3>4. fault' # 0 => stage'[fault'] = "faulted"
      BY <1>1, <2>1, <2>3, <3>3
    <3> QED BY <3>1, <3>2, <3>4 DEF Left
  <2>8. Responded'
    BY <1>1, <1>2 DEF BatchInv, Responded, FaultsAreAnswered
  <2> QED BY <2>2, <2>5, <2>6, <2>7, <2>8 DEF BatchInv
<1>4. CASE Abandoned \/ next = BatchSize
  <2>1. next' = next /\ stage' = stage /\ lane' = [lane EXCEPT ![l] = 0]
    BY <1>1, <1>4 DEF PullNext
  <2>2. BatchTyped'
    BY <1>1, <2>1, LanesOfEntries DEF BatchInv, BatchTyped
  <2>3. /\ \A d \in Entries : slot'[d] = IF d = e THEN e ELSE slot[d]
        /\ \A k \in Lanes : lane'[k] = IF k = l THEN 0 ELSE lane[k]
    BY <1>1, <2>1 DEF BatchInv, BatchTyped
  <2>4. Decisions'
    BY <1>1, <2>1, SameDecision DEF BatchInv, Decisions
  <2>5. Pulled'
    BY <1>1, <1>4, <2>1, <2>3 DEF BatchInv, BatchTyped, Pulled, Responded, Abandoned
  <2>6. Left'
    BY <1>1, <2>1, <2>3 DEF BatchInv, Left
  <2>7. Responded'
    BY <1>1, <1>2 DEF BatchInv, Responded, FaultsAreAnswered
  <2> QED BY <2>2, <2>4, <2>5, <2>6, <2>7 DEF BatchInv
<1> QED BY <1>1, <1>3, <1>4 DEF PullNext

(* The first lane to rethrow ends the batch; later ones change nothing.     *)
LEMMA LaneFailsKeeps ==
  ASSUME BatchInv, NEW l \in Lanes, LaneFails(l)
  PROVE  BatchInv'
<1>1. /\ lane[l] \in Entries /\ stage[lane[l]] = "faulted" /\ lane[l] # 0
      /\ lane' = [lane EXCEPT ![l] = 0]
      /\ fault' = IF fault = 0 THEN lane[l] ELSE fault
      /\ UNCHANGED <<next, stage, collect, cause, failures, failure, decision, slot,
                     response, caller>>
  BY LanesOfEntries DEF LaneFails, BatchInv, BatchTyped
<1>2. response # "200" /\ fault' # 0 /\ stage[fault'] = "faulted"
  BY <1>1 DEF BatchInv, Responded, AllEnded, Left
<1>3. BatchTyped'
  BY <1>1, LanesOfEntries DEF BatchInv, BatchTyped
<1>4. \A k \in Lanes : lane'[k] = IF k = l THEN 0 ELSE lane[k]
  BY <1>1 DEF BatchInv, BatchTyped
<1>5. Decisions'
  BY <1>1, SameDecision DEF BatchInv, Decisions
<1>6. Pulled'
  BY <1>1, <1>2, <1>4 DEF BatchInv, BatchTyped, Pulled
<1>7. Left'
  BY <1>1, <1>2, <1>4 DEF BatchInv, Left
<1>8. Responded'
  BY <1>1, <1>2 DEF BatchInv, Responded, FaultsAreAnswered
<1> QED BY <1>3, <1>5, <1>6, <1>7, <1>8 DEF BatchInv

-----------------------------------------------------------------------------
(* A response answers the fault the lanes were told of, or a batch with     *)
(* none; the caller may leave at any time.                                  *)
LEMMA ResponseKeeps ==
  ASSUME BatchInv, Answer200 \/ AnswerFault \/ CallerLeaves \/ UNCHANGED vars
  PROVE  BatchInv'
<1>1. /\ caller => caller'
      /\ caller' \in BOOLEAN
      /\ UNCHANGED <<next, lane, stage, collect, cause, failures, failure, decision, slot, fault>>
  BY DEF Answer200, AnswerFault, CallerLeaves, vars, BatchInv, BatchTyped
<1>2. fault # 0 => /\ fault \in Entries
                   /\ cause[fault] = CallerReason => caller
                   /\ failure[fault].category \notin Denied
  BY LanesOfEntries DEF BatchInv, BatchTyped, Left, Decisions, Recorded, Classified
<1>3. \/ response' = response
      \/ response' = "200" /\ fault = 0 /\ AllEnded
      \/ /\ fault # 0
         /\ response' = IF caller /\ cause[fault] = CallerReason THEN "gone" ELSE "500"
  BY DEF Answer200, AnswerFault, CallerLeaves, vars
<1>4. BatchTyped'
  BY <1>1, <1>3 DEF BatchInv, BatchTyped
<1>5. Decisions'
  BY <1>1, SameDecision DEF BatchInv, Decisions
<1>6. Pulled' /\ Left'
  BY <1>1 DEF BatchInv, Pulled, Left
<1>7. Responded'
  BY <1>1, <1>2, <1>3, BatchAssumption DEF BatchInv, Responded, AllEnded, FaultsAreAnswered
<1> QED BY <1>4, <1>5, <1>6, <1>7 DEF BatchInv

(* Every reachable state of a batch satisfies the invariant, for any number *)
(* of entries and lanes (the batch route with decide for each entry).       *)
THEOREM BatchInvariance == Spec => []BatchInv
<1>1. Init => BatchInv
  <2> SUFFICES ASSUME Init PROVE BatchInv
    OBVIOUS
  <2>1. BatchTyped
    BY LanesOfEntries DEF Init, BatchTyped, Stages
  <2>2. Decisions
    BY BatchAssumption, SourcesApart, CausesApart
       DEF Init, Decisions, Recorded, Classified, Whole
  <2>3. Pulled /\ Left /\ Responded
    BY LanesOfEntries, BatchAssumption DEF Init, Pulled, Left, Responded, FaultsAreAnswered
  <2> QED BY <2>1, <2>2, <2>3 DEF BatchInv
<1>2. BatchInv /\ [Next]_vars => BatchInv'
  <2> SUFFICES ASSUME BatchInv, [Next]_vars PROVE BatchInv'
    OBVIOUS
  <2>1. ASSUME NEW e \in Entries, NEW s \in Sides, Settle(e, s) PROVE BatchInv'
    BY <2>1, CollectResolvesKeeps, CollectRejectsKeeps DEF Settle
  <2>2. ASSUME NEW e \in Entries, Evaluate(e) \/ EvaluateSettles(e) \/ DecisionFails(e) PROVE BatchInv'
    BY <2>2, EvaluateKeeps, EvaluateDecidesKeeps, EvaluateThrowsKeeps, DecisionFailsKeeps
       DEF EvaluateSettles
  <2>3. ASSUME NEW l \in Lanes, LaneAdvances(l) \/ LaneFails(l) PROVE BatchInv'
    BY <2>3, LaneAdvancesKeeps, LaneFailsKeeps
  <2>4. CASE Answer200 \/ AnswerFault \/ CallerLeaves \/ UNCHANGED vars
    BY <2>4, ResponseKeeps
  <2> QED BY <2>1, <2>2, <2>3, <2>4 DEF Next
<1> QED BY <1>1, <1>2, PTL DEF Spec

-----------------------------------------------------------------------------
(* Every variable of a batch keeps its type; the cursor never runs past the *)
(* batch (the batch route, decide).                                         *)
THEOREM BatchTypedHolds == Spec => []BatchTyped
<1>1. BatchInv => BatchTyped
  BY DEF BatchInv
<1> QED BY <1>1, BatchInvariance, PTL

(* No entry of a batch of any size is allowed on half of a decision         *)
(* (decide, "deliberately never reached").                                  *)
THEOREM AllowedOnWholeDecisionsHolds == Spec => []AllowedOnWholeDecisions
<1>1. BatchInv => AllowedOnWholeDecisions
  BY DEF BatchInv, Decisions, Classified, Whole, AllowedOnWholeDecisions
<1> QED BY <1>1, BatchInvariance, PTL

(* A 200 has every entry's answer in its own place: the lanes that ended    *)
(* without a fault have pulled and answered the whole batch.                *)
THEOREM AnswersInRequestOrderHolds == Spec => []AnswersInRequestOrder
<1>1. ASSUME BatchInv, response = "200", NEW e \in Entries
      PROVE  slot[e] = e /\ stage[e] = "decided"
  <2>1. fault = 0 /\ \A l \in Lanes : lane[l] = 0
    BY <1>1 DEF BatchInv, Responded, AllEnded
  <2>2. next = BatchSize
    BY <2>1, <1>1, LanesOfEntries DEF BatchInv, Pulled
  <2>3. stage[e] # "queued" /\ e # 0
    BY <1>1, <2>2, LanesOfEntries DEF BatchInv, Pulled
  <2> QED BY <1>1, <2>1, <2>3 DEF BatchInv, Left
<1>2. BatchInv => AnswersInRequestOrder
  BY <1>1 DEF AnswersInRequestOrder
<1> QED BY <1>2, BatchInvariance, PTL

(* A failure is named after what failed with it in its own decision, of     *)
(* however many that share its error object (FailureRecord, classify).      *)
THEOREM NamedInOwnDecisionHolds == Spec => []NamedInOwnDecision
<1>1. ASSUME BatchInv, NEW e \in Entries, failure[e] # NONE
      PROVE  CASE failure[e].source \in Sides -> collect[e][failure[e].source] = cause[e]
               [] failure[e].source = "evaluator" -> Whole(e)
               [] OTHER -> cause[e] \in {Conflict, CallerReason}
  <2>1. /\ cause[e] \in Causes /\ failure[e].source = failures[e][cause[e]]
        /\ failures[e][cause[e]] \in Sources \cup {NONE} /\ Recorded(e)
    BY <1>1 DEF BatchInv, BatchTyped, Decisions, Classified, Classify
  <2>2. CASE failures[e][cause[e]] \in Sides
    BY <2>1, <2>2, SourcesApart DEF Recorded
  <2>3. CASE failures[e][cause[e]] = "evaluator"
    BY <2>1, <2>3, SourcesApart DEF Recorded
  <2>4. CASE failures[e][cause[e]] = NONE
    BY <2>1, <2>4, SourcesApart DEF Recorded
  <2> QED BY <2>1, <2>2, <2>3, <2>4 DEF Sources
<1>2. BatchInv => NamedInOwnDecision
  BY <1>1 DEF NamedInOwnDecision, Whole
<1> QED BY <1>2, BatchInvariance, PTL

(* A batch goes unanswered only for the caller's own leaving, and a failure *)
(* that is a deny never fails it (the catch around Promise.all).            *)
THEOREM FaultsAreAnsweredHolds == Spec => []FaultsAreAnswered
<1>1. BatchInv => FaultsAreAnswered
  BY DEF BatchInv, Responded
<1> QED BY <1>1, BatchInvariance, PTL

(* No lane pulls an entry once the batch has its response: one that is left *)
(* finds the batch abandoned, and a 200 leaves none.                        *)
THEOREM StopsPullingHolds == Spec => StopsPulling
<1>1. ASSUME BatchInv, [Next]_vars, response # NONE, NEW d \in Entries, stage[d] = "queued"
      PROVE  stage'[d] = "queued"
  <2>1. ASSUME NEW e \in Entries, stage[e] # "queued",
               \E where \in Stages : stage' = [stage EXCEPT ![e] = where]
        PROVE  stage'[d] = "queued"
    BY <1>1, <2>1 DEF BatchInv, BatchTyped
  <2>2. ASSUME NEW e \in Entries, NEW s \in Sides, Settle(e, s) PROVE stage'[d] = "queued"
    BY <1>1, <2>2 DEF Settle, CollectResolves, CollectRejects
  <2>3. ASSUME NEW e \in Entries, Evaluate(e) \/ EvaluateSettles(e) \/ DecisionFails(e)
        PROVE  stage'[d] = "queued"
    BY <1>1, <2>1, <2>3
       DEF Stages, Evaluate, EvaluateSettles, EvaluateDecides, EvaluateThrows, DecisionFails
  <2>4. ASSUME NEW l \in Lanes, LaneAdvances(l) PROVE stage'[d] = "queued"
    <3>1. response # "200"
      BY <1>1, <2>4 DEF LaneAdvances, BatchInv, Responded, AllEnded
    <3>2. Abandoned
      BY <1>1, <3>1 DEF BatchInv, BatchTyped, Abandoned
    <3> QED BY <1>1, <2>4, <3>2 DEF LaneAdvances, PullNext
  <2>5. CASE (\E l \in Lanes : LaneFails(l)) \/ Answer200 \/ AnswerFault \/ CallerLeaves \/ UNCHANGED vars
    BY <1>1, <2>5 DEF LaneFails, Answer200, AnswerFault, CallerLeaves, vars
  <2> QED BY <1>1, <2>2, <2>3, <2>4, <2>5 DEF Next
<1>2. BatchInv /\ [Next]_vars =>
        [response # NONE => \A e \in Entries : stage[e] = "queued" => stage'[e] = "queued"]_vars
  BY <1>1
<1> QED BY <1>2, BatchInvariance, PTL DEF Spec, StopsPulling

(* What the cap on the lanes does bound: the entries begun and not decided, *)
(* by an injection of them into the lanes.                                  *)
Deciding == {e \in Entries : stage[e] \in {"collecting", "evaluating"}}
DecidedAtOnce == IsFiniteSet(Deciding) /\ Cardinality(Deciding) <= BatchConcurrency

(* Each decision under way is held by a lane, and by a lane of its own.     *)
LEMMA DecidingIsBounded == ASSUME BatchInv PROVE DecidedAtOnce
<1> DEFINE held == [e \in Deciding |-> CHOOSE l \in Lanes : lane[l] = e]
<1>1. ASSUME NEW e \in Deciding PROVE held[e] \in Lanes /\ lane[held[e]] = e
  <2>1. \E l \in Lanes : lane[l] = e
    BY LanesOfEntries DEF BatchInv, BatchTyped, Left, Deciding
  <2> QED BY <2>1
<1>2. held \in Injection(Deciding, Lanes)
  <2>1. held \in [Deciding -> Lanes]
    BY <1>1
  <2>2. \A d, e \in Deciding : held[d] = held[e] => d = e
    BY <1>1
  <2> HIDE DEF held
  <2> QED BY <2>1, <2>2 DEF Injection, IsInjective
<1>3. IsFiniteSet(Lanes) /\ Cardinality(Lanes) = LaneCount
  BY LanesOfEntries, FS_Interval
<1> HIDE DEF held
<1>4. IsFiniteSet(Deciding) /\ Cardinality(Deciding) <= LaneCount
  BY <1>2, <1>3, FS_Injection
<1>5. Cardinality(Deciding) \in Nat
  BY <1>4, FS_CardinalityType
<1> QED BY <1>4, <1>5, LanesOfEntries, BatchAssumption DEF DecidedAtOnce

(* However large the batch, no more of its entries than batchConcurrency    *)
(* are being decided (the lanes of the batch route); their collects may     *)
(* outlast them, which is why PerRequestCeiling fails.                      *)
THEOREM DecidedAtOnceHolds == Spec => []DecidedAtOnce
<1>1. BatchInv => DecidedAtOnce
  BY DecidingIsBounded
<1> QED BY <1>1, BatchInvariance, PTL

=============================================================================
