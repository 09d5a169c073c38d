------------------------ MODULE AgentReadBackProofs ------------------------
(***************************************************************************)
(* Proofs about AgentReadBack for any number of authorization calls, any   *)
(* Cedar printings, any interval and any number of faults: an answer that  *)
(* may come from a changed set is refused, a set that was found changed is *)
(* left as it is, no answered call escapes the accounting of reads, and a  *)
(* changed set is not used past the detection window.                      *)
(***************************************************************************)
EXTENDS AgentReadBack, TLAPS

(* What a read or a push was answered with is a set.                        *)
GotSet == check.at \in {"answered", "push", "pushed"} => check.got \in AgentSets

Typed == TypeOK /\ GotSet
-----------------------------------------------------------------------------
(* The sets, refusals and checks the actions name have their types.         *)
LEMMA Named ==
  /\ \A p \in Prints : Load(p) \in AgentSets /\ Load(p).set = "load"
  /\ Empty \in AgentSets /\ Other \in AgentSets
  /\ Empty.set # "load" /\ Other.set # "load"
  /\ Altered \in Refusals /\ Unverifiable \in Refusals /\ Altered # Unverifiable
  /\ NONE \notin Refusals /\ NONE \notin AgentSets
  /\ Interval \in Nat /\ Interval > 0
  /\ Interval \in Waits
  /\ NoCheck \in Checks /\ Idle \in CallStates
<1>1. \A p \in Prints : Load(p) \in AgentSets /\ Load(p).set = "load"
  BY DEF AgentSets, Load
<1>2. Empty \in AgentSets /\ Other \in AgentSets
  BY DEF AgentSets
<1>3. Empty.set # "load" /\ Other.set # "load"
  BY DEF Empty, Other
<1>4. Altered \in Refusals /\ Unverifiable \in Refusals /\ Altered # Unverifiable
  BY DEF Refusals, Altered, Unverifiable
<1>5. Interval \in Nat /\ Interval > 0 /\ Interval \in Waits
  BY ReadBackAssumption DEF Waits
<1>6. NoCheck \in Checks
  BY DEF NoCheck, Checks
<1>7. Idle \in CallStates
  BY DEF Idle, CallStates
<1> QED BY <1>1, <1>2, <1>3, <1>4, <1>5, <1>6, <1>7, ReadBackAssumption

(* A refusal crosses the calls that are out and changes nothing else of     *)
(* them.                                                                    *)
LEMMA CrossTyped ==
  ASSUME TypeOK, CrossAll
  PROVE  call' \in [Calls -> CallStates]
BY DEF TypeOK, CrossAll, CallStates, Out

(* refuse keeps the types of the refusal and of the calls.                  *)
LEMMA RefuseTyped ==
  ASSUME TypeOK, NEW why \in Refusals, Refuse(why)
  PROVE  /\ refusal' = why /\ refusal' # NONE
         /\ begun' \in Refusals \cup {NONE}
         /\ generation' \in Nat
         /\ call' \in [Calls -> CallStates]
<1>1. CASE refusal = why
  BY <1>1, Named DEF Refuse, TypeOK, refusalVars
<1>2. CASE refusal # why
  BY <1>2, Named, CrossTyped DEF Refuse, TypeOK
<1> QED BY <1>1, <1>2

(* The end of a check keeps the types of its timing.                        *)
LEMMA EndCheckTyped ==
  ASSUME TypeOK, EndCheck
  PROVE  /\ check' = NoCheck /\ check' \in Checks
         /\ wait' \in Waits /\ recheck' \in 1..Interval
         /\ elapsed' = elapsed
BY Named DEF TypeOK, EndCheck

(* Counting what a read answered for keeps the types of the accounting.     *)
LEMMA ReadCountsTyped ==
  ASSUME TypeOK, ReadCounts
  PROVE  /\ heard' \in BOOLEAN /\ heardInRead' \in BOOLEAN
         /\ accepted' \in SUBSET {"before", "during"}
BY DEF TypeOK, ReadCounts

(* A fault keeps the count of faults within its bound, and that of the PUTs *)
(* given up within the faults.                                              *)
LEMMA FaultTyped ==
  ASSUME TypeOK, Fault
  PROVE  /\ faults' \in 0..MaxFaults
         /\ late \in 0..faults' /\ late + 1 \in 0..faults'
BY ReadBackAssumption DEF TypeOK, Fault

(* So does an attempt that is given up.                                     *)
LEMMA GivesUpTyped ==
  ASSUME TypeOK, GivesUp
  PROVE  faults' \in 0..MaxFaults /\ late' \in 0..faults'
BY FaultTyped DEF GivesUp

(* load() leaves the variables typed.                                       *)
LEMMA TypedInit == Init => Typed
<1> SUFFICES ASSUME Init PROVE Typed
  OBVIOUS
<1>1. agent \in AgentSets /\ baseline \in AgentSets
  BY Named DEF Init
<1>2. check \in Checks /\ check.at = "none" /\ call \in [Calls -> CallStates]
  BY Named DEF Init, NoCheck
<1>3. GotSet
  BY <1>2 DEF GotSet
<1>4. cedar \in Prints /\ up \in BOOLEAN /\ faults \in 0..MaxFaults
  BY ReadBackAssumption DEF Init
<1>5. /\ refusal \in Refusals \cup {NONE} /\ begun \in Refusals \cup {NONE}
      /\ generation \in Nat /\ heard \in BOOLEAN /\ heardInRead \in BOOLEAN
      /\ blind \in BOOLEAN /\ accepted \in SUBSET {"before", "during"}
  BY DEF Init
<1>6. /\ elapsed \in 0..Interval /\ wait \in Waits /\ recheck \in 1..Interval
      /\ alteredFor \in 0..Interval
  BY Named DEF Init
<1>7. late \in 0..faults /\ found \in BOOLEAN
  <2>1. late = 0 /\ faults = 0
    BY DEF Init
  <2>2. found = FALSE
    BY DEF Init
  <2>3. late \in 0..faults
    BY <2>1, SMT
  <2>4. found \in BOOLEAN
    BY <2>2, Zenon
  <2> QED BY <2>3, <2>4
<1> QED BY <1>1, <1>2, <1>3, <1>4, <1>5, <1>6, <1>7 DEF Typed, TypeOK

(* The environment's steps and time keep the types.                         *)
LEMMA TypedEnvironment ==
  ASSUME Typed, Environment \/ Tick
  PROVE  Typed'
<1> USE Named, ReadBackAssumption DEF Typed
<1>1. CASE SetReplaced
  <2>1. agent' \in AgentSets /\ alteredFor' \in 0..Interval /\ found' \in BOOLEAN
    BY <1>1 DEF SetReplaced, HoldsAfterwards, TypeOK
  <2> QED BY <1>1, <2>1, FaultTyped
          DEF SetReplaced, TypeOK, GotSet, refusalVars, timing
<1>2. CASE Restarts
  <2>1. agent' \in AgentSets /\ alteredFor' \in 0..Interval /\ found' \in BOOLEAN
    BY <1>2 DEF Restarts, HoldsAfterwards, TypeOK
  <2> QED BY <1>2, <2>1, FaultTyped
          DEF Restarts, TypeOK, GotSet, refusalVars, timing
<1>3. CASE ConnectivityChanges
  <2>1. faults' \in 0..MaxFaults /\ late' \in 0..faults' /\ up' \in BOOLEAN
    BY <1>3, FaultTyped DEF ConnectivityChanges, TypeOK
  <2> QED BY <1>3, <2>1
          DEF ConnectivityChanges, TypeOK, GotSet, refusalVars, timing, history
<1>4. CASE Tick
  <2>1. elapsed' \in 0..Interval /\ alteredFor' \in 0..Interval
    BY <1>4 DEF Tick, TypeOK
  <2> QED BY <1>4, <2>1 DEF Tick, TypeOK, GotSet, refusalVars, agentVars
<1>5. CASE TakesLate
  <2>1. agent' \in AgentSets /\ alteredFor' \in 0..Interval /\ found' \in BOOLEAN
    BY <1>5 DEF TakesLate, HoldsAfterwards, TypeOK
  <2>2. late' \in 0..faults'
    BY <1>5 DEF TakesLate, TypeOK
  <2> QED BY <1>5, <2>1, <2>2
          DEF TakesLate, TypeOK, GotSet, refusalVars, timing
<1> QED BY <1>1, <1>2, <1>3, <1>4, <1>5 DEF Environment

(* The steps of a check keep the types.                                     *)
LEMMA TypedCheck ==
  ASSUME Typed, CheckStep
  PROVE  Typed'
<1> USE Named, ReadBackAssumption DEF Typed
<1>0. TypeOK
  OBVIOUS
<1>1. CASE AgentAnswersRead
  <2>1. check' \in Checks /\ check'.got \in AgentSets
    BY <1>1 DEF AgentAnswersRead, TypeOK, Checks
  <2> QED BY <1>1, <2>1
          DEF AgentAnswersRead, TypeOK, GotSet, refusalVars, timing, history, agentVars
<1>2. CASE ReadRetried
  <2>1. check' \in Checks /\ check'.at = "retry"
    BY <1>2 DEF ReadRetried, TypeOK, Checks
  <2> QED BY <1>2, <2>1
          DEF ReadRetried, TypeOK, GotSet, refusalVars, timing, history, agentVars
<1>3. CASE ReadUnreachable
  <2>1. /\ refusal' \in Refusals \cup {NONE} /\ begun' \in Refusals \cup {NONE}
        /\ generation' \in Nat /\ call' \in [Calls -> CallStates]
    BY <1>0, <1>3, RefuseTyped DEF ReadUnreachable, TypeOK, refusalVars
  <2>2. EndCheck /\ check'.at = "none"
    BY <1>3 DEF ReadUnreachable, EndCheck, NoCheck
  <2> QED BY <1>3, <2>1, <2>2, EndCheckTyped
          DEF ReadUnreachable, TypeOK, GotSet, agentVars
<1>4. CASE ReadUnverifiable
  <2>1. /\ refusal' \in Refusals \cup {NONE} /\ begun' \in Refusals \cup {NONE}
        /\ generation' \in Nat /\ call' \in [Calls -> CallStates]
    BY <1>0, <1>4, RefuseTyped DEF ReadUnverifiable
  <2>2. EndCheck /\ check'.at = "none" /\ ReadCounts /\ Fault
    BY <1>4 DEF ReadUnverifiable, EndCheck, NoCheck
  <2> QED BY <1>4, <2>1, <2>2, EndCheckTyped, ReadCountsTyped, FaultTyped
          DEF ReadUnverifiable, TypeOK, GotSet
<1>5. CASE ReadSame
  <2>1. /\ refusal' \in Refusals \cup {NONE} /\ begun' \in Refusals \cup {NONE}
        /\ generation' \in Nat /\ call' \in [Calls -> CallStates]
        /\ heard' \in BOOLEAN /\ heardInRead' \in BOOLEAN
        /\ accepted' \in SUBSET {"before", "during"}
    BY <1>0, <1>5, ReadCountsTyped DEF ReadSame, Lift, TypeOK, refusalVars
  <2>2. EndCheck /\ check'.at = "none"
    BY <1>5 DEF ReadSame, EndCheck, NoCheck
  <2> QED BY <1>5, <2>1, <2>2, EndCheckTyped DEF ReadSame, TypeOK, GotSet, agentVars
<1>6. CASE ReadChanged
  <2>1. /\ refusal' \in Refusals \cup {NONE} /\ begun' \in Refusals \cup {NONE}
        /\ generation' \in Nat /\ call' \in [Calls -> CallStates]
    BY <1>0, <1>6, RefuseTyped DEF ReadChanged
  <2>2. EndCheck /\ check'.at = "none" /\ ReadCounts /\ found' \in BOOLEAN
    BY <1>6 DEF ReadChanged, EndCheck, NoCheck
  <2> QED BY <1>6, <2>1, <2>2, EndCheckTyped, ReadCountsTyped
          DEF ReadChanged, TypeOK, GotSet, agentVars
<1>7. CASE ReadEmpty
  <2>1. /\ refusal' \in Refusals \cup {NONE} /\ begun' \in Refusals \cup {NONE}
        /\ generation' \in Nat /\ call' \in [Calls -> CallStates]
    BY <1>0, <1>7, RefuseTyped DEF ReadEmpty
  <2>2. check' \in Checks /\ check'.got \in AgentSets
    BY <1>7 DEF ReadEmpty, TypeOK, Checks
  <2>3. ReadCounts
    BY <1>7 DEF ReadEmpty
  <2> QED BY <1>7, <2>1, <2>2, <2>3, ReadCountsTyped
          DEF ReadEmpty, TypeOK, GotSet, agentVars, timing
<1>8. CASE AgentTakesPush
  <2>1. check' \in Checks /\ check'.got \in AgentSets
    BY <1>8 DEF AgentTakesPush, TypeOK, Checks
  <2>2. agent' \in AgentSets /\ alteredFor' \in 0..Interval /\ found' \in BOOLEAN
    BY <1>8 DEF AgentTakesPush, HoldsAfterwards, TypeOK
  <2> QED BY <1>8, <2>1, <2>2 DEF AgentTakesPush, TypeOK, GotSet, refusalVars, timing
<1>9. CASE PushAnswered
  <2>1. baseline' \in AgentSets
    BY <1>9 DEF PushAnswered, GotSet
  <2>2. EndCheck /\ check'.at = "none"
    BY <1>9 DEF PushAnswered, EndCheck, NoCheck
  <2> QED BY <1>9, <2>1, <2>2, EndCheckTyped
          DEF PushAnswered, Lift, TypeOK, GotSet, agentVars
<1>10. CASE PushFails
  <2>1. EndCheck /\ check'.at = "none"
    BY <1>10 DEF PushFails, EndCheck, NoCheck
  <2>2. faults' \in 0..MaxFaults /\ late' \in 0..faults'
    BY <1>10, GivesUpTyped DEF PushFails, TypeOK
  <2> QED BY <1>10, <2>1, <2>2, EndCheckTyped
          DEF PushFails, TypeOK, GotSet, refusalVars
<1>11. CASE PushRetried
  <2>1. check' \in Checks /\ check'.got = check.got /\ check.got \in AgentSets
    BY <1>11 DEF PushRetried, GivesUp, TypeOK, GotSet, Checks
  <2>2. faults' \in 0..MaxFaults /\ late' \in 0..faults'
    BY <1>11, GivesUpTyped DEF PushRetried
  <2> QED BY <1>11, <2>1, <2>2
          DEF PushRetried, TypeOK, GotSet, refusalVars, timing, history
<1> QED BY <1>1, <1>2, <1>3, <1>4, <1>5, <1>6, <1>7, <1>8, <1>9, <1>10, <1>11
        DEF CheckStep

(* The steps of an authorization call keep the types.                       *)
LEMMA TypedCall ==
  ASSUME Typed, NEW k \in Calls,
         Ask(k) \/ AgentServes(k) \/ Deliver(k) \/ CallFails(k)
  PROVE  Typed'
<1> USE Named, ReadBackAssumption DEF Typed
<1>1. CASE Ask(k)
  <2>1. call' \in [Calls -> CallStates]
    BY <1>1 DEF Ask, TypeOK, CallStates
  <2>2. /\ check' \in Checks /\ elapsed' \in 0..Interval /\ heardInRead' \in BOOLEAN
        /\ check'.at \in {"answered", "push", "pushed"} => check'.got \in AgentSets
    <3>1. CASE check.at = "none" /\ Due
      <4>1. check' = [at |-> "read", refusing |-> refusal # NONE, got |-> NONE]
        BY <1>1, <3>1 DEF Ask, Poll
      <4>2. check' \in Checks /\ check'.at = "read"
        BY <4>1, Zenon DEF Checks
      <4>3. elapsed' = 0 /\ heardInRead' = FALSE
        BY <1>1, <3>1 DEF Ask, Poll
      <4>4. 0 \in 0..Interval /\ "read" \notin {"answered", "push", "pushed"}
        BY SMT
      <4> QED BY <4>2, <4>3, <4>4
    <3>2. CASE ~(check.at = "none" /\ Due)
      BY <1>1, <3>2 DEF Ask, Poll, TypeOK, GotSet
    <3> QED BY <3>1, <3>2
  <2> QED BY <1>1, <2>1, <2>2 DEF Ask, TypeOK, GotSet, refusalVars, agentVars, history
<1>2. CASE AgentServes(k)
  <2>1. call' \in [Calls -> CallStates]
    BY <1>2 DEF AgentServes, TypeOK, CallStates
  <2> QED BY <1>2, <2>1
          DEF AgentServes, TypeOK, GotSet, refusalVars, timing, history, agentVars
<1>3. CASE Deliver(k)
  <2>1. call' \in [Calls -> CallStates]
    BY <1>3 DEF Deliver, TypeOK, CallStates
  <2>2. accepted' \in SUBSET {"before", "during"}
    BY <1>3 DEF Deliver, TypeOK
  <2> QED BY <1>3, <2>1, <2>2
          DEF Deliver, TypeOK, GotSet, refusalVars, timing, agentVars
<1>4. CASE CallFails(k)
  <2>1. call' \in [Calls -> CallStates]
    BY <1>4 DEF CallFails, TypeOK
  <2> QED BY <1>4, <2>1
          DEF CallFails, TypeOK, GotSet, refusalVars, timing, history, agentVars
<1> QED BY <1>1, <1>2, <1>3, <1>4

(* Each step keeps the types.                                               *)
LEMMA TypedStep == Typed /\ [Next]_vars => Typed'
<1>1. Typed /\ UNCHANGED vars => Typed'
  BY DEF Typed, TypeOK, GotSet, vars, agentVars, refusalVars, timing, history
<1> QED BY <1>1, TypedEnvironment, TypedCheck, TypedCall DEF Next

(* Every variable of the read-back keeps its type: the back-off stays       *)
(* within the interval (poll's finally), and a push is answered by a set.   *)
THEOREM ReadBackTyped == Spec => []TypeOK
<1>1. Typed => TypeOK
  BY DEF Typed
<1> QED BY <1>1, TypedInit, TypedStep, PTL DEF Spec
-----------------------------------------------------------------------------
(* A call that was out when answers were refused was made in an earlier     *)
(* generation, and a generation that began has a refusal it began with.     *)
Crossing ==
  \A k \in Calls : Out(k) =>
    /\ call[k].made <= generation
    /\ call[k].crossed => call[k].made < generation
BegunNamed == generation # 0 => begun # NONE
LateInv == Typed /\ LateAnswersRefused /\ Crossing /\ BegunNamed

(* Another refusal is a later generation, which every call out is behind.   *)
LEMMA RefuseCrosses ==
  ASSUME LateInv, NEW why \in Refusals, Refuse(why)
  PROVE  LateAnswersRefused' /\ Crossing' /\ BegunNamed'
<1> USE DEF LateInv
<1>1. CASE refusal = why
  BY <1>1 DEF Refuse, refusalVars, LateAnswersRefused, Crossing, BegunNamed, Out
<1>2. CASE refusal # why
  <2>1. begun' = why /\ generation' = generation + 1 /\ CrossAll
    BY <1>2 DEF Refuse
  <2>2. generation \in Nat /\ call \in [Calls -> CallStates]
    BY DEF Typed, TypeOK
  <2>3. BegunNamed'
    BY <2>1, Named DEF BegunNamed
  <2>4. ASSUME NEW k \in Calls
        PROVE  /\ Out(k) => call'[k] = [call[k] EXCEPT !.crossed = TRUE]
               /\ ~Out(k) => call'[k] = call[k]
    BY <2>1, <2>2 DEF CrossAll
  <2>5. LateAnswersRefused'
    BY <2>2, <2>4 DEF LateAnswersRefused, Out, CallStates
  <2>6. ASSUME NEW k \in Calls, Out(k)'
        PROVE  /\ call'[k].made <= generation'
               /\ call'[k].crossed => call'[k].made < generation'
    <3>1. Out(k) /\ call'[k].made = call[k].made
      BY <2>2, <2>4, <2>6 DEF Out, CallStates
    <3>2. call[k].made <= generation /\ call[k].made \in Nat
      BY <2>2, <3>1 DEF Crossing, CallStates
    <3> QED BY <2>1, <2>2, <3>1, <3>2
  <2>7. Crossing'
    BY <2>6 DEF Crossing
  <2> QED BY <2>3, <2>5, <2>7
<1> QED BY <1>1, <1>2

(* What a call, a refusal's beginning and the generations leave as they are *)
(* keeps the invariant.                                                     *)
LEMMA LateUnchanged ==
  ASSUME LateInv, UNCHANGED <<call, begun, generation>>
  PROVE  LateAnswersRefused' /\ Crossing' /\ BegunNamed'
BY DEF LateInv, LateAnswersRefused, Crossing, BegunNamed, Out

(* Each step of a check begins a refusal or leaves the calls alone.         *)
LEMMA CheckRefusesOrNot ==
  ASSUME CheckStep
  PROVE  \/ \E why \in Refusals : Refuse(why)
         \/ UNCHANGED <<call, begun, generation>>
<1>1. CASE AgentAnswersRead \/ ReadRetried \/ AgentTakesPush \/ PushRetried \/ PushFails
  BY <1>1 DEF AgentAnswersRead, ReadRetried, AgentTakesPush, PushRetried, PushFails,
              refusalVars
<1>2. CASE ReadUnreachable
  BY <1>2, Named DEF ReadUnreachable, refusalVars
<1>3. CASE ReadUnverifiable
  <2>1. Refuse(Unverifiable)
    BY <1>3 DEF ReadUnverifiable
  <2> QED BY <2>1, Named
<1>4. CASE ReadSame
  BY <1>4 DEF ReadSame, Lift, refusalVars
<1>5. CASE ReadChanged \/ ReadEmpty
  <2>1. Refuse(Altered)
    BY <1>5 DEF ReadChanged, ReadEmpty
  <2> QED BY <2>1, Named
<1>6. CASE PushAnswered
  BY <1>6 DEF PushAnswered, Lift
<1> QED BY <1>1, <1>2, <1>3, <1>4, <1>5, <1>6 DEF CheckStep

(* Each step of a call keeps the invariant: an answer is given only when no *)
(* refusal stands and none began since the call was made.                   *)
LEMMA LateCall ==
  ASSUME LateInv, NEW k \in Calls,
         Ask(k) \/ AgentServes(k) \/ Deliver(k) \/ CallFails(k)
  PROVE  LateAnswersRefused' /\ Crossing' /\ BegunNamed'
<1> USE DEF LateInv
<1>0. generation \in Nat /\ call \in [Calls -> CallStates]
  BY DEF Typed, TypeOK
<1>1. CASE Ask(k)
  <2>1. UNCHANGED <<begun, generation>>
    BY <1>1 DEF Ask, refusalVars
  <2>2. call' = [call EXCEPT ![k] =
                   IF refusal # NONE
                   THEN [at |-> "refused", made |-> 0, crossed |-> FALSE]
                   ELSE [at |-> "out", made |-> generation, crossed |-> FALSE]]
    BY <1>1 DEF Ask
  <2>3. call'[k].at # "accepted" /\ ~call'[k].crossed /\ (Out(k)' => call'[k].made = generation)
    BY <1>0, <2>2 DEF Out
  <2>4. \A j \in Calls \ {k} : call'[j] = call[j]
    BY <1>0, <2>2
  <2> QED BY <1>0, <2>1, <2>3, <2>4
          DEF LateAnswersRefused, Crossing, BegunNamed, Out
<1>2. CASE AgentServes(k)
  <2>1. UNCHANGED <<begun, generation>>
    BY <1>2 DEF AgentServes, refusalVars
  <2>2. call' = [call EXCEPT ![k].at = "served"] /\ call[k].at = "out"
    BY <1>2 DEF AgentServes
  <2> QED BY <1>0, <2>1, <2>2
          DEF LateAnswersRefused, Crossing, BegunNamed, Out, CallStates
<1>3. CASE Deliver(k)
  <2> DEFINE given == RefusedSince(call[k].made) = NONE
  <2>1. UNCHANGED <<begun, generation>>
    BY <1>3 DEF Deliver, refusalVars
  <2>2. /\ call[k].at = "served"
        /\ call' = [call EXCEPT ![k].at = IF given THEN "accepted" ELSE "refused"]
    BY <1>3 DEF Deliver
  <2>3. given => ~call[k].crossed
    BY <1>0, <2>2 DEF RefusedSince, Crossing, BegunNamed, Out, CallStates
  <2>4. \A j \in Calls \ {k} : call'[j] = call[j]
    BY <1>0, <2>2
  <2>5. call'[k].crossed = call[k].crossed /\ ~Out(k)' /\ (call'[k].at = "accepted" => given)
    BY <1>0, <2>2 DEF Out, CallStates
  <2> HIDE DEF given
  <2> QED BY <2>1, <2>3, <2>4, <2>5
          DEF LateAnswersRefused, Crossing, BegunNamed, Out
<1>4. CASE CallFails(k)
  <2>1. UNCHANGED <<begun, generation>>
    BY <1>4 DEF CallFails, refusalVars
  <2>2. call' = [call EXCEPT ![k] = Idle]
    BY <1>4 DEF CallFails
  <2> QED BY <1>0, <2>1, <2>2
          DEF LateAnswersRefused, Crossing, BegunNamed, Out, Idle
<1> QED BY <1>1, <1>2, <1>3, <1>4

(* load() leaves the invariant true, and each step keeps it.                *)
LEMMA LateStep ==
  /\ Init => LateInv
  /\ LateInv /\ [Next]_vars => LateInv'
<1>1. Init => LateAnswersRefused /\ Crossing /\ BegunNamed
  BY DEF Init, LateAnswersRefused, Crossing, BegunNamed, Out, Idle
<1>2. ASSUME LateInv, [Next]_vars
      PROVE  LateAnswersRefused' /\ Crossing' /\ BegunNamed'
  <2>1. CASE UNCHANGED vars
    BY <1>2, <2>1, LateUnchanged DEF vars, refusalVars
  <2>2. CASE Environment
    <3>1. UNCHANGED <<call, begun, generation>>
      BY <2>2 DEF Environment, SetReplaced, Restarts, TakesLate, ConnectivityChanges, refusalVars
    <3> QED BY <1>2, <3>1, LateUnchanged
  <2>3. CASE Tick
    BY <1>2, <2>3, LateUnchanged DEF Tick, refusalVars
  <2>4. CASE CheckStep
    BY <1>2, <2>4, CheckRefusesOrNot, RefuseCrosses, LateUnchanged
  <2>5. ASSUME NEW k \in Calls,
               Ask(k) \/ AgentServes(k) \/ Deliver(k) \/ CallFails(k)
        PROVE  LateAnswersRefused' /\ Crossing' /\ BegunNamed'
    BY <1>2, <2>5, LateCall
  <2> QED BY <1>2, <2>1, <2>2, <2>3, <2>4, <2>5 DEF Next
<1> QED BY <1>1, <1>2, TypedInit, TypedStep DEF LateInv

(* No answer is given to a call during whose flight answers were refused at *)
(* any moment, the set restored since or not (agentReadBack.mts:40).        *)
THEOREM LateAnswersRefusedHolds == Spec => []LateAnswersRefused
<1>1. LateInv => LateAnswersRefused
  BY DEF LateInv
<1> QED BY <1>1, LateStep, PTL DEF Spec
-----------------------------------------------------------------------------
(* A push is made, retried and answered under the refusal for an altered    *)
(* set.                                                                     *)
Pushing == check.at \in {"push", "pushed"} => refusal = Altered
PushInv == Typed /\ Pushing

(* The environment, time and the calls leave a push and the refusal it is   *)
(* made under alone: a call at most begins a read.                          *)
LEMMA OnlyChecksPush ==
  ASSUME Environment \/ Tick \/ UNCHANGED vars
         \/ \E k \in Calls : Ask(k) \/ AgentServes(k) \/ Deliver(k) \/ CallFails(k)
  PROVE  /\ refusal' = refusal
         /\ check' = check \/ (check.at = "none" /\ check'.at = "read")
<1>1. CASE Environment
  BY <1>1 DEF Environment, SetReplaced, Restarts, TakesLate, ConnectivityChanges, refusalVars
<1>2. CASE Tick \/ UNCHANGED vars
  BY <1>2 DEF Tick, vars, refusalVars
<1>3. ASSUME NEW k \in Calls, Ask(k) PROVE
         /\ refusal' = refusal
         /\ check' = check \/ (check.at = "none" /\ check'.at = "read")
  BY <1>3 DEF Ask, Poll, refusalVars
<1>4. ASSUME NEW k \in Calls, AgentServes(k) \/ Deliver(k) \/ CallFails(k)
      PROVE  refusal' = refusal /\ check' = check
  BY <1>4 DEF AgentServes, Deliver, CallFails, refusalVars
<1> QED BY <1>1, <1>2, <1>3, <1>4

(* Each step of a check ends it, begins a push under a refusal for an       *)
(* altered set, or keeps a push under the refusal it was made under.        *)
LEMMA CheckPushes ==
  ASSUME PushInv, CheckStep
  PROVE  Pushing'
<1> USE DEF PushInv, Typed
<1>1. CASE AgentAnswersRead \/ ReadRetried
  <2>1. check'.at \in {"answered", "retry"}
    BY <1>1 DEF AgentAnswersRead, ReadRetried, TypeOK, Checks
  <2> QED BY <2>1 DEF Pushing
<1>2. CASE ReadUnreachable \/ ReadUnverifiable \/ ReadSame \/ ReadChanged
           \/ PushAnswered \/ PushFails
  <2>1. check'.at = "none"
    BY <1>2 DEF ReadUnreachable, ReadUnverifiable, ReadSame, ReadChanged,
                PushAnswered, PushFails, EndCheck, NoCheck
  <2> QED BY <2>1 DEF Pushing
<1>3. CASE ReadEmpty
  <2>1. refusal' = Altered
    BY <1>3, Named, RefuseTyped DEF ReadEmpty
  <2> QED BY <2>1 DEF Pushing
<1>4. CASE AgentTakesPush \/ PushRetried
  <2>1. refusal' = refusal /\ check.at \in {"push", "pushed"}
    BY <1>4 DEF AgentTakesPush, PushRetried, GivesUp, refusalVars
  <2> QED BY <2>1 DEF Pushing
<1> QED BY <1>1, <1>2, <1>3, <1>4 DEF CheckStep

(* load() leaves the invariant true, and each step keeps it.                *)
LEMMA PushStep ==
  /\ Init => PushInv
  /\ PushInv /\ [Next]_vars => PushInv'
<1>1. Init => Pushing
  BY DEF Init, NoCheck, Pushing
<1>2. ASSUME PushInv, [Next]_vars PROVE Pushing'
  <2>1. CASE CheckStep
    BY <1>2, <2>1, CheckPushes
  <2>2. CASE ~CheckStep
    <3>1. /\ refusal' = refusal
          /\ check' = check \/ (check.at = "none" /\ check'.at = "read")
      BY <1>2, <2>2, OnlyChecksPush DEF Next
    <3> QED BY <1>2, <3>1 DEF PushInv, Pushing
  <2> QED BY <2>1, <2>2
<1> QED BY <1>1, <1>2, TypedInit, TypedStep DEF PushInv

(* A set that was found changed is neither the baseline nor nothing, so no  *)
(* check that reads it lifts the refusal or pushes; and whatever a running  *)
(* check was answered with while it stood is that set.                      *)
FoundStays ==
  found =>
    /\ agent \notin {baseline, Empty}
    /\ refusal # NONE
    /\ check.at \notin {"push", "pushed"}
    /\ check.at = "answered" => check.got = agent
FoundInv == PushInv /\ FoundStays

(* Another set is not the one that was found; the same one still is.        *)
LEMMA FoundOutside ==
  ASSUME FoundInv, Environment \/ Tick \/ UNCHANGED vars
  PROVE  FoundStays'
<1>1. ASSUME NEW s, HoldsAfterwards(s), UNCHANGED <<baseline, refusal, check>>
      PROVE  FoundStays'
  <2>1. agent' = s /\ (found' => found /\ s = agent)
    BY <1>1 DEF HoldsAfterwards
  <2> QED BY <1>1, <2>1 DEF FoundInv, FoundStays
<1>2. CASE SetReplaced
  <2>1. PICK s \in {Other, Load(cedar)} \ {agent} : HoldsAfterwards(s)
    BY <1>2 DEF SetReplaced
  <2>2. UNCHANGED <<baseline, refusal, check>>
    BY <1>2 DEF SetReplaced, refusalVars
  <2> QED BY <1>1, <2>1, <2>2
<1>3. CASE Restarts
  BY <1>1, <1>3 DEF Restarts, refusalVars
<1>4. CASE TakesLate
  BY <1>1, <1>4 DEF TakesLate, refusalVars
<1>5. CASE ConnectivityChanges \/ Tick \/ UNCHANGED vars
  <2>1. UNCHANGED <<agent, found, baseline, refusal, check>>
    BY <1>5 DEF ConnectivityChanges, Tick, vars, agentVars, refusalVars, history
  <2> QED BY <2>1 DEF FoundInv, FoundStays
<1> QED BY <1>2, <1>3, <1>4, <1>5 DEF Environment

(* A call at most begins a read.                                            *)
LEMMA FoundCall ==
  ASSUME FoundInv, NEW k \in Calls,
         Ask(k) \/ AgentServes(k) \/ Deliver(k) \/ CallFails(k)
  PROVE  FoundStays'
<1>1. UNCHANGED <<agent, found, baseline, refusal>>
  BY DEF Ask, AgentServes, Deliver, CallFails, agentVars, refusalVars, history
<1>2. check' = check \/ check'.at = "read"
  BY DEF Ask, Poll, AgentServes, Deliver, CallFails
<1> QED BY <1>1, <1>2 DEF FoundInv, FoundStays

(* A check that reads the set found changed finds it so again, or learns    *)
(* nothing; one that pushes began before it was found.                      *)
LEMMA FoundCheck ==
  ASSUME FoundInv, CheckStep
  PROVE  FoundStays'
<1> USE DEF FoundInv, PushInv, Typed
<1>1. CASE AgentAnswersRead \/ ReadRetried
  <2>1. UNCHANGED <<agent, found, baseline, refusal>>
    BY <1>1 DEF AgentAnswersRead, ReadRetried, agentVars, refusalVars, history
  <2>2. /\ check'.at \in {"answered", "retry"}
        /\ check'.at = "answered" => check'.got = agent
    BY <1>1 DEF AgentAnswersRead, ReadRetried, TypeOK, Checks
  <2> QED BY <2>1, <2>2 DEF FoundStays
<1>2. CASE ReadUnreachable \/ ReadUnverifiable
  <2>1. UNCHANGED <<agent, found, baseline>> /\ check'.at = "none"
    BY <1>2 DEF ReadUnreachable, ReadUnverifiable, EndCheck, NoCheck, agentVars
  <2>2. refusal # NONE => refusal' # NONE
    BY <1>2, RefuseTyped, Named DEF ReadUnreachable, ReadUnverifiable, refusalVars
  <2> QED BY <2>1, <2>2 DEF FoundStays
<1>3. CASE ReadSame \/ ReadEmpty
  <2>1. check.at = "answered" /\ check.got \in {baseline, Empty} /\ found' = found
    BY <1>3 DEF ReadSame, ReadEmpty
  <2> QED BY <2>1 DEF FoundStays
<1>4. CASE ReadChanged
  <2>1. /\ found' = (check.got = agent) /\ check.got \notin {baseline, Empty}
        /\ check'.at = "none" /\ UNCHANGED <<agent, baseline>>
    BY <1>4 DEF ReadChanged, EndCheck, NoCheck, agentVars
  <2>2. refusal' # NONE
    BY <1>4, RefuseTyped, Named DEF ReadChanged
  <2> QED BY <2>1, <2>2 DEF FoundStays
<1>5. CASE AgentTakesPush \/ PushAnswered \/ PushRetried \/ PushFails
  <2>1. check.at \in {"push", "pushed"}
    BY <1>5 DEF AgentTakesPush, PushAnswered, PushRetried, PushFails, GivesUp
  <2>2. CASE AgentTakesPush
    BY <2>1, <2>2 DEF AgentTakesPush, HoldsAfterwards, FoundStays
  <2>3. CASE ~AgentTakesPush
    <3>1. found' = found
      BY <1>5, <2>3 DEF PushAnswered, PushRetried, PushFails, history
    <3> QED BY <2>1, <3>1 DEF FoundStays
  <2> QED BY <2>2, <2>3
<1> QED BY <1>1, <1>2, <1>3, <1>4, <1>5 DEF CheckStep

(* Of what changes the set that was found, nothing is a push of this load's *)
(* on its way.                                                              *)
LEMMA FoundLeft ==
  ASSUME FoundInv, Next, found, agent' # agent
  PROVE  SetReplaced \/ Restarts \/ TakesLate
<1>1. ASSUME CheckStep PROVE AgentTakesPush
  BY <1>1 DEF CheckStep, AgentAnswersRead, ReadRetried, ReadUnreachable,
              ReadUnverifiable, ReadSame, ReadChanged, ReadEmpty, PushAnswered,
              PushRetried, PushFails, agentVars
<1>2. ~CheckStep
  BY <1>1 DEF AgentTakesPush, FoundInv, FoundStays
<1>3. ~(Tick \/ \E k \in Calls : Ask(k) \/ AgentServes(k) \/ Deliver(k) \/ CallFails(k))
  BY DEF Tick, Ask, AgentServes, Deliver, CallFails, agentVars
<1>4. ~ConnectivityChanges
  BY DEF ConnectivityChanges
<1> QED BY <1>2, <1>3, <1>4 DEF Next, Environment

(* A set that a check found changed is left for an operator to see: while   *)
(* the agent holds it, every answer is refused and no push of this load     *)
(* writes over it - only someone else does, or a PUT given up before it was *)
(* found that reaches the agent late (agentReadBack.mts:44-50, 262-275).    *)
THEOREM FoundIsLeftHolds == Spec => FoundIsLeft
<1>1. Init => FoundInv
  <2>1. Init => FoundStays
    BY DEF Init, FoundStays
  <2> QED BY <2>1, PushStep DEF FoundInv
<1>2. FoundInv /\ [Next]_vars => FoundInv'
  <2>1. FoundInv /\ [Next]_vars => FoundStays'
    BY FoundOutside, FoundCall, FoundCheck DEF Next
  <2> QED BY <2>1, PushStep DEF FoundInv
<1>3. FoundInv /\ [Next]_vars =>
        [found => /\ refusal # NONE
                  /\ agent' # agent => SetReplaced \/ Restarts \/ TakesLate]_vars
  BY FoundLeft DEF FoundInv, FoundStays
<1> QED BY <1>1, <1>2, <1>3, PTL DEF Spec, FoundIsLeft
-----------------------------------------------------------------------------
(* Answered calls that no read has accounted for are counted as heard, and  *)
(* those answered during a read outlive it.                                 *)
Accounted ==
  /\ accepted # {} => heard
  /\ "during" \in accepted =>
       heardInRead /\ check.at \in {"read", "retry", "answered"}
HeardInv == PushInv /\ Accounted

(* A read that counts leaves the calls answered during it accounted as      *)
(* heard before the next one, and none as heard during it.                  *)
LEMMA ReadCountsAccounts ==
  ASSUME HeardInv, ReadCounts
  PROVE  Accounted'
BY DEF HeardInv, ReadCounts, Accounted

(* Every step of a check keeps the accounting.                              *)
LEMMA CheckAccounts ==
  ASSUME HeardInv, CheckStep
  PROVE  Accounted'
<1> USE DEF HeardInv, PushInv, Typed
<1>1. CASE AgentAnswersRead \/ ReadRetried
  <2>1. check'.at \in {"answered", "retry"}
    BY <1>1 DEF AgentAnswersRead, ReadRetried, TypeOK, Checks
  <2>2. UNCHANGED <<heard, heardInRead, accepted>>
    BY <1>1 DEF AgentAnswersRead, ReadRetried, history
  <2> QED BY <2>1, <2>2 DEF Accounted
<1>2. CASE ReadUnverifiable \/ ReadChanged \/ ReadEmpty
  BY <1>2, ReadCountsAccounts DEF ReadUnverifiable, ReadChanged, ReadEmpty
<1>3. CASE ReadUnreachable
  BY <1>3 DEF ReadUnreachable, Accounted
<1>4. CASE ReadSame
  <2>1. CASE refusal # NONE
    BY <1>4, <2>1 DEF ReadSame, Lift, Accounted
  <2>2. CASE refusal = NONE
    BY <1>4, <2>2, ReadCountsAccounts DEF ReadSame
  <2> QED BY <2>1, <2>2
<1>5. CASE AgentTakesPush
  <2>1. check.at = "push" /\ UNCHANGED <<heard, heardInRead, accepted>>
    BY <1>5 DEF AgentTakesPush
  <2> QED BY <2>1 DEF Accounted
<1>6. CASE PushAnswered
  BY <1>6 DEF PushAnswered, Lift, Accounted
<1>7. CASE PushFails \/ PushRetried
  <2>1. check.at \in {"push", "pushed"} /\ UNCHANGED <<heard, accepted>>
    BY <1>7 DEF PushFails, PushRetried, GivesUp, history
  <2> QED BY <2>1 DEF Accounted
<1> QED BY <1>1, <1>2, <1>3, <1>4, <1>5, <1>6, <1>7 DEF CheckStep

(* The steps outside a check keep the accounting: an answer given while a   *)
(* push is on its way is refused, so what is given during a check is given  *)
(* during its read.                                                         *)
LEMMA OthersAccount ==
  ASSUME HeardInv, [Next]_vars, ~CheckStep
  PROVE  Accounted'
<1> USE DEF HeardInv, PushInv, Typed
<1>1. CASE UNCHANGED vars
  BY <1>1 DEF vars, history, Accounted
<1>2. CASE Environment
  BY <1>2 DEF Environment, SetReplaced, Restarts, TakesLate, ConnectivityChanges, history, Accounted
<1>3. CASE Tick
  BY <1>3 DEF Tick, Accounted
<1>4. ASSUME NEW k \in Calls, Ask(k)
      PROVE  Accounted'
  <2>1. UNCHANGED <<heard, accepted>>
    BY <1>4 DEF Ask, history
  <2>2. UNCHANGED <<check, heardInRead>> \/ check.at = "none"
    BY <1>4 DEF Ask, Poll
  <2> QED BY <2>1, <2>2 DEF Accounted
<1>5. ASSUME NEW k \in Calls, AgentServes(k) \/ CallFails(k)
      PROVE  Accounted'
  BY <1>5 DEF AgentServes, CallFails, history, Accounted
<1>6. ASSUME NEW k \in Calls, Deliver(k)
      PROVE  Accounted'
  <2>1. heard' /\ heardInRead' = (check.at # "none") /\ check' = check
    BY <1>6 DEF Deliver
  <2>2. CASE accepted' = accepted
    BY <2>1, <2>2 DEF Accounted
  <2>3. CASE accepted' # accepted
    <3>1. refusal = NONE
      BY <1>6, <2>3 DEF Deliver, RefusedSince
    <3>2. check.at \notin {"push", "pushed"}
      BY <3>1, Named DEF Pushing
    <3>3. accepted' = accepted \cup {IF check.at = "none" THEN "before" ELSE "during"}
      BY <1>6, <2>3 DEF Deliver
    <3> QED BY <2>1, <3>2, <3>3 DEF Accounted, TypeOK, Checks
  <2> QED BY <2>2, <2>3
<1> QED BY <1>1, <1>2, <1>3, <1>4, <1>5, <1>6 DEF Next

(* A read that fails in silence accounts for no answer: had one been given  *)
(* since the last read began, answers would be refused.                     *)
LEMMA SilenceMeansUnheard ==
  ASSUME HeardInv
  PROVE  ReadUnreachable /\ refusal' = NONE => accepted = {}
<1> SUFFICES ASSUME ReadUnreachable, refusal' = NONE
             PROVE  accepted = {}
  OBVIOUS
<1>1. ~(refusal = NONE /\ heard)
  BY Named, RefuseTyped DEF ReadUnreachable, HeardInv, PushInv, Typed
<1>2. refusal = NONE
  BY <1>1 DEF ReadUnreachable, refusalVars
<1> QED BY <1>1, <1>2 DEF HeardInv, Accounted

(* A check that cannot reach the agent stays silent only if no answer was   *)
(* given since the last read that showed the set began: an agent that       *)
(* answers calls but hides its set is refused (agentReadBack.mts:33-37).    *)
THEOREM SilentOnlyIfUnheardHolds == Spec => SilentOnlyIfUnheard
<1>1. Init => HeardInv
  <2>1. Init => Accounted
    BY DEF Init, Accounted
  <2> QED BY <2>1, PushStep DEF HeardInv
<1>2. HeardInv /\ [Next]_vars => HeardInv'
  BY CheckAccounts, OthersAccount, PushStep DEF HeardInv
<1>3. HeardInv => [ReadUnreachable /\ refusal' = NONE => accepted = {}]_vars
  BY SilenceMeansUnheard
<1> QED BY <1>1, <1>2, <1>3, PTL DEF Spec, SilentOnlyIfUnheard
-----------------------------------------------------------------------------
(* While nothing is refused, no check runs and the last one was not blind,  *)
(* the agent's set has been another for no longer than since that check     *)
(* began; a read that showed the baseline, and a push, carry this over to   *)
(* the check's end.  The baseline is always a copy of this load's set.      *)
Ours ==
  /\ agent.set = "load" => alteredFor = 0
  /\ baseline.set = "load"
  /\ check.at = "pushed" => check.got.set = "load"
Window ==
  /\ refusal = NONE /\ check.at = "none" /\ ~blind => alteredFor <= elapsed
  /\ check.at = "answered" /\ check.got = baseline => alteredFor <= elapsed
  /\ check.at = "pushed" => alteredFor <= elapsed
WindowInv == PushInv /\ Ours /\ Window

(* What the agent does of its own accord never lengthens an alteration.     *)
LEMMA EnvironmentWindow ==
  ASSUME WindowInv, Environment \/ Tick \/ UNCHANGED vars
  PROVE  Ours' /\ Window'
<1> USE Named DEF WindowInv, PushInv, Typed
<1>0. alteredFor \in Nat /\ elapsed \in Nat
  BY DEF TypeOK
<1>1. ASSUME NEW s \in AgentSets, HoldsAfterwards(s),
             UNCHANGED <<baseline, refusal, check, elapsed, blind>>
      PROVE  Ours' /\ Window'
  BY <1>0, <1>1 DEF HoldsAfterwards, Ours, Window
<1>2. CASE SetReplaced
  <2>1. PICK s \in {Other, Load(cedar)} \ {agent} : HoldsAfterwards(s)
    BY <1>2 DEF SetReplaced
  <2>2. s \in AgentSets
    BY <2>1 DEF TypeOK
  <2>3. UNCHANGED <<baseline, refusal, check, elapsed, blind>>
    BY <1>2 DEF SetReplaced, refusalVars, timing
  <2> QED BY <1>1, <2>1, <2>2, <2>3
<1>3. CASE Restarts
  BY <1>1, <1>3 DEF Restarts, refusalVars, timing
<1>4. CASE ConnectivityChanges
  BY <1>4 DEF ConnectivityChanges, refusalVars, timing, history, Ours, Window
<1>5. CASE Tick
  <2>1. UNCHANGED <<agent, baseline, refusal, check, blind>>
    BY <1>5 DEF Tick, agentVars, refusalVars
  <2>2. /\ elapsed' = elapsed + 1
        /\ alteredFor' = alteredFor \/ alteredFor' = alteredFor + 1
        /\ agent.set = "load" => alteredFor' = alteredFor
    BY <1>5 DEF Tick
  <2> QED BY <1>0, <2>1, <2>2 DEF Ours, Window
<1>6. CASE UNCHANGED vars
  BY <1>6 DEF vars, agentVars, refusalVars, timing, history, Ours, Window
<1>7. CASE TakesLate
  <2>1. Load(cedar) \in AgentSets
    BY DEF TypeOK
  <2> QED BY <1>1, <1>7, <2>1 DEF TakesLate, refusalVars, timing
<1> QED BY <1>2, <1>3, <1>4, <1>5, <1>6, <1>7 DEF Environment

(* A call at most begins a check, whose clock starts at zero.               *)
LEMMA CallWindow ==
  ASSUME WindowInv, NEW k \in Calls,
         Ask(k) \/ AgentServes(k) \/ Deliver(k) \/ CallFails(k)
  PROVE  Ours' /\ Window'
<1> USE DEF WindowInv
<1>1. UNCHANGED <<agent, baseline, refusal, alteredFor, blind>>
  BY DEF Ask, AgentServes, Deliver, CallFails, agentVars, refusalVars, history
<1>2. \/ UNCHANGED <<check, elapsed>>
      \/ check'.at = "read"
  BY DEF Ask, Poll, AgentServes, Deliver, CallFails, timing
<1> QED BY <1>1, <1>2 DEF Ours, Window

(* A check ends refusing, blind, or having seen the set within this window. *)
LEMMA CheckWindow ==
  ASSUME WindowInv, CheckStep
  PROVE  Ours' /\ Window'
<1> USE Named DEF WindowInv, PushInv, Typed
<1>0. alteredFor \in Nat /\ elapsed \in Nat
  BY DEF TypeOK
<1>1. CASE AgentAnswersRead
  <2>1. check'.at = "answered" /\ check'.got = agent
    BY <1>1 DEF AgentAnswersRead, TypeOK, Checks
  <2>2. UNCHANGED <<agent, baseline, refusal, elapsed, alteredFor, blind>>
    BY <1>1 DEF AgentAnswersRead, agentVars, refusalVars, timing, history
  <2> QED BY <1>0, <2>1, <2>2 DEF Ours, Window
<1>2. CASE ReadRetried
  <2>1. check'.at = "retry"
    BY <1>2 DEF ReadRetried, TypeOK, Checks
  <2>2. UNCHANGED <<agent, baseline, alteredFor>>
    BY <1>2 DEF ReadRetried, agentVars, history
  <2> QED BY <2>1, <2>2 DEF Ours, Window
<1>3. CASE ReadUnreachable
  <2>1. check'.at = "none" /\ blind' = (refusal' = NONE)
    BY <1>3 DEF ReadUnreachable, EndCheck, NoCheck
  <2>2. UNCHANGED <<agent, baseline, alteredFor>>
    BY <1>3 DEF ReadUnreachable, agentVars
  <2> QED BY <2>1, <2>2 DEF Ours, Window
<1>4. CASE ReadUnverifiable \/ ReadChanged
  <2>1. check'.at = "none" /\ refusal' # NONE
    BY <1>4, RefuseTyped DEF ReadUnverifiable, ReadChanged, EndCheck, NoCheck
  <2>2. UNCHANGED <<agent, baseline, alteredFor>>
    BY <1>4 DEF ReadUnverifiable, ReadChanged, agentVars
  <2> QED BY <2>1, <2>2 DEF Ours, Window
<1>5. CASE ReadSame
  <2>1. check'.at = "none" /\ elapsed' = elapsed /\ check.at = "answered" /\ check.got = baseline
    BY <1>5 DEF ReadSame, EndCheck, NoCheck
  <2>2. UNCHANGED <<agent, baseline, alteredFor>>
    BY <1>5 DEF ReadSame, agentVars
  <2> QED BY <2>1, <2>2 DEF Ours, Window
<1>6. CASE ReadEmpty
  <2>1. check'.at = "push"
    BY <1>6 DEF ReadEmpty, TypeOK, Checks
  <2>2. UNCHANGED <<agent, baseline, alteredFor>>
    BY <1>6 DEF ReadEmpty, agentVars
  <2> QED BY <2>1, <2>2 DEF Ours, Window
<1>7. CASE AgentTakesPush
  <2>1. check'.at = "pushed" /\ check'.got = Load(cedar) /\ baseline' = baseline
    BY <1>7 DEF AgentTakesPush, TypeOK, Checks
  <2>2. Load(cedar).set = "load"
    BY DEF TypeOK
  <2>3. agent' = Load(cedar) /\ alteredFor' = 0 /\ elapsed' = elapsed
    BY <1>7, <2>2 DEF AgentTakesPush, HoldsAfterwards, timing
  <2> QED BY <1>0, <2>1, <2>2, <2>3 DEF Ours, Window
<1>8. CASE PushAnswered
  <2>1. check'.at = "none" /\ elapsed' = elapsed /\ check.at = "pushed"
    BY <1>8 DEF PushAnswered, EndCheck, NoCheck
  <2>2. baseline' = check.got /\ UNCHANGED <<agent, alteredFor>>
    BY <1>8 DEF PushAnswered, agentVars
  <2> QED BY <2>1, <2>2 DEF Ours, Window
<1>9. CASE PushFails
  <2>1. check'.at = "none" /\ check.at \in {"push", "pushed"}
    BY <1>9 DEF PushFails, GivesUp, EndCheck, NoCheck
  <2>2. UNCHANGED <<agent, baseline, refusal, alteredFor>>
    BY <1>9 DEF PushFails, refusalVars
  <2>3. refusal' # NONE
    BY <2>1, <2>2 DEF Pushing
  <2> QED BY <2>1, <2>2, <2>3 DEF Ours, Window
<1>10. CASE PushRetried
  <2>1. check'.at = "push"
    BY <1>10 DEF PushRetried, GivesUp, TypeOK, Checks
  <2>2. UNCHANGED <<agent, baseline, alteredFor>>
    BY <1>10 DEF PushRetried, history
  <2> QED BY <2>1, <2>2 DEF Ours, Window
<1> QED BY <1>1, <1>2, <1>3, <1>4, <1>5, <1>6, <1>7, <1>8, <1>9, <1>10
        DEF CheckStep

(* load() opens the window at zero, and each step keeps it.                 *)
LEMMA WindowStep ==
  /\ Init => WindowInv
  /\ WindowInv /\ [Next]_vars => WindowInv'
<1>1. Init => Ours /\ Window
  <2> SUFFICES ASSUME Init PROVE Ours /\ Window
    OBVIOUS
  <2>1. agent.set = "load" /\ baseline = agent
    BY Named DEF Init
  <2>2. alteredFor = 0 /\ elapsed = 0 /\ check.at = "none"
    BY DEF Init, NoCheck
  <2> QED BY <2>1, <2>2 DEF Ours, Window
<1>2. WindowInv /\ [Next]_vars => Ours' /\ Window'
  BY EnvironmentWindow, CallWindow, CheckWindow DEF Next
<1> QED BY <1>1, <1>2, PushStep DEF WindowInv

(* A call goes out with no check running only before a check is due, less   *)
(* than an interval after the last one began.                               *)
LEMMA AskedInWindow ==
  ASSUME WindowInv, [Next]_vars, NEW k \in Calls,
         ~Out(k), call'[k].at = "out", alteredFor = Interval
  PROVE  check'.at # "none" \/ blind
<1> USE DEF WindowInv, PushInv, Typed
<1>0. /\ call \in [Calls -> CallStates] /\ elapsed \in Nat /\ wait \in Waits
      /\ check \in Checks
  BY DEF TypeOK
<1>1. call'[k] # call[k]
  BY DEF Out
<1>2. Ask(k)
  <2>1. ~UNCHANGED call
    BY <1>1
  <2>2. ~(Environment \/ Tick \/ UNCHANGED vars)
    BY <2>1 DEF Environment, SetReplaced, Restarts, TakesLate, ConnectivityChanges, Tick, vars
  <2>3. ~CheckStep
    <3>1. ASSUME CheckStep PROVE Out(k)' => Out(k)
      <4>1. CASE UNCHANGED call
        BY <4>1 DEF Out
      <4>2. ASSUME NEW why \in Refusals, Refuse(why) PROVE Out(k)' => Out(k)
        BY <1>0, <4>2 DEF Refuse, CrossAll, Out, CallStates, refusalVars
      <4> QED BY <3>1, <4>1, <4>2, CheckRefusesOrNot
    <3> QED BY <3>1 DEF Out
  <2>4. PICK j \in Calls : Ask(j) \/ AgentServes(j) \/ Deliver(j) \/ CallFails(j)
    BY <2>2, <2>3 DEF Next
  <2>5. j = k
    BY <1>0, <1>1, <2>4 DEF Ask, AgentServes, Deliver, CallFails
  <2>6. ~AgentServes(k) /\ ~Deliver(k) /\ ~CallFails(k)
    BY <1>0 DEF AgentServes, Deliver, CallFails, Out, Idle, CallStates
  <2> QED BY <2>4, <2>5, <2>6
<1>3. refusal = NONE
  BY <1>0, <1>2 DEF Ask
<1>4. CASE check.at = "none" /\ Due
  BY <1>2, <1>4 DEF Ask, Poll
<1>5. CASE check.at = "none" /\ ~Due
  <2>1. ~(elapsed >= wait) /\ wait <= Interval
    BY <1>0, <1>3, <1>5 DEF Due, Waits
  <2>2. ~(alteredFor <= elapsed)
    BY <1>0, <2>1, Named DEF Waits
  <2> QED BY <1>3, <1>5, <2>2 DEF Window
<1>6. CASE check.at # "none"
  BY <1>2, <1>6 DEF Ask, Poll
<1> QED BY <1>4, <1>5, <1>6

(* The detection window: once the agent has not held this load's set for a  *)
(* whole interval, no call goes out unless a check is on its way or the     *)
(* last one could not reach the agent (agentReadBack.mts:21-25, 290-323).   *)
THEOREM DetectionWindowHolds == Spec => DetectionWindow
<1>1. WindowInv /\ [Next]_vars =>
        [\A k \in Calls :
           ~Out(k) /\ call'[k].at = "out" /\ alteredFor = Interval
             => check'.at # "none" \/ blind]_vars
  BY AskedInWindow
<1> QED BY <1>1, WindowStep, PTL DEF Spec, DetectionWindow
=============================================================================
