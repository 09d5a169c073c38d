-------------------------- MODULE CedarLoadProofs --------------------------
(***************************************************************************)
(* Proofs about CedarLoad for any number of loads, endpoints and agents,   *)
(* endpoints that are one agent included, and any deadline and faults.     *)
(***************************************************************************)
EXTENDS CedarLoad, TLAPS

(* A PUT is out only for a load that pushes, and one was given up only by a *)
(* load that began to.                                                      *)
PutsOfPushes ==
  \A l \in Loads : /\ put[l] # "none" => at[l] = "push"
                   /\ late[l] => at[l] \in Holding \cup {"failed"}

(* The agent of a load that was shown a set holds it until it changes.      *)
ShownIsHeld ==
  \A l \in Loads : at[l] = "shown" /\ ~changed[l] => holds[Agent(l)] = got[l]
-----------------------------------------------------------------------------
(* The endpoint of a load leads to an agent, and the sets have names of     *)
(* their own.                                                               *)
LEMMA Wired ==
  /\ \A l \in Loads : KeyOf[l] \in Keys /\ Agent(l) \in Agents
  /\ Loads \subseteq Sets /\ Empty \in Sets /\ Other \in Sets /\ NONE \notin Sets
  /\ 0 \in 0..Timeout /\ 0 \in 0..MaxFaults
BY LoadAssumption DEF Agent, Sets

(* A load's end keeps its locals typed.                                     *)
LEMMA EndsTyped ==
  ASSUME TypeOK, NEW l \in Loads, NEW how \in {"serving", "failed"}, Ends(l, how)
  PROVE  /\ at' \in [Loads -> Holding \cup {"idle", "refused", "failed"}]
         /\ put' \in [Loads -> {"none", "wire", "taken", "rejected"}]
         /\ clock' \in [Loads -> 0..Timeout] /\ resume' \in [Loads -> 0..Timeout]
         /\ got' \in [Loads -> Sets \cup {NONE}]
BY Wired DEF TypeOK, Ends, Holding

(* A failed load keeps everything it changes typed.                         *)
LEMMA FailsTyped ==
  ASSUME TypeOK, NEW l \in Loads, Fails(l)
  PROVE  /\ loaded' \in [Keys -> Loads \cup {NONE}]
         /\ at' \in [Loads -> Holding \cup {"idle", "refused", "failed"}]
         /\ put' \in [Loads -> {"none", "wire", "taken", "rejected"}]
         /\ clock' \in [Loads -> 0..Timeout] /\ resume' \in [Loads -> 0..Timeout]
         /\ got' \in [Loads -> Sets \cup {NONE}]
<1>1. Ends(l, "failed") /\ loaded' = [loaded EXCEPT ![KeyOf[l]] = NONE]
  BY DEF Fails
<1>2. loaded' \in [Keys -> Loads \cup {NONE}]
  BY <1>1, Wired DEF TypeOK
<1> QED BY <1>1, <1>2, EndsTyped

(* The faults counted stay within their bound.                              *)
LEMMA FaultTyped ==
  ASSUME TypeOK, Fault \/ UNCHANGED faults
  PROVE  faults' \in 0..MaxFaults
BY LoadAssumption DEF TypeOK, Fault

(* An agent that takes a set holds a set.                                   *)
LEMMA HoldsTyped ==
  ASSUME TypeOK, NEW a \in Agents, NEW s \in Sets, HoldsAfterwards(a, s)
  PROVE  holds' \in [Agents -> Sets] /\ changed' \in [Loads -> BOOLEAN]
<1>1. holds' \in [Agents -> Sets]
  BY DEF TypeOK, HoldsAfterwards
<1>2. ASSUME NEW l \in Loads
      PROVE  (changed[l] \/ (Agent(l) = a /\ holds[a] # s)) \in BOOLEAN
  BY DEF TypeOK
<1>3. changed' \in [Loads -> BOOLEAN]
  BY <1>2 DEF HoldsAfterwards
<1> QED BY <1>1, <1>3

(* Each step of a load, of its timers and of the agents it talks to keeps   *)
(* the types.                                                               *)
LEMMA TypedLoad ==
  ASSUME TypeOK, NEW l \in Loads,
         Load(l) \/ LoadStep(l) \/ TimerStep(l) \/ AgentStep(l)
  PROVE  TypeOK'
<1> USE Wired
<1>1. CASE Load(l)
  <2>1. /\ loaded' \in [Keys -> Loads \cup {NONE}]
        /\ at' \in [Loads -> Holding \cup {"idle", "refused", "failed"}]
        /\ put' \in [Loads -> {"none", "wire", "taken", "rejected"}]
    BY <1>1 DEF Load, TypeOK, Holding, Pushing
  <2> QED BY <1>1, <2>1 DEF Load, TypeOK, world
<1>2. CASE AttemptFails(l)
  <2>1. faults' \in 0..MaxFaults
    BY <1>2, FaultTyped DEF AttemptFails
  <2>2. late' \in [Loads -> BOOLEAN]
    <3>1. CASE GivesUp(l)
      BY <3>1 DEF GivesUp, TypeOK
    <3>2. CASE UNCHANGED late
      BY <3>2 DEF TypeOK
    <3> QED BY <1>2, <3>1, <3>2 DEF AttemptFails
  <2>3. /\ loaded' \in [Keys -> Loads \cup {NONE}]
        /\ at' \in [Loads -> Holding \cup {"idle", "refused", "failed"}]
        /\ put' \in [Loads -> {"none", "wire", "taken", "rejected"}]
        /\ clock' \in [Loads -> 0..Timeout] /\ resume' \in [Loads -> 0..Timeout]
        /\ got' \in [Loads -> Sets \cup {NONE}]
    <3>1. CASE OutOfTime(l)
      BY <1>2, <3>1, FailsTyped DEF AttemptFails
    <3>2. CASE ~OutOfTime(l)
      <4>1. clock[l] + Retry \in 0..Timeout
        BY <3>2, LoadAssumption DEF OutOfTime, TypeOK
      <4> QED BY <1>2, <3>2, <4>1 DEF AttemptFails, TypeOK, Holding, Pushing
    <3> QED BY <3>1, <3>2
  <2> QED BY <1>2, <2>1, <2>2, <2>3 DEF AttemptFails, TypeOK
<1>3. CASE PushAccepted(l) \/ ReadRetried(l) \/ PauseEnds(l)
  <2>1. /\ at' \in [Loads -> Holding \cup {"idle", "refused", "failed"}]
        /\ put' \in [Loads -> {"none", "wire", "taken", "rejected"}]
        /\ clock' \in [Loads -> 0..Timeout] /\ resume' \in [Loads -> 0..Timeout]
    BY <1>3 DEF PushAccepted, ReadRetried, PauseEnds, TypeOK, attempt,
                Holding, Pushing, Reading
  <2>2. UNCHANGED <<loaded, late, got, world>>
    BY <1>3 DEF PushAccepted, ReadRetried, PauseEnds, attempt
  <2> QED BY <2>1, <2>2 DEF TypeOK, world
<1>4. CASE PushRefused(l) \/ ReadFails(l)
  <2>1. Fails(l) /\ (Fault \/ UNCHANGED faults) /\ UNCHANGED <<late, holds, up, changed>>
    BY <1>4 DEF PushRefused, ReadFails
  <2> QED BY <2>1, FailsTyped, FaultTyped DEF TypeOK
<1>5. CASE ReadUnlike(l) \/ ReadTimesOut(l)
  <2>1. Fails(l) /\ UNCHANGED <<late, world>>
    BY <1>5 DEF ReadUnlike, ReadTimesOut
  <2> QED BY <2>1, FailsTyped DEF TypeOK, world
<1>6. CASE PushTimesOut(l)
  <2>1. late' \in [Loads -> BOOLEAN]
    BY <1>6 DEF PushTimesOut, GivesUp, TypeOK
  <2>2. Fails(l) /\ UNCHANGED world
    BY <1>6 DEF PushTimesOut
  <2> QED BY <2>1, <2>2, FailsTyped DEF TypeOK, world
<1>7. CASE Serves(l)
  <2>1. Ends(l, "serving") /\ UNCHANGED <<loaded, late, world>>
    BY <1>7 DEF Serves
  <2> QED BY <2>1, EndsTyped DEF TypeOK, world
<1>8. CASE AgentTakes(l)
  <2>1. put' \in [Loads -> {"none", "wire", "taken", "rejected"}]
        /\ late' \in [Loads -> BOOLEAN]
    BY <1>8 DEF AgentTakes, TypeOK
  <2>2. holds' \in [Agents -> Sets] /\ changed' \in [Loads -> BOOLEAN]
    BY <1>8, HoldsTyped DEF AgentTakes
  <2> QED BY <1>8, <2>1, <2>2 DEF AgentTakes, TypeOK
<1>9. CASE AgentRejects(l)
  <2>1. put' \in [Loads -> {"none", "wire", "taken", "rejected"}]
    BY <1>9 DEF AgentRejects, TypeOK
  <2> QED BY <1>9, <2>1 DEF AgentRejects, TypeOK, world
<1>10. CASE AgentShows(l)
  <2>1. /\ at' \in [Loads -> Holding \cup {"idle", "refused", "failed"}]
        /\ got' \in [Loads -> Sets \cup {NONE}]
        /\ changed' \in [Loads -> BOOLEAN]
    BY <1>10 DEF AgentShows, TypeOK, Holding, Reading
  <2> QED BY <1>10, <2>1 DEF AgentShows, TypeOK
<1> QED BY <1>1, <1>2, <1>3, <1>4, <1>5, <1>6, <1>7, <1>8, <1>9, <1>10
        DEF LoadStep, TimerStep, AgentStep

(* What agents do of their own accord, and time, keep the types.            *)
LEMMA TypedWorld ==
  ASSUME TypeOK,
         Tick \/ UNCHANGED vars
         \/ \E a \in Agents : SetReplaced(a) \/ ConnectivityChanges(a)
  PROVE  TypeOK'
<1>1. CASE UNCHANGED vars
  BY <1>1 DEF TypeOK, vars, attempt, world
<1>2. CASE Tick
  <2>1. clock' \in [Loads -> 0..Timeout]
    BY <1>2, LoadAssumption DEF Tick, TypeOK
  <2> QED BY <1>2, <2>1 DEF Tick, TypeOK, world
<1>3. ASSUME NEW a \in Agents, SetReplaced(a)
      PROVE  TypeOK'
  <2>1. faults' \in 0..MaxFaults
    BY <1>3, FaultTyped DEF SetReplaced
  <2>2. holds' \in [Agents -> Sets] /\ changed' \in [Loads -> BOOLEAN]
    BY <1>3, HoldsTyped, Wired DEF SetReplaced
  <2> QED BY <1>3, <2>1, <2>2 DEF SetReplaced, TypeOK, attempt
<1>4. ASSUME NEW a \in Agents, ConnectivityChanges(a)
      PROVE  TypeOK'
  <2>1. faults' \in 0..MaxFaults
    BY <1>4, FaultTyped DEF ConnectivityChanges
  <2>2. up' \in [Agents -> BOOLEAN]
    BY <1>4 DEF ConnectivityChanges, TypeOK
  <2> QED BY <1>4, <2>1, <2>2 DEF ConnectivityChanges, TypeOK, attempt
<1> QED BY <1>1, <1>2, <1>3, <1>4

(* The process starts typed, and each step keeps the types.                 *)
LEMMA TypedAlways ==
  /\ Init => TypeOK
  /\ TypeOK /\ [Next]_vars => TypeOK'
<1>1. Init => TypeOK
  <2> SUFFICES ASSUME Init PROVE TypeOK
    OBVIOUS
  <2>1. /\ loaded \in [Keys -> Loads \cup {NONE}]
        /\ at \in [Loads -> Holding \cup {"idle", "refused", "failed"}]
        /\ put \in [Loads -> {"none", "wire", "taken", "rejected"}]
        /\ late \in [Loads -> BOOLEAN] /\ changed \in [Loads -> BOOLEAN]
    BY DEF Init
  <2>2. /\ clock \in [Loads -> 0..Timeout] /\ resume \in [Loads -> 0..Timeout]
        /\ faults \in 0..MaxFaults
    BY Wired DEF Init
  <2>3. got \in [Loads -> Sets \cup {NONE}] /\ holds \in [Agents -> Sets]
        /\ up \in [Agents -> BOOLEAN]
    BY Wired DEF Init
  <2> QED BY <2>1, <2>2, <2>3 DEF TypeOK
<1> QED BY <1>1, TypedLoad, TypedWorld DEF Next

(* Every variable of the loads keeps its type; no pause between attempts is *)
(* set to end past the deadline (pushPolicies).                             *)
THEOREM LoadTyped == Spec => []TypeOK
BY TypedAlways, PTL DEF Spec

-----------------------------------------------------------------------------
(* A step that leaves a holder among the holders leaves the reservations    *)
(* right.                                                                   *)
LEMMA HoldsOn ==
  ASSUME TypeOK, OneHolder, UNCHANGED loaded,
         NEW l \in Loads, at[l] \in Holding, at'[l] \in Holding,
         \A m \in Loads \ {l} : at'[m] = at[m]
  PROVE  OneHolder'
BY DEF OneHolder

(* A failure frees the endpoint, which was the failed load's and no other's.*)
LEMMA FailsFrees ==
  ASSUME TypeOK, OneHolder, NEW l \in Loads, at[l] \in Holding, Fails(l)
  PROVE  OneHolder'
<1>1. loaded[KeyOf[l]] = l
  BY DEF OneHolder
<1>2. loaded' = [loaded EXCEPT ![KeyOf[l]] = NONE] /\ at' = [at EXCEPT ![l] = "failed"]
  BY DEF Fails, Ends
<1>3. ASSUME NEW m \in Loads
      PROVE  at'[m] \in Holding <=> loaded'[KeyOf[m]] = m
  <2>1. CASE m = l
    BY <1>2, <2>1, Wired, LoadAssumption DEF TypeOK, Holding, Pushing, Reading
  <2>2. CASE m # l /\ KeyOf[m] = KeyOf[l]
    BY <1>1, <1>2, <2>2, Wired, LoadAssumption DEF TypeOK, OneHolder
  <2>3. CASE m # l /\ KeyOf[m] # KeyOf[l]
    BY <1>2, <2>3, Wired DEF TypeOK, OneHolder
  <2> QED BY <2>1, <2>2, <2>3
<1> QED BY <1>3 DEF OneHolder

(* A load reserves its endpoint only when nobody holds it.                  *)
LEMMA LoadReserves ==
  ASSUME TypeOK, OneHolder, NEW l \in Loads, Load(l)
  PROVE  OneHolder'
<1>1. CASE loaded[KeyOf[l]] # NONE
  <2>1. at[l] = "idle" /\ at' = [at EXCEPT ![l] = "refused"] /\ UNCHANGED loaded
    BY <1>1 DEF Load
  <2> QED BY <2>1 DEF TypeOK, OneHolder, Holding, Pushing, Reading
<1>2. CASE loaded[KeyOf[l]] = NONE
  <2>1. /\ loaded' = [loaded EXCEPT ![KeyOf[l]] = l]
        /\ at' = [at EXCEPT ![l] = "push"]
    BY <1>2 DEF Load
  <2>2. ASSUME NEW m \in Loads
        PROVE  at'[m] \in Holding <=> loaded'[KeyOf[m]] = m
    <3>1. CASE m = l
      BY <2>1, <3>1, Wired DEF TypeOK, Holding, Pushing
    <3>2. CASE m # l /\ KeyOf[m] = KeyOf[l]
      BY <1>2, <2>1, <3>2, Wired, LoadAssumption DEF TypeOK, OneHolder
    <3>3. CASE m # l /\ KeyOf[m] # KeyOf[l]
      BY <2>1, <3>3, Wired DEF TypeOK, OneHolder
    <3> QED BY <3>1, <3>2, <3>3
  <2> QED BY <2>2 DEF OneHolder
<1> QED BY <1>1, <1>2

(* Every step keeps the reservations right.                                 *)
LEMMA OneHolderStep ==
  ASSUME TypeOK, OneHolder, [Next]_vars
  PROVE  OneHolder'
<1>1. CASE UNCHANGED <<loaded, at>>
  BY <1>1 DEF OneHolder
<1>2. ASSUME NEW l \in Loads, LoadStep(l) \/ TimerStep(l) \/ AgentShows(l)
      PROVE  OneHolder'
  <2>1. at[l] \in Holding \ {"serving"}
    BY <1>2 DEF LoadStep, TimerStep, AttemptFails, PushAccepted, PushRefused,
       ReadRetried, ReadFails, ReadUnlike, Serves, PauseEnds, PushTimesOut,
       ReadTimesOut, AgentShows, Holding, Pushing, Reading
  <2>2. CASE Fails(l)
    BY <2>1, <2>2, FailsFrees
  <2>3. CASE ~Fails(l)
    <3>1. UNCHANGED loaded
      BY <1>2, <2>3 DEF LoadStep, TimerStep, AttemptFails, PushAccepted, PushRefused,
         ReadRetried, ReadFails, ReadUnlike, Serves, PauseEnds, PushTimesOut,
         ReadTimesOut, AgentShows
    <3>2. \E h \in Holding : at' = [at EXCEPT ![l] = h]
      BY <1>2, <2>3 DEF LoadStep, TimerStep, AttemptFails, PushAccepted, PushRefused,
         ReadRetried, ReadFails, ReadUnlike, Serves, PauseEnds, PushTimesOut,
         ReadTimesOut, AgentShows, Ends, Holding, Pushing, Reading
    <3> QED BY <2>1, <3>1, <3>2, HoldsOn DEF TypeOK
  <2> QED BY <2>2, <2>3
<1>3. ASSUME NEW l \in Loads, AgentTakes(l) \/ AgentRejects(l)
      PROVE  UNCHANGED <<loaded, at>>
  BY <1>3 DEF AgentTakes, AgentRejects
<1>4. ASSUME NEW a \in Agents, SetReplaced(a) \/ ConnectivityChanges(a)
      PROVE  UNCHANGED <<loaded, at>>
  BY <1>4 DEF SetReplaced, ConnectivityChanges
<1>5. Tick \/ UNCHANGED vars => UNCHANGED <<loaded, at>>
  BY DEF Tick, vars
<1> QED BY <1>1, <1>2, <1>3, <1>4, <1>5, LoadReserves DEF Next, AgentStep

(* An endpoint is reserved exactly while one load pushes to it, reads it or *)
(* serves from it (httpEngine.mts:198-207, 255, 275).                       *)
THEOREM OneHolderHolds == Spec => []OneHolder
<1>1. Init => OneHolder
  BY LoadAssumption DEF Init, OneHolder, Holding, Pushing, Reading
<1>2. TypeOK /\ OneHolder /\ [Next]_vars => OneHolder'
  BY OneHolderStep
<1> QED BY <1>1, <1>2, LoadTyped, TypedAlways, PTL DEF Spec

-----------------------------------------------------------------------------
(* Every step leaves a PUT only to a load that pushes, and one that was     *)
(* given up only to a load that began.                                      *)
LEMMA PutsStep ==
  ASSUME TypeOK, PutsOfPushes, [Next]_vars
  PROVE  PutsOfPushes'
<1>1. CASE UNCHANGED <<at, put, late>>
  BY <1>1 DEF PutsOfPushes
<1>2. ASSUME NEW l \in Loads,
             \/ UNCHANGED late
             \/ \E d \in BOOLEAN : late' = [late EXCEPT ![l] = late[l] \/ (d /\ put[l] = "wire")],
             \E h \in Holding \cup {"failed"} : at' = [at EXCEPT ![l] = h],
             put' = [put EXCEPT ![l] = "none"]
             \/ (put' = [put EXCEPT ![l] = "wire"] /\ at'[l] = "push")
      PROVE  PutsOfPushes'
  <2>1. ASSUME NEW m \in Loads
        PROVE  (put'[m] # "none" => at'[m] = "push")
               /\ (late'[m] => at'[m] \in Holding \cup {"failed"})
    <3>1. CASE m = l
      BY <1>2, <3>1 DEF TypeOK
    <3>2. CASE m # l
      BY <1>2, <3>2 DEF TypeOK, PutsOfPushes
    <3> QED BY <3>1, <3>2
  <2> QED BY <2>1 DEF PutsOfPushes
<1>3. ASSUME NEW l \in Loads, Load(l)
      PROVE  PutsOfPushes'
  <2>1. CASE loaded[KeyOf[l]] = NONE
    <3>1. put' = [put EXCEPT ![l] = "wire"] /\ at' = [at EXCEPT ![l] = "push"] /\ UNCHANGED late
      BY <1>3, <2>1 DEF Load
    <3> QED BY <3>1 DEF TypeOK, PutsOfPushes, Holding, Pushing
  <2>2. CASE loaded[KeyOf[l]] # NONE
    <3>1. at[l] = "idle" /\ at' = [at EXCEPT ![l] = "refused"] /\ UNCHANGED <<put, late>>
      BY <1>3, <2>2 DEF Load
    <3> QED BY <3>1 DEF TypeOK, PutsOfPushes, Holding, Pushing, Reading
  <2> QED BY <2>1, <2>2
<1>4. ASSUME NEW l \in Loads, Fails(l), UNCHANGED late \/ GivesUp(l)
      PROVE  PutsOfPushes'
  <2>1. at' = [at EXCEPT ![l] = "failed"] /\ put' = [put EXCEPT ![l] = "none"]
    BY <1>4 DEF Fails, Ends
  <2> QED BY <1>2, <1>4, <2>1 DEF GivesUp
<1>5. ASSUME NEW l \in Loads, LoadStep(l) \/ TimerStep(l)
      PROVE  PutsOfPushes'
  <2>1. CASE AttemptFails(l)
    <3>1. UNCHANGED late \/ GivesUp(l)
      BY <2>1 DEF AttemptFails
    <3>2. CASE Fails(l)
      BY <1>4, <3>1, <3>2
    <3>3. CASE ~Fails(l)
      <4>1. at' = [at EXCEPT ![l] = "pause"] /\ put' = [put EXCEPT ![l] = "none"]
        BY <2>1, <3>3 DEF AttemptFails
      <4>2. "pause" \in Holding \cup {"failed"}
        BY DEF Holding, Pushing
      <4> QED BY <1>2, <3>1, <4>1, <4>2 DEF GivesUp
    <3> QED BY <3>2, <3>3
  <2>2. CASE PushAccepted(l)
    <3>1. at' = [at EXCEPT ![l] = "read"] /\ put' = [put EXCEPT ![l] = "none"] /\ UNCHANGED late
      BY <2>2 DEF PushAccepted
    <3> QED BY <1>2, <3>1 DEF Holding, Reading
  <2>3. CASE PushRefused(l) \/ ReadFails(l) \/ ReadUnlike(l) \/ PushTimesOut(l) \/ ReadTimesOut(l)
    BY <1>4, <2>3 DEF PushRefused, ReadFails, ReadUnlike, PushTimesOut, ReadTimesOut
  <2>4. CASE ReadRetried(l)
    <3>1. /\ at[l] = "read" /\ at' = [at EXCEPT ![l] = "reread"]
          /\ UNCHANGED <<put, late>>
      BY <2>4 DEF ReadRetried, attempt
    <3> QED BY <3>1 DEF TypeOK, PutsOfPushes, Holding, Reading
  <2>5. CASE Serves(l)
    <3>1. /\ at' = [at EXCEPT ![l] = "serving"] /\ put' = [put EXCEPT ![l] = "none"]
          /\ UNCHANGED late
      BY <2>5 DEF Serves, Ends
    <3> QED BY <1>2, <3>1 DEF Holding
  <2>6. CASE PauseEnds(l)
    <3>1. /\ at' = [at EXCEPT ![l] = "push"] /\ put' = [put EXCEPT ![l] = "wire"]
          /\ UNCHANGED late
      BY <2>6 DEF PauseEnds
    <3> QED BY <3>1 DEF TypeOK, PutsOfPushes, Holding, Pushing
  <2> QED BY <1>5, <2>1, <2>2, <2>3, <2>4, <2>5, <2>6 DEF LoadStep, TimerStep
<1>6. ASSUME NEW l \in Loads, AgentTakes(l) \/ AgentRejects(l)
      PROVE  PutsOfPushes'
  <2>1. /\ UNCHANGED at
        /\ \A m \in Loads : /\ put'[m] # "none" => put[m] # "none"
                            /\ late'[m] => late[m]
    BY <1>6 DEF AgentTakes, AgentRejects, TypeOK
  <2> QED BY <2>1 DEF PutsOfPushes
<1>7. ASSUME NEW l \in Loads, AgentShows(l)
      PROVE  PutsOfPushes'
  <2>1. /\ at[l] \in {"read", "reread"} /\ at' = [at EXCEPT ![l] = "shown"]
        /\ UNCHANGED <<put, late>>
    BY <1>7 DEF AgentShows
  <2> QED BY <2>1 DEF TypeOK, PutsOfPushes, Holding, Reading
<1>8. ASSUME NEW a \in Agents, SetReplaced(a) \/ ConnectivityChanges(a)
      PROVE  UNCHANGED <<at, put, late>>
  BY <1>8 DEF SetReplaced, ConnectivityChanges, attempt
<1>9. Tick \/ UNCHANGED vars => UNCHANGED <<at, put, late>>
  BY DEF Tick, vars, attempt
<1> QED BY <1>1, <1>3, <1>5, <1>6, <1>7, <1>8, <1>9 DEF Next, AgentStep

(* Only an agent that takes a load's PUT comes to hold that load's set.     *)
LEMMA HeldByTaking ==
  ASSUME TypeOK, [Next]_vars, NEW a \in Agents, NEW m \in Loads,
         holds'[a] = m, holds[a] # m
  PROVE  AgentTakes(m)
<1>1. ~UNCHANGED holds
  OBVIOUS
<1>2. ASSUME NEW b \in Agents, SetReplaced(b)
      PROVE  FALSE
  <2>1. PICK s \in {Empty, Other} : holds' = [holds EXCEPT ![b] = s]
    BY <1>2 DEF SetReplaced, HoldsAfterwards
  <2> QED BY <2>1, LoadAssumption DEF TypeOK
<1>3. ASSUME NEW l \in Loads, AgentTakes(l)
      PROVE  l = m
  <2>1. holds' = [holds EXCEPT ![Agent(l)] = l]
    BY <1>3 DEF AgentTakes, HoldsAfterwards
  <2> QED BY <2>1 DEF TypeOK
<1>4. ASSUME NEW l \in Loads, Load(l) \/ LoadStep(l) \/ TimerStep(l)
                              \/ AgentRejects(l) \/ AgentShows(l)
      PROVE  UNCHANGED holds
  BY <1>4 DEF Load, LoadStep, TimerStep, AttemptFails, PushAccepted, PushRefused,
     ReadRetried, ReadFails, ReadUnlike, Serves, PauseEnds, PushTimesOut,
     ReadTimesOut, AgentRejects, AgentShows, world
<1>5. (Tick \/ UNCHANGED vars \/ \E b \in Agents : ConnectivityChanges(b))
        => UNCHANGED holds
  BY DEF Tick, vars, ConnectivityChanges, world
<1> QED BY <1>1, <1>2, <1>3, <1>4, <1>5 DEF Next, AgentStep

(* The set of a load in progress or in service is replaced by another load  *)
(* of the same endpoint only when the agent takes, late, a PUT which that   *)
(* load has already given up (httpEngine.mts:206).                          *)
THEOREM OnlyLateOverwritesHolds == Spec => OnlyLateOverwrites
<1>1. Init => PutsOfPushes
  BY DEF Init, PutsOfPushes
<1>2. TypeOK /\ PutsOfPushes /\ [Next]_vars => PutsOfPushes'
  BY PutsStep
<1>3. ASSUME TypeOK, OneHolder, PutsOfPushes, [Next]_vars,
             NEW l \in Loads, NEW m \in Loads,
             l # m, KeyOf[l] = KeyOf[m], at[l] \in Holding,
             holds'[Agent(l)] = m, holds[Agent(l)] # m
      PROVE  at[m] = "failed" /\ late[m]
  <2>1. AgentTakes(m)
    BY <1>3, Wired, HeldByTaking
  <2>2. at[m] \notin Holding
    BY <1>3 DEF OneHolder
  <2>3. put[m] = "none"
    BY <1>3, <2>2 DEF PutsOfPushes, Holding, Pushing
  <2>4. late[m]
    BY <2>1, <2>3 DEF AgentTakes
  <2> QED BY <1>3, <2>2, <2>4 DEF PutsOfPushes
<1>4. TypeOK /\ OneHolder /\ PutsOfPushes /\ [Next]_vars =>
        [\A l, m \in Loads :
           l # m /\ KeyOf[l] = KeyOf[m] /\ at[l] \in Holding
             /\ holds'[Agent(l)] = m /\ holds[Agent(l)] # m
           => at[m] = "failed" /\ late[m]]_vars
  BY <1>3
<1> QED BY <1>1, <1>2, <1>4, LoadTyped, OneHolderHolds, PTL DEF Spec, OnlyLateOverwrites

-----------------------------------------------------------------------------
(* A set that changes marks every load of that agent.                       *)
LEMMA ChangesAreMarked ==
  ASSUME TypeOK, NEW a \in Agents, NEW s, HoldsAfterwards(a, s), NEW l \in Loads,
         ~changed'[l]
  PROVE  ~changed[l] /\ holds'[Agent(l)] = holds[Agent(l)]
BY Wired DEF TypeOK, HoldsAfterwards

(* Every step keeps what was shown, and what is served, held until marked.  *)
LEMMA ServesStep ==
  ASSUME TypeOK, ShownIsHeld, ServesItsSet, [Next]_vars
  PROVE  ShownIsHeld' /\ ServesItsSet'
<1>1. ASSUME UNCHANGED <<at, got>>,
             \A l \in Loads : ~changed'[l] =>
               ~changed[l] /\ holds'[Agent(l)] = holds[Agent(l)]
      PROVE  ShownIsHeld' /\ ServesItsSet'
  BY <1>1 DEF ShownIsHeld, ServesItsSet, Agent
<1>2. ASSUME NEW l \in Loads, UNCHANGED <<holds, changed>>,
             at'[l] \notin {"shown", "serving"},
             \A m \in Loads \ {l} : at'[m] = at[m] /\ got'[m] = got[m]
      PROVE  ShownIsHeld' /\ ServesItsSet'
  BY <1>2 DEF ShownIsHeld, ServesItsSet, Agent
<1>3. ASSUME NEW l \in Loads, Load(l)
      PROVE  ShownIsHeld' /\ ServesItsSet'
  <2>1. \E h \in {"refused", "push"} : at' = [at EXCEPT ![l] = h]
    BY <1>3 DEF Load
  <2>2. UNCHANGED <<got, holds, changed>>
    BY <1>3 DEF Load, world
  <2> QED BY <1>2, <2>1, <2>2 DEF TypeOK
<1>4. ASSUME NEW l \in Loads, Fails(l), UNCHANGED <<holds, changed>>
      PROVE  ShownIsHeld' /\ ServesItsSet'
  BY <1>2, <1>4 DEF Fails, Ends, TypeOK
<1>5. ASSUME NEW l \in Loads, LoadStep(l) \/ TimerStep(l)
      PROVE  ShownIsHeld' /\ ServesItsSet'
  <2>1. UNCHANGED <<holds, changed>>
    BY <1>5 DEF LoadStep, TimerStep, AttemptFails, PushAccepted, PushRefused,
       ReadRetried, ReadFails, ReadUnlike, Serves, PauseEnds, PushTimesOut,
       ReadTimesOut, world
  <2>2. CASE Fails(l)
    BY <1>4, <2>1, <2>2
  <2>3. CASE Serves(l)
    <3>1. at[l] = "shown" /\ got[l] = l /\ at' = [at EXCEPT ![l] = "serving"]
          /\ got' = [got EXCEPT ![l] = NONE]
      BY <2>3 DEF Serves, Unlike, Ends
    <3> QED BY <2>1, <3>1 DEF ShownIsHeld, ServesItsSet, Agent, TypeOK
  <2>4. CASE ~Fails(l) /\ ~Serves(l)
    <3>1. /\ \E h \in {"pause", "push", "read", "reread"} : at' = [at EXCEPT ![l] = h]
          /\ UNCHANGED got
      BY <1>5, <2>4 DEF LoadStep, TimerStep, AttemptFails, PushAccepted, PushRefused,
         ReadRetried, ReadFails, ReadUnlike, PauseEnds, PushTimesOut,
         ReadTimesOut, attempt
    <3> QED BY <1>2, <2>1, <3>1 DEF TypeOK
  <2> QED BY <2>2, <2>3, <2>4
<1>6. ASSUME NEW l \in Loads, AgentTakes(l)
      PROVE  ShownIsHeld' /\ ServesItsSet'
  <2>1. HoldsAfterwards(Agent(l), l) /\ UNCHANGED <<at, got>>
    BY <1>6 DEF AgentTakes
  <2> QED BY <1>1, <2>1, ChangesAreMarked, Wired
<1>7. ASSUME NEW l \in Loads, AgentRejects(l)
      PROVE  ShownIsHeld' /\ ServesItsSet'
  BY <1>1, <1>7 DEF AgentRejects, world
<1>8. ASSUME NEW l \in Loads, AgentShows(l)
      PROVE  ShownIsHeld' /\ ServesItsSet'
  <2>1. /\ at' = [at EXCEPT ![l] = "shown"]
        /\ got' = [got EXCEPT ![l] = holds[Agent(l)]]
        /\ changed' = [changed EXCEPT ![l] = FALSE] /\ UNCHANGED holds
    BY <1>8 DEF AgentShows
  <2> QED BY <2>1 DEF ShownIsHeld, ServesItsSet, Agent, TypeOK
<1>9. ASSUME NEW a \in Agents, SetReplaced(a)
      PROVE  ShownIsHeld' /\ ServesItsSet'
  <2>1. PICK s \in {Empty, Other} : HoldsAfterwards(a, s)
    BY <1>9 DEF SetReplaced
  <2>2. UNCHANGED <<at, got>>
    BY <1>9 DEF SetReplaced, attempt
  <2> QED BY <1>1, <2>1, <2>2, ChangesAreMarked
<1>10. (Tick \/ UNCHANGED vars \/ \E a \in Agents : ConnectivityChanges(a))
         => UNCHANGED <<at, got, holds, changed>>
  BY DEF Tick, vars, attempt, world, ConnectivityChanges
<1> QED BY <1>1, <1>3, <1>5, <1>6, <1>7, <1>8, <1>9, <1>10 DEF Next, AgentStep

(* A load that serves was shown its own set: unless that has changed since, *)
(* the agent holds it (httpEngine.mts:238-253).                             *)
THEOREM ServesItsSetHolds == Spec => []ServesItsSet
<1>1. Init => ShownIsHeld /\ ServesItsSet
  BY DEF Init, ShownIsHeld, ServesItsSet
<1>2. TypeOK /\ ShownIsHeld /\ ServesItsSet /\ [Next]_vars
        => ShownIsHeld' /\ ServesItsSet'
  BY ServesStep
<1> QED BY <1>1, <1>2, LoadTyped, TypedAlways, PTL DEF Spec
=============================================================================
