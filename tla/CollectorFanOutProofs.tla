----------------------- MODULE CollectorFanOutProofs -----------------------
(***************************************************************************)
(* Proofs about CollectorFanOut for every number of collectors, every      *)
(* concurrency and every set of errors.  The inductive invariant is made   *)
(* of four parts: Progress (what the lanes have claimed is accounted for), *)
(* Cancellation (an abort reaches every collector that still runs),        *)
(* Attribution (whatever may reject the fan-out is on the record) and,     *)
(* for the cap on calls, LanesApart (a lane for each collector at work).   *)
(***************************************************************************)
EXTENDS CollectorFanOut, FiniteSetTheorems, TLAPS

(* Nothing has happened before runCollectors is called.                     *)
IdleIsClean ==
  phase = "idle" =>
    /\ next = 0 /\ invoked = {} /\ live = {}
    /\ lane = [l \in Lanes |-> 0]
    /\ fanOut = NONE /\ cause = NONE
    /\ ~deadline /\ ~listening

(* The cursor bounds what lanes await and what was invoked.                 *)
CursorBounds ==
  /\ \A l \in Lanes : lane[l] <= next
  /\ \A c \in invoked : c <= next
  /\ live \subseteq invoked
  /\ \A c \in Collectors : c > next => race[c] = Open /\ own[c] = NONE

(* As long as no lane has rejected, every claimed collector is in the       *)
(* results or awaited, and a lane ends only when nothing is left to claim.  *)
NothingSkipped ==
  phase = "collecting" =>
    /\ N # 0
    /\ cause = NONE =>
         /\ \A c \in 1..next : c \in results \/ \E l \in Lanes : lane[l] = c
         /\ \A l \in Lanes : lane[l] = 0 => next = N

ResultsAnswered == \A c \in results : race[c] = Answered

ResolvedIsWhole ==
  phase = "resolved" => results = Collectors /\ \A l \in Lanes : lane[l] = 0

Progress ==
  /\ IdleIsClean /\ CursorBounds /\ NothingSkipped
  /\ ResultsAnswered /\ ResolvedIsWhole

(* A collector at work whose signal has not aborted is still raced for; one *)
(* whose signal has aborted, or which answered, has a settled race.         *)
LiveIsAttended ==
  \A c \in Collectors :
    /\ c \in live /\ own[c] = NONE =>
         race[c] = Open /\ \E l \in Lanes : lane[l] = c
    /\ own[c] # NONE => race[c] # Open
    /\ race[c] = Answered => c \notin live

(* An abort of the fan-out has reached every collector a lane awaits.       *)
AbortReachesAll ==
  fanOut # NONE =>
    \A l \in Lanes : lane[l] # 0 => own[lane[l]] # NONE

SettledIsReleased ==
  /\ phase \in {"resolved", "rejected"} => ~deadline /\ ~listening
  /\ phase = "rejected" => fanOut # NONE /\ cause # NONE

Cancellation == LiveIsAttended /\ AbortReachesAll /\ SettledIsReleased

(* Every value that may reject the fan-out is recorded or the caller's.     *)
Known(v) == v = CallerReason \/ record[v] # NONE

ReasonsKnown ==
  /\ fanOut # NONE => Known(fanOut)
  /\ cause # NONE => Known(cause)
  /\ \A c \in Collectors :
       /\ own[c] # NONE => own[c] \in {TimeoutOf(c), fanOut} /\ Known(own[c])
       /\ race[c].won \in {"failed", "cancelled"} => Known(race[c].with)

(* The record blames the deadline for itself, a collector for its timeout   *)
(* or for a rejection that cost it its race, and nobody for the caller.     *)
RecordIsSound ==
  \A v \in Reasons :
    record[v] # NONE =>
      /\ v # CallerReason
      /\ \/ v = DeadlineReason /\ record[v] = DeadlineSource
         \/ \E c \in Collectors :
              /\ record[v] = CollectorSource(c)
              /\ v = TimeoutOf(c) \/ race[c] = Failed(v)

Attribution == ReasonsKnown /\ RecordIsSound

Inv == TypeOK /\ Progress /\ Cancellation /\ Attribution
-----------------------------------------------------------------------------
(* The cap: no more lanes than collectors or permits, and some lane as soon *)
(* as there is a collector (collectorLimits.mts:286).                       *)
LEMMA LaneCountBounds ==
  /\ LaneCount \in Nat /\ LaneCount <= N /\ LaneCount <= Concurrency
  /\ N # 0 => 1 \in Lanes
  /\ Lanes \subseteq Collectors
BY FanOutAssumption DEF LaneCount, Lanes, Collectors

(* The reasons and sources the code names are among those the model has.    *)
LEMMA Named ==
  /\ NONE \notin Reasons /\ NONE \notin Sources
  /\ CallerReason \in Reasons /\ DeadlineReason \in Reasons
  /\ DeadlineSource \in Sources
  /\ \A c \in Collectors : TimeoutOf(c) \in Reasons /\ CollectorSource(c) \in Sources
BY FanOutAssumption DEF Reasons, Sources

(* A race won or lost is a race; its value says who it was lost to.         *)
LEMMA RacesTyped ==
  /\ Open \in Races /\ Answered \in Races
  /\ \A v \in Reasons : Failed(v) \in Races /\ Cancelled(v) \in Races
  /\ \A r \in Races : r.won \in {"failed", "cancelled"} => r.with \in Reasons
<1>1. Open \in Races /\ Answered \in Races
  BY DEF Races
<1>2. \A v \in Reasons : Failed(v) \in Races /\ Cancelled(v) \in Races
  BY DEF Races
<1>3. ASSUME NEW r \in Races, r.won \in {"failed", "cancelled"}
      PROVE  r.with \in Reasons
  <2>1. CASE r = Open \/ r = Answered
    BY <1>3, <2>1 DEF Open, Answered
  <2>2. CASE \E v \in Reasons : r = Failed(v)
    BY <2>2 DEF Failed
  <2>3. CASE \E v \in Reasons : r = Cancelled(v)
    BY <2>3 DEF Cancelled
  <2> QED BY <2>1, <2>2, <2>3 DEF Races
<1> QED BY <1>1, <1>2, <1>3

(* A recorded value keeps its source, a fresh one gets the source given.    *)
LEMMA RecordTyped ==
  ASSUME TypeOK, NEW v \in Reasons, NEW s \in Sources, Record(v, s)
  PROVE  record' \in [Reasons -> Sources \cup {NONE}]
BY DEF TypeOK, Record

(* An abort hands every signal and every race a reason.                     *)
LEMMA InheritTyped ==
  ASSUME TypeOK, NEW v \in Reasons, AbortFanOut(v)
  PROVE  /\ fanOut' \in Reasons \cup {NONE}
         /\ own' \in [Collectors -> Reasons \cup {NONE}]
         /\ race' \in [Collectors -> Races]
BY RacesTyped DEF TypeOK, AbortFanOut, InheritAbort

(* A collector rejects with a reason.                                       *)
LEMMA RejectionsTyped == TypeOK => Rejections \subseteq Reasons
BY DEF TypeOK, Rejections, Reasons

(* What a lane awaits is a collector.                                       *)
LEMMA LaneTyped ==
  ASSUME TypeOK, NEW l \in Lanes, lane[l] # 0
  PROVE  lane[l] \in Collectors /\ race[lane[l]] \in Races
<1>1. N \in Nat /\ lane[l] \in 0..N
  BY FanOutAssumption DEF TypeOK
<1> QED BY <1>1 DEF TypeOK, Collectors

(* A claim stays within the list of collectors.                             *)
LEMMA ClaimTyped ==
  ASSUME TypeOK, NEW l \in Lanes, ClaimNext(l)
  PROVE  /\ next' \in 0..N
         /\ lane' \in [Lanes -> 0..N]
         /\ invoked' \in SUBSET Collectors /\ live' \in SUBSET Collectors
         /\ cause' \in Reasons \cup {NONE}
<1>0. next \in Nat /\ N \in Nat /\ next <= N
  BY FanOutAssumption DEF TypeOK
<1>1. CASE next = N /\ EndLane(l) /\ UNCHANGED next
  BY <1>0, <1>1 DEF EndLane, TypeOK
<1>2. CASE next < N /\ next' = next + 1 /\ InvokeNext(l)
  <2>1. next + 1 \in 1..N
    BY <1>0, <1>2
  <2> QED BY <1>0, <1>2, <2>1 DEF InvokeNext, TypeOK, Collectors
<1>3. CASE /\ next < N /\ next' = next + 1
           /\ lane' = [lane EXCEPT ![l] = 0]
           /\ cause' = IF cause = NONE THEN fanOut ELSE cause
           /\ UNCHANGED <<invoked, live>>
  BY <1>0, <1>3 DEF TypeOK
<1> QED BY <1>1, <1>2, <1>3 DEF ClaimNext

(* The variables have their types before collect is called.                 *)
LEMMA TypeInit == Init => TypeOK
<1> SUFFICES ASSUME Init PROVE TypeOK
  OBVIOUS
<1>1. next \in 0..N /\ lane \in [Lanes -> 0..N]
  BY FanOutAssumption DEF Init
<1>2. own \in [Collectors -> Reasons \cup {NONE}] /\ race \in [Collectors -> Races]
  BY RacesTyped DEF Init
<1>3. record \in [Reasons -> Sources \cup {NONE}]
  BY DEF Init
<1> QED BY <1>1, <1>2, <1>3 DEF Init, TypeOK

(* Each step keeps the types.                                               *)
LEMMA TypeStep == TypeOK /\ [Next]_vars => TypeOK'
<1> SUFFICES ASSUME TypeOK, [Next]_vars PROVE TypeOK'
  OBVIOUS
<1> USE FanOutAssumption, Named, RacesTyped, LaneCountBounds
<1>1. CASE Collect
  <2>1. lane' \in [Lanes -> 0..N]
    BY <1>1 DEF Collect, TypeOK, Lanes
  <2> QED BY <1>1, <2>1 DEF Collect, TypeOK
<1>2. ASSUME NEW c \in Collectors, Answers(c) PROVE TypeOK'
  BY <1>2 DEF Answers, TypeOK
<1>3. ASSUME NEW c \in Collectors, NEW v \in Rejections, Rejects(c, v) PROVE TypeOK'
  <2>1. v \in Reasons
    BY RejectionsTyped
  <2>2. record' \in [Reasons -> Sources \cup {NONE}]
    BY <1>3, <2>1, RecordTyped DEF Rejects, TypeOK
  <2> QED BY <1>3, <2>1, <2>2 DEF Rejects, TypeOK
<1>4. ASSUME NEW c \in Collectors, OwnTimeout(c) PROVE TypeOK'
  <2>1. record' \in [Reasons -> Sources \cup {NONE}]
    BY <1>4, RecordTyped DEF OwnTimeout
  <2> QED BY <1>4, <2>1 DEF OwnTimeout, TypeOK
<1>5. CASE DeadlineFires
  <2>1. record' \in [Reasons -> Sources \cup {NONE}]
    BY <1>5, RecordTyped DEF DeadlineFires
  <2> QED BY <1>5, <2>1, InheritTyped DEF DeadlineFires, TypeOK
<1>6. CASE CallerAborts
  BY <1>6, InheritTyped DEF CallerAborts, TypeOK
<1>7. ASSUME NEW l \in Lanes, LaneAdvances(l) PROVE TypeOK'
  <2>1. lane[l] \in Collectors
    BY <1>7, LaneTyped DEF LaneAdvances
  <2>2. results' \in SUBSET Collectors
    BY <1>7, <2>1 DEF LaneAdvances, TypeOK
  <2>3. /\ next' \in 0..N /\ lane' \in [Lanes -> 0..N]
        /\ invoked' \in SUBSET Collectors /\ live' \in SUBSET Collectors
        /\ cause' \in Reasons \cup {NONE}
    BY <1>7, ClaimTyped DEF LaneAdvances
  <2>4. UNCHANGED <<phase, own, race, fanOut, deadline, listening, caller, record>>
    BY <1>7 DEF LaneAdvances
  <2> QED BY <2>2, <2>3, <2>4 DEF TypeOK
<1>8. ASSUME NEW l \in Lanes, LaneFails(l) PROVE TypeOK'
  <2>1. race[lane[l]] \in Races
    BY <1>8, LaneTyped DEF LaneFails
  <2> QED BY <1>8, <2>1 DEF LaneFails, TypeOK
<1>9. CASE Reject
  BY <1>9, InheritTyped DEF Reject, TypeOK
<1>10. CASE Resolve
  BY <1>10 DEF Resolve, TypeOK
<1>11. CASE UNCHANGED vars
  BY <1>11 DEF vars, TypeOK
<1> QED BY <1>1, <1>2, <1>3, <1>4, <1>5, <1>6, <1>7, <1>8, <1>9, <1>10, <1>11 DEF Next

(* Every variable keeps its type, whatever the number of collectors, lanes  *)
(* and errors: the cursor stays within the list (runCollectors' lane loop). *)
THEOREM TypeCorrect == Spec => []TypeOK
<1> QED BY TypeInit, TypeStep, PTL DEF Spec
-----------------------------------------------------------------------------
(* What an abort of the fan-out does: it takes effect once, and touches only *)
(* collectors a lane awaits, signals and races alike.                       *)
LEMMA AbortEffect ==
  ASSUME TypeOK, NEW v \in Reasons, AbortFanOut(v)
  PROVE  /\ fanOut' = IF fanOut = NONE THEN v ELSE fanOut
         /\ fanOut' # NONE
         /\ \A c \in Collectors :
              /\ own'[c] # own[c] =>
                   own[c] = NONE /\ own'[c] = fanOut' /\ c \in Guarded
              /\ race'[c] # race[c] =>
                   /\ race[c] = Open /\ race'[c] = Cancelled(fanOut')
                   /\ own[c] = NONE /\ c \in Guarded
              /\ own[c] = NONE /\ own'[c] # NONE => race'[c] # Open
              /\ fanOut = NONE /\ c \in Guarded => own'[c] # NONE
<1>1. CASE fanOut = NONE /\ fanOut' = v /\ InheritAbort(v)
  <2>1. v # NONE
    BY Named
  <2>2. ASSUME NEW c \in Collectors
        PROVE  /\ own'[c] = IF Cancellable(c) THEN v ELSE own[c]
               /\ race'[c] = IF Cancellable(c) /\ race[c] = Open
                             THEN Cancelled(v) ELSE race[c]
    BY <1>1 DEF InheritAbort
  <2>3. Cancelled(v) # Open
    BY DEF Cancelled, Open
  <2> QED BY <1>1, <2>1, <2>2, <2>3 DEF Cancellable
<1>2. CASE fanOut # NONE /\ UNCHANGED <<fanOut, own, race>>
  BY <1>2
<1> QED BY <1>1, <1>2 DEF AbortFanOut

(* A lane's next claim: nothing left, the collector at the cursor, or a     *)
(* refusal that rejects the lane.                                           *)
LEMMA ClaimCases ==
  ASSUME TypeOK, NEW l \in Lanes, ClaimNext(l)
  PROVE  /\ \A k \in Lanes \ {l} : lane'[k] = lane[k]
         /\ \/ /\ next = N /\ next' = next /\ lane'[l] = 0
               /\ UNCHANGED <<cause, invoked, live>>
            \/ /\ next < N /\ next' = next + 1 /\ fanOut = NONE
               /\ lane'[l] = next + 1
               /\ invoked' = invoked \cup {next + 1}
               /\ live' = live \cup {next + 1}
               /\ UNCHANGED cause
            \/ /\ next < N /\ next' = next + 1 /\ fanOut # NONE
               /\ lane'[l] = 0 /\ cause' # NONE
               /\ cause' \in {cause, fanOut}
               /\ UNCHANGED <<invoked, live>>
BY DEF TypeOK, ClaimNext, EndLane, InvokeNext

(* How a race stands is never two things at once.                           *)
LEMMA RacesApart ==
  /\ Open # Answered
  /\ \A v : /\ Failed(v) # Open /\ Failed(v) # Answered
            /\ Cancelled(v) # Open /\ Cancelled(v) # Answered
            /\ Failed(v).won = "failed" /\ Cancelled(v).won = "cancelled"
            /\ Failed(v).with = v /\ Cancelled(v).with = v
  /\ Open.won \notin {"failed", "cancelled"}
  /\ Answered.won \notin {"failed", "cancelled"}
BY DEF Open, Answered, Failed, Cancelled

-----------------------------------------------------------------------------
(* No lane has claimed anything yet.                                        *)
LEMMA ProgressInit == Init => Progress
<1> SUFFICES ASSUME Init PROVE Progress
  OBVIOUS
<1> USE LaneCountBounds, FanOutAssumption DEF Init
<1>1. IdleIsClean
  BY DEF IdleIsClean
<1>2. CursorBounds
  BY DEF CursorBounds, Collectors
<1>3. NothingSkipped /\ ResultsAnswered /\ ResolvedIsWhole
  BY DEF NothingSkipped, ResultsAnswered, ResolvedIsWhole
<1> QED BY <1>1, <1>2, <1>3 DEF Progress

(* Steps that only settle or abort collectors leave the lanes' work alone.  *)
LEMMA ProgressAside ==
  ASSUME TypeOK, Progress,
         phase # "idle",
         UNCHANGED <<phase, next, lane, invoked, results, cause>>,
         live' \subseteq live,
         \A c \in Collectors :
           c <= next \/ (race'[c] = race[c] /\ own'[c] = own[c]),
         \A c \in Collectors : race[c] = Answered => race'[c] = Answered
  PROVE  Progress'
<1>1. IdleIsClean'
  BY DEF IdleIsClean
<1>2. CursorBounds'
  <2>1. \A c \in Collectors : c > next => ~(c <= next)
    BY FanOutAssumption DEF TypeOK, Collectors
  <2> QED BY <2>1 DEF Progress, CursorBounds
<1>3. NothingSkipped'
  BY DEF Progress, NothingSkipped
<1>4. ResultsAnswered'
  BY DEF Progress, ResultsAnswered, TypeOK
<1>5. ResolvedIsWhole'
  BY DEF Progress, ResolvedIsWhole
<1> QED BY <1>1, <1>2, <1>3, <1>4, <1>5 DEF Progress
(* runCollectors gives every lane the collector of its own number.          *)
LEMMA ProgressCollect ==
  ASSUME TypeOK, Progress, Collect
  PROVE  Progress'
<1> USE LaneCountBounds, FanOutAssumption
<1>1. phase = "idle" /\ phase' \in {"resolved", "collecting"}
  BY DEF Collect
<1>2. /\ next = 0 /\ invoked = {} /\ live = {} /\ cause = NONE
      /\ lane = [l \in Lanes |-> 0]
  BY <1>1 DEF Progress, IdleIsClean
<1>3. \A l \in Lanes : lane'[l] = 0 \/ lane'[l] = l
  BY <1>2 DEF Collect
<1>4. Lanes = 1..next'
  BY DEF Collect, Lanes
<1>5. CursorBounds'
  <2>1. \A l \in Lanes : lane'[l] <= next'
    BY <1>3, <1>4 DEF Collect, Lanes
  <2>2. invoked' \subseteq Lanes /\ live' \subseteq invoked'
    BY <1>2 DEF Collect
  <2>3. \A c \in Collectors : c > next' => c > next
    BY <1>2 DEF Collect, Collectors
  <2>4. UNCHANGED <<race, own>>
    BY DEF Collect
  <2>5. \A c \in invoked' : c <= next'
    BY <1>4, <2>2
  <2>6. \A c \in Collectors : c > next' => race'[c] = Open /\ own'[c] = NONE
    BY <2>3, <2>4 DEF Progress, CursorBounds
  <2> QED BY <2>1, <2>2, <2>5, <2>6 DEF CursorBounds
<1>6. NothingSkipped'
  <2> SUFFICES ASSUME phase' = "collecting"
               PROVE  /\ N # 0
                      /\ cause' = NONE =>
                           /\ \A c \in 1..next' : \E l \in Lanes : lane'[l] = c
                           /\ \A l \in Lanes : lane'[l] # 0
    BY <1>4 DEF NothingSkipped
  <2>1. N # 0
    BY DEF Collect
  <2>2. caller => cause' # NONE
    BY <2>1, Named DEF Collect
  <2>3. ~caller => \A l \in Lanes : lane'[l] = l
    BY DEF Collect
  <2>4. \A l \in Lanes : l # 0
    BY <1>4
  <2>5. next' \in Nat
    BY DEF Collect
  <2>6. ~caller => \A c \in 1..next' : c \in Lanes /\ lane'[c] = c
    BY <1>4, <2>3
  <2> QED BY <2>1, <2>2, <2>3, <2>4, <2>6
<1>7. ResultsAnswered'
  BY DEF Collect, Progress, ResultsAnswered
<1>8. ResolvedIsWhole'
  <2> SUFFICES ASSUME phase' = "resolved"
               PROVE  results' = Collectors /\ \A l \in Lanes : lane'[l] = 0
    BY DEF ResolvedIsWhole
  <2>1. N = 0
    BY DEF Collect
  <2>2. Collectors = {} /\ Lanes = {}
    BY <2>1 DEF Collectors
  <2> QED BY <2>2 DEF Collect, TypeOK
<1>9. IdleIsClean'
  BY <1>1 DEF IdleIsClean
<1> QED BY <1>5, <1>6, <1>7, <1>8, <1>9 DEF Progress

(* An answered lane stores its result and claims the next collector, so a   *)
(* claimed collector is stored or awaited.                                  *)
LEMMA ProgressLaneAdvances ==
  ASSUME TypeOK, Progress, NEW l \in Lanes, LaneAdvances(l)
  PROVE  Progress'
<1> USE FanOutAssumption
<1>1. /\ lane[l] # 0 /\ lane[l] \in Collectors /\ race[lane[l]] = Answered
      /\ results' = results \cup {lane[l]} /\ ClaimNext(l)
      /\ UNCHANGED <<phase, own, race, fanOut, deadline, listening, caller>>
  BY LaneTyped DEF LaneAdvances
<1>2. phase \notin {"idle", "resolved"}
  BY <1>1 DEF Progress, IdleIsClean, ResolvedIsWhole
<1>3. next \in Nat /\ N \in Nat /\ next <= N
  BY DEF TypeOK
<1>4. IdleIsClean' /\ ResolvedIsWhole'
  BY <1>1, <1>2 DEF IdleIsClean, ResolvedIsWhole
<1>5. ResultsAnswered'
  BY <1>1 DEF Progress, ResultsAnswered
<1>6. next' \in {next, next + 1} /\ next' \in Nat
  BY <1>1, <1>3, ClaimCases
<1>7. CursorBounds'
  <2>1. \A k \in Lanes : lane[k] \in Nat /\ lane[k] <= next
    BY DEF Progress, CursorBounds, TypeOK
  <2>2. \A k \in Lanes : lane'[k] <= next'
    <3>1. lane'[l] <= next'
      BY <1>1, <1>3, ClaimCases
    <3>2. \A k \in Lanes \ {l} : lane'[k] = lane[k]
      BY <1>1, ClaimCases
    <3> QED BY <1>3, <1>6, <2>1, <3>1, <3>2
  <2>3. \A c \in invoked' : c <= next'
    <3>1. \A c \in invoked : c \in Nat /\ c <= next
      BY DEF Progress, CursorBounds, TypeOK, Collectors
    <3>2. invoked' = invoked \/ (invoked' = invoked \cup {next + 1} /\ next' = next + 1)
      BY <1>1, ClaimCases
    <3> QED BY <1>3, <1>6, <3>1, <3>2
  <2>4. live' \subseteq invoked'
    BY <1>1, ClaimCases DEF Progress, CursorBounds
  <2>5. \A c \in Collectors : c > next' => c > next
    BY <1>3, <1>6 DEF Collectors
  <2> QED BY <1>1, <2>2, <2>3, <2>4, <2>5 DEF Progress, CursorBounds
<1>8. NothingSkipped'
  <2> SUFFICES ASSUME phase = "collecting", cause' = NONE
               PROVE  /\ \A c \in 1..next' : c \in results' \/ \E k \in Lanes : lane'[k] = c
                      /\ \A k \in Lanes : lane'[k] = 0 => next' = N
    BY <1>1 DEF NothingSkipped, Progress
  <2>1. cause = NONE
    BY <1>1, ClaimCases
  <2>2. /\ \A c \in 1..next : c \in results \/ \E k \in Lanes : lane[k] = c
        /\ \A k \in Lanes : lane[k] = 0 => next = N
    BY <2>1 DEF Progress, NothingSkipped
  <2>3. \A k \in Lanes \ {l} : lane'[k] = lane[k]
    BY <1>1, ClaimCases
  <2>4. \/ next = N /\ next' = next /\ lane'[l] = 0
        \/ next < N /\ next' = next + 1 /\ lane'[l] = next + 1
    BY <1>1, ClaimCases
  <2>5. \A c \in 1..next : c \in results' \/ \E k \in Lanes : lane'[k] = c
    BY <1>1, <2>2, <2>3
  <2>6. \A c \in 1..next' : c \in results' \/ \E k \in Lanes : lane'[k] = c
    <3>1. CASE next' = next
      BY <2>5, <3>1
    <3>2. CASE next' = next + 1 /\ lane'[l] = next + 1
      <4>1. \A c \in 1..next' : c \in 1..next \/ c = next + 1
        BY <1>3, <3>2
      <4> QED BY <2>5, <3>2, <4>1
    <3> QED BY <2>4, <3>1, <3>2
  <2>7. \A k \in Lanes : lane'[k] = 0 => next' = N
    <3>1. CASE next = N /\ next' = next
      BY <3>1
    <3>2. CASE next < N /\ next' = next + 1 /\ lane'[l] = next + 1
      BY <1>3, <2>2, <2>3, <3>2
    <3> QED BY <2>4, <3>1, <3>2
  <2> QED BY <2>6, <2>7
<1> QED BY <1>4, <1>5, <1>7, <1>8 DEF Progress
(* A lane that fails leaves a cause, from which the fan-out cannot resolve. *)
LEMMA ProgressLaneFails ==
  ASSUME TypeOK, Progress, NEW l \in Lanes, LaneFails(l)
  PROVE  Progress'
<1>1. /\ lane[l] # 0 /\ lane' = [lane EXCEPT ![l] = 0]
      /\ cause' = IF cause = NONE THEN race[lane[l]].with ELSE cause
      /\ race[lane[l]].won \in {"failed", "cancelled"}
      /\ UNCHANGED <<phase, next, invoked, live, own, race, results, fanOut,
                     deadline, listening>>
  BY DEF LaneFails
<1>2. phase \notin {"idle", "resolved"}
  BY <1>1 DEF Progress, IdleIsClean, ResolvedIsWhole
<1>3. cause' # NONE
  BY <1>1, LaneTyped, RacesTyped, Named
<1>4. CursorBounds'
  <2>1. \A k \in Lanes : lane'[k] = 0 \/ lane'[k] = lane[k]
    BY <1>1 DEF TypeOK
  <2>2. 0 <= next
    BY FanOutAssumption DEF TypeOK
  <2> QED BY <1>1, <2>1, <2>2 DEF Progress, CursorBounds
<1>5. NothingSkipped'
  BY <1>1, <1>3 DEF Progress, NothingSkipped
<1> QED BY <1>1, <1>2, <1>4, <1>5
        DEF Progress, IdleIsClean, ResolvedIsWhole, ResultsAnswered

(* Each step keeps the account of what was claimed.                         *)
LEMMA ProgressStep == TypeOK /\ Progress /\ [Next]_vars => Progress'
<1> SUFFICES ASSUME TypeOK, Progress, [Next]_vars PROVE Progress'
  OBVIOUS
<1> USE FanOutAssumption
<1>0. \A c \in Guarded : c <= next
  BY DEF Guarded, Progress, CursorBounds
<1>1. CASE Collect
  BY <1>1, ProgressCollect
<1>2. ASSUME NEW c \in Collectors, Answers(c) PROVE Progress'
  <2>1. c <= next /\ phase # "idle"
    BY <1>2 DEF Answers, Progress, CursorBounds, IdleIsClean
  <2>2. \A d \in Collectors : d # c => race'[d] = race[d]
    BY <1>2 DEF Answers, TypeOK
  <2>3. \A d \in Collectors : race[d] = Answered => race'[d] = Answered
    BY <1>2, RacesApart DEF Answers, TypeOK
  <2> QED BY <1>2, <2>1, <2>2, <2>3, ProgressAside DEF Answers
<1>3. ASSUME NEW c \in Collectors, NEW v \in Rejections, Rejects(c, v) PROVE Progress'
  <2>1. c <= next /\ phase # "idle"
    BY <1>3 DEF Rejects, Progress, CursorBounds, IdleIsClean
  <2>2. \A d \in Collectors : d # c => race'[d] = race[d]
    BY <1>3 DEF Rejects, TypeOK
  <2>3. \A d \in Collectors : race[d] = Answered => race'[d] = Answered
    BY <1>3, RacesApart DEF Rejects, TypeOK
  <2> QED BY <1>3, <2>1, <2>2, <2>3, ProgressAside DEF Rejects
<1>4. ASSUME NEW c \in Collectors, OwnTimeout(c) PROVE Progress'
  <2>1. PICK l \in Lanes : lane[l] = c /\ c # 0
    BY <1>4 DEF OwnTimeout, Cancellable, Guarded
  <2>2. race[c] = Open /\ c <= next
    BY <1>4, <2>1 DEF OwnTimeout, Quiescent, LaneReady, Progress, CursorBounds
  <2>3. phase # "idle"
    BY <2>1 DEF Progress, IdleIsClean
  <2>4. \A d \in Collectors : d # c => race'[d] = race[d] /\ own'[d] = own[d]
    BY <1>4 DEF OwnTimeout, TypeOK
  <2>5. \A d \in Collectors : race[d] = Answered => race'[d] = Answered
    BY <2>2, <2>4, RacesApart
  <2>6. UNCHANGED <<phase, next, lane, invoked, live, results, cause>>
    BY <1>4 DEF OwnTimeout
  <2> QED BY <2>2, <2>3, <2>4, <2>5, <2>6, ProgressAside
<1>5. CASE DeadlineFires
  <2>1. phase # "idle"
    BY <1>5 DEF DeadlineFires, Progress, IdleIsClean
  <2>2. UNCHANGED <<phase, next, lane, invoked, live, results, cause>>
    BY <1>5 DEF DeadlineFires
  <2>3. /\ \A c \in Collectors : c <= next \/ (race'[c] = race[c] /\ own'[c] = own[c])
        /\ \A c \in Collectors : race[c] = Answered => race'[c] = Answered
    BY <1>0, <1>5, AbortEffect, Named, RacesApart DEF DeadlineFires
  <2> QED BY <2>1, <2>2, <2>3, ProgressAside
<1>6. CASE CallerAborts
  <2>1. UNCHANGED <<phase, next, lane, invoked, live, results, cause, deadline>>
    BY <1>6 DEF CallerAborts
  <2>2. CASE listening
    <3>1. phase # "idle"
      BY <2>2 DEF Progress, IdleIsClean
    <3>2. /\ \A c \in Collectors : c <= next \/ (race'[c] = race[c] /\ own'[c] = own[c])
          /\ \A c \in Collectors : race[c] = Answered => race'[c] = Answered
      BY <1>0, <1>6, <2>2, AbortEffect, Named, RacesApart DEF CallerAborts
    <3> QED BY <2>1, <3>1, <3>2, ProgressAside
  <2>3. CASE ~listening
    <3>1. UNCHANGED <<fanOut, own, race>> /\ ~listening'
      BY <1>6, <2>3 DEF CallerAborts
    <3> QED BY <2>1, <3>1 DEF Progress, IdleIsClean, CursorBounds,
              NothingSkipped, ResultsAnswered, ResolvedIsWhole
  <2> QED BY <2>2, <2>3
<1>7. ASSUME NEW l \in Lanes, LaneAdvances(l) PROVE Progress'
  BY <1>7, ProgressLaneAdvances
<1>8. ASSUME NEW l \in Lanes, LaneFails(l) PROVE Progress'
  BY <1>8, ProgressLaneFails
<1>9. CASE Reject
  <2>1. /\ phase = "collecting" /\ phase' = "rejected" /\ cause \in Reasons
        /\ AbortFanOut(cause)
        /\ UNCHANGED <<next, lane, invoked, live, results, cause>>
    BY <1>9 DEF Reject, TypeOK
  <2>2. /\ \A c \in Collectors : c <= next \/ (race'[c] = race[c] /\ own'[c] = own[c])
        /\ \A c \in Collectors : race[c] = Answered => race'[c] = Answered
    BY <1>0, <2>1, AbortEffect, RacesApart
  <2>3. \A c \in Collectors : c > next => ~(c <= next)
    BY DEF TypeOK, Collectors
  <2>4. CursorBounds'
    <3>1. \A c \in Collectors : c > next' => race'[c] = Open /\ own'[c] = NONE
      BY <2>1, <2>2, <2>3 DEF Progress, CursorBounds
    <3> QED BY <2>1, <3>1 DEF Progress, CursorBounds
  <2>5. ResultsAnswered'
    <3>1. results \subseteq Collectors
      BY DEF TypeOK
    <3> QED BY <2>1, <2>2, <3>1 DEF Progress, ResultsAnswered
  <2> QED BY <2>1, <2>4, <2>5 DEF Progress, IdleIsClean, NothingSkipped, ResolvedIsWhole
<1>10. CASE Resolve
  <2>1. /\ phase = "collecting" /\ phase' = "resolved" /\ cause = NONE /\ AllEnded
        /\ UNCHANGED <<next, lane, invoked, live, own, race, results, cause, fanOut>>
    BY <1>10 DEF Resolve
  <2>2. next = N
    BY <2>1, LaneCountBounds DEF Progress, NothingSkipped, AllEnded
  <2>3. \A l \in Lanes : lane[l] = 0
    BY <2>1 DEF AllEnded
  <2>4. \A c \in Collectors : c \in results
    <3> SUFFICES ASSUME NEW c \in Collectors PROVE c \in results
      OBVIOUS
    <3>1. c \in 1..next /\ c # 0
      BY <2>2 DEF Collectors
    <3> QED BY <2>1, <2>3, <3>1 DEF Progress, NothingSkipped
  <2> QED BY <2>1, <2>3, <2>4 DEF Progress, IdleIsClean, CursorBounds, NothingSkipped,
            ResultsAnswered, ResolvedIsWhole, TypeOK
<1>11. CASE UNCHANGED vars
  BY <1>11 DEF vars, Progress, IdleIsClean, CursorBounds, NothingSkipped,
     ResultsAnswered, ResolvedIsWhole
<1> QED BY <1>1, <1>2, <1>3, <1>4, <1>5, <1>6, <1>7, <1>8, <1>9, <1>10, <1>11 DEF Next

(* runCollectors never resolves partially (collectorLimits.mts:224): when   *)
(* it resolves every collector has answered, however many there are and     *)
(* however answers, failures, timeouts and the caller's leaving interleave. *)
THEOREM FailClosedHolds == Spec => []FailClosed
<1>1. Init => TypeOK /\ Progress
  BY TypeInit, ProgressInit
<1>2. TypeOK /\ Progress /\ [Next]_vars => (TypeOK /\ Progress)'
  BY TypeStep, ProgressStep
<1>3. TypeOK /\ Progress => FailClosed
  BY DEF Progress, ResultsAnswered, ResolvedIsWhole, FailClosed
<1> QED BY <1>1, <1>2, <1>3, PTL DEF Spec
-----------------------------------------------------------------------------
(* No collector is at work yet.                                             *)
LEMMA CancellationInit == Init => Cancellation
BY FanOutAssumption, RacesApart
   DEF Init, Cancellation, LiveIsAttended, AbortReachesAll, SettledIsReleased

(* An abort of the fan-out, whoever raised it, with the lanes where they are.*)
LEMMA CancellationAbort ==
  ASSUME TypeOK, Cancellation, NEW v \in Reasons, AbortFanOut(v),
         UNCHANGED <<lane, live>>
  PROVE  LiveIsAttended' /\ AbortReachesAll' /\ fanOut' # NONE
<1>1. LiveIsAttended'
  <2> SUFFICES ASSUME NEW c \in Collectors
               PROVE  /\ c \in live /\ own'[c] = NONE =>
                           race'[c] = Open /\ \E l \in Lanes : lane[l] = c
                      /\ own'[c] # NONE => race'[c] # Open
                      /\ race'[c] = Answered => c \notin live
    BY DEF LiveIsAttended
  <2>1. /\ c \in live /\ own[c] = NONE =>
             race[c] = Open /\ \E l \in Lanes : lane[l] = c
        /\ own[c] # NONE => race[c] # Open
        /\ race[c] = Answered => c \notin live
    BY DEF Cancellation, LiveIsAttended
  <2>2. /\ own'[c] # own[c] => own[c] = NONE /\ own'[c] = fanOut' /\ fanOut' # NONE
        /\ race'[c] # race[c] => race[c] = Open /\ race'[c] = Cancelled(fanOut')
        /\ own[c] = NONE /\ own'[c] # NONE => race'[c] # Open
    BY AbortEffect
  <2>3. own'[c] = NONE => race'[c] = race[c]
    <3>1. CASE fanOut = NONE
      BY <3>1, AbortEffect
    <3>2. CASE fanOut # NONE
      BY <3>2 DEF AbortFanOut
    <3> QED BY <3>1, <3>2
  <2> QED BY <2>1, <2>2, <2>3, RacesApart
<1>2. AbortReachesAll'
  <2>1. CASE fanOut = NONE
    <3>1. \A l \in Lanes : lane[l] # 0 => lane[l] \in Guarded /\ lane[l] \in Collectors
      BY LaneTyped DEF Guarded
    <3> QED BY <2>1, <3>1, AbortEffect DEF AbortReachesAll
  <2>2. CASE fanOut # NONE
    BY <2>2 DEF AbortFanOut, Cancellation, AbortReachesAll
  <2> QED BY <2>1, <2>2
<1> QED BY <1>1, <1>2, AbortEffect

(* A collector invoked by a claim is awaited and not yet signalled, and     *)
(* none is invoked once the fan-out has aborted.                            *)
LEMMA CancellationLaneAdvances ==
  ASSUME TypeOK, Progress, Cancellation, NEW l \in Lanes, LaneAdvances(l)
  PROVE  Cancellation'
<1>1. /\ lane[l] # 0 /\ lane[l] \in Collectors /\ race[lane[l]] = Answered
      /\ ClaimNext(l)
      /\ UNCHANGED <<phase, own, race, fanOut, deadline, listening>>
  BY LaneTyped DEF LaneAdvances
<1>2. next \in Nat /\ N \in Nat /\ next <= N
  BY FanOutAssumption DEF TypeOK
<1>3. \A k \in Lanes \ {l} : lane'[k] = lane[k]
  BY <1>1, ClaimCases
<1>4. next < N => next + 1 \in Collectors /\ next + 1 > next
  BY <1>2 DEF Collectors
<1>5. LiveIsAttended'
  <2> SUFFICES ASSUME NEW c \in Collectors
               PROVE  /\ c \in live' /\ own[c] = NONE =>
                           race[c] = Open /\ \E k \in Lanes : lane'[k] = c
                      /\ own[c] # NONE => race[c] # Open
                      /\ race[c] = Answered => c \notin live'
    BY <1>1 DEF LiveIsAttended
  <2>1. /\ c \in live /\ own[c] = NONE =>
             race[c] = Open /\ \E k \in Lanes : lane[k] = c
        /\ own[c] # NONE => race[c] # Open
        /\ race[c] = Answered => c \notin live
    BY DEF Cancellation, LiveIsAttended
  <2>2. CASE live' = live
    BY <1>1, <1>3, <2>1, <2>2, RacesApart
  <2>3. CASE next < N /\ lane'[l] = next + 1 /\ live' = live \cup {next + 1}
    <3>1. c = next + 1 => race[c] = Open /\ own[c] = NONE
      BY <1>4, <2>3 DEF Progress, CursorBounds
    <3> QED BY <1>1, <1>3, <2>1, <2>3, <3>1, RacesApart
  <2> QED BY <1>1, <2>2, <2>3, ClaimCases
<1>6. AbortReachesAll'
  <2> SUFFICES ASSUME fanOut # NONE, NEW k \in Lanes, lane'[k] # 0
               PROVE  own[lane'[k]] # NONE
    BY <1>1 DEF AbortReachesAll
  <2>1. k # l
    BY <1>1, ClaimCases
  <2> QED BY <1>3, <2>1 DEF Cancellation, AbortReachesAll
<1>7. SettledIsReleased'
  <2>1. phase = "rejected" => cause' # NONE
    BY <1>1, ClaimCases DEF Cancellation, SettledIsReleased
  <2> QED BY <1>1, <2>1 DEF Cancellation, SettledIsReleased
<1> QED BY <1>5, <1>6, <1>7 DEF Cancellation

(* Each step keeps every collector at work attended or told to stop.        *)
LEMMA CancellationStep ==
  TypeOK /\ Progress /\ Cancellation /\ [Next]_vars => Cancellation'
<1> SUFFICES ASSUME TypeOK, Progress, Cancellation, [Next]_vars
             PROVE  Cancellation'
  OBVIOUS
<1>1. CASE Collect
  <2>1. /\ phase = "idle" /\ live = {} /\ fanOut = NONE /\ next = 0
        /\ lane = [l \in Lanes |-> 0]
    BY <1>1 DEF Collect, Progress, IdleIsClean
  <2>2. \A c \in Collectors : race[c] = Open /\ own[c] = NONE
    BY <2>1, FanOutAssumption DEF Progress, CursorBounds, Collectors
  <2>3. UNCHANGED <<race, own>> /\ phase' \in {"resolved", "collecting"}
    BY <1>1 DEF Collect
  <2>4. LiveIsAttended'
    <3>1. \A c \in live' : \E l \in Lanes : lane'[l] = c
      BY <1>1, <2>1 DEF Collect
    <3> QED BY <2>2, <2>3, <3>1, RacesApart DEF LiveIsAttended
  <2>5. AbortReachesAll'
    BY <1>1, <2>1 DEF Collect, AbortReachesAll
  <2>6. SettledIsReleased'
    BY <1>1, <2>3 DEF Collect, SettledIsReleased
  <2> QED BY <2>4, <2>5, <2>6 DEF Cancellation
<1>2. ASSUME NEW c \in Collectors, Answers(c) PROVE Cancellation'
  <2>1. \A d \in Collectors : d # c => race'[d] = race[d]
    BY <1>2 DEF Answers, TypeOK
  <2>2. race'[c] = IF race[c] = Open THEN Answered ELSE race[c]
    BY <1>2 DEF Answers, TypeOK
  <2>3. live' = live \ {c}
        /\ UNCHANGED <<phase, lane, own, cause, fanOut, deadline, listening>>
    BY <1>2 DEF Answers
  <2>4. LiveIsAttended'
    BY <2>1, <2>2, <2>3, RacesApart DEF Cancellation, LiveIsAttended
  <2> QED BY <2>3, <2>4 DEF Cancellation, AbortReachesAll, SettledIsReleased
<1>3. ASSUME NEW c \in Collectors, NEW v \in Rejections, Rejects(c, v)
      PROVE  Cancellation'
  <2>1. \A d \in Collectors : d # c => race'[d] = race[d]
    BY <1>3 DEF Rejects, TypeOK
  <2>2. race'[c] = IF race[c] = Open THEN Failed(v) ELSE race[c]
    BY <1>3 DEF Rejects, TypeOK
  <2>3. live' = live \ {c}
        /\ UNCHANGED <<phase, lane, own, cause, fanOut, deadline, listening>>
    BY <1>3 DEF Rejects
  <2>4. LiveIsAttended'
    BY <2>1, <2>2, <2>3, RacesApart DEF Cancellation, LiveIsAttended
  <2> QED BY <2>3, <2>4 DEF Cancellation, AbortReachesAll, SettledIsReleased
<1>4. ASSUME NEW c \in Collectors, OwnTimeout(c) PROVE Cancellation'
  <2>1. \A d \in Collectors : d # c => race'[d] = race[d] /\ own'[d] = own[d]
    BY <1>4 DEF OwnTimeout, TypeOK
  <2>2. own'[c] = TimeoutOf(c) /\ own'[c] # NONE /\ race'[c] = Cancelled(TimeoutOf(c))
    BY <1>4, Named DEF OwnTimeout, TypeOK
  <2>3. UNCHANGED <<phase, lane, live, cause, fanOut, deadline, listening>>
    BY <1>4 DEF OwnTimeout
  <2>4. LiveIsAttended'
    BY <2>1, <2>2, <2>3, RacesApart DEF Cancellation, LiveIsAttended
  <2>5. AbortReachesAll'
    BY <2>1, <2>2, <2>3, LaneTyped DEF Cancellation, AbortReachesAll
  <2> QED BY <2>3, <2>4, <2>5 DEF Cancellation, SettledIsReleased
<1>5. CASE DeadlineFires
  <2>1. /\ AbortFanOut(DeadlineReason) /\ ~deadline' /\ UNCHANGED <<lane, live>>
        /\ UNCHANGED <<phase, cause, listening>>
    BY <1>5 DEF DeadlineFires
  <2>2. LiveIsAttended' /\ AbortReachesAll' /\ fanOut' # NONE
    BY <2>1, CancellationAbort, Named
  <2> QED BY <2>1, <2>2 DEF Cancellation, SettledIsReleased
<1>6. CASE CallerAborts
  <2>1. ~listening' /\ UNCHANGED <<phase, cause, deadline, lane, live>>
    BY <1>6 DEF CallerAborts
  <2>2. CASE listening /\ AbortFanOut(CallerReason)
    <3>1. LiveIsAttended' /\ AbortReachesAll' /\ fanOut' # NONE
      BY <2>1, <2>2, CancellationAbort, Named
    <3> QED BY <2>1, <3>1 DEF Cancellation, SettledIsReleased
  <2>3. CASE UNCHANGED <<fanOut, own, race>>
    BY <2>1, <2>3 DEF Cancellation, LiveIsAttended, AbortReachesAll, SettledIsReleased
  <2> QED BY <1>6, <2>2, <2>3 DEF CallerAborts
<1>7. ASSUME NEW l \in Lanes, LaneAdvances(l) PROVE Cancellation'
  BY <1>7, CancellationLaneAdvances
<1>8. ASSUME NEW l \in Lanes, LaneFails(l) PROVE Cancellation'
  <2>1. /\ lane[l] # 0 /\ race[lane[l]].won \in {"failed", "cancelled"}
        /\ lane' = [lane EXCEPT ![l] = 0]
        /\ cause' = IF cause = NONE THEN race[lane[l]].with ELSE cause
        /\ UNCHANGED <<phase, live, own, race, fanOut, deadline, listening>>
    BY <1>8 DEF LaneFails
  <2>2. race[lane[l]] # Open
    BY <2>1, RacesApart
  <2>3. \A k \in Lanes : k # l => lane'[k] = lane[k]
    BY <2>1 DEF TypeOK
  <2>4. lane'[l] = 0
    BY <2>1 DEF TypeOK
  <2>5. LiveIsAttended'
    BY <2>1, <2>2, <2>3 DEF Cancellation, LiveIsAttended
  <2>6. AbortReachesAll'
    BY <2>1, <2>3, <2>4 DEF Cancellation, AbortReachesAll
  <2> QED BY <2>1, <2>5, <2>6 DEF Cancellation, SettledIsReleased
<1>9. CASE Reject
  <2>1. /\ phase' = "rejected" /\ cause \in Reasons /\ cause # NONE
        /\ AbortFanOut(cause) /\ ~deadline' /\ ~listening'
        /\ UNCHANGED <<lane, live>> /\ cause' = cause
    BY <1>9 DEF Reject, TypeOK
  <2>2. LiveIsAttended' /\ AbortReachesAll' /\ fanOut' # NONE
    BY <2>1, CancellationAbort
  <2> QED BY <2>1, <2>2 DEF Cancellation, SettledIsReleased
<1>10. CASE Resolve
  BY <1>10 DEF Resolve, Cancellation, LiveIsAttended, AbortReachesAll, SettledIsReleased
<1>11. CASE UNCHANGED vars
  BY <1>11 DEF vars, Cancellation, LiveIsAttended, AbortReachesAll, SettledIsReleased
<1> QED BY <1>1, <1>2, <1>3, <1>4, <1>5, <1>6, <1>7, <1>8, <1>9, <1>10, <1>11 DEF Next

(* Once collect has settled, its deadline is disarmed, the caller's signal  *)
(* is let go of, and every collector still at work was told to stop (the    *)
(* catch and finally of runCollectors).                                     *)
THEOREM SettledHoldsNothingHolds == Spec => []SettledHoldsNothing
<1>1. Init => TypeOK /\ Progress /\ Cancellation
  BY TypeInit, ProgressInit, CancellationInit
<1>2. TypeOK /\ Progress /\ Cancellation /\ [Next]_vars
        => (TypeOK /\ Progress /\ Cancellation)'
  BY TypeStep, ProgressStep, CancellationStep
<1>3. TypeOK /\ Progress /\ Cancellation => SettledHoldsNothing
  <2> SUFFICES ASSUME TypeOK, Progress, Cancellation,
                      phase \in {"resolved", "rejected"}
               PROVE  ~deadline /\ ~listening /\ \A c \in live : own[c] # NONE
    BY DEF SettledHoldsNothing
  <2>1. ~deadline /\ ~listening
    BY DEF Cancellation, SettledIsReleased
  <2>2. ASSUME NEW c \in live, own[c] = NONE PROVE FALSE
    <3>1. PICK l \in Lanes : lane[l] = c
      BY <2>2 DEF Cancellation, LiveIsAttended, TypeOK
    <3>2. c # 0
      BY DEF TypeOK, Collectors
    <3>3. phase # "resolved"
      BY <3>1, <3>2 DEF Progress, ResolvedIsWhole
    <3>4. fanOut # NONE
      BY <3>3 DEF Cancellation, SettledIsReleased
    <3> QED BY <2>2, <3>1, <3>2, <3>4 DEF Cancellation, AbortReachesAll
  <2> QED BY <2>1, <2>2
<1> QED BY <1>1, <1>2, <1>3, PTL DEF Spec
(* No collector is invoked once the fan-out has aborted, and none twice:    *)
(* runOne's refusal, and the one cursor all the lanes share.                *)
THEOREM NoLateInvocationHolds == Spec => NoLateInvocation
<1>1. Init => TypeOK /\ Progress
  BY TypeInit, ProgressInit
<1>2. TypeOK /\ Progress /\ [Next]_vars => (TypeOK /\ Progress)'
  BY TypeStep, ProgressStep
<1>3. TypeOK /\ Progress /\ [Next]_vars =>
        [\A c \in Collectors :
           c \in live' \ live => fanOut = NONE /\ c \notin invoked]_vars
  <2> SUFFICES ASSUME TypeOK, Progress, Next,
                      NEW c \in Collectors, c \in live', c \notin live
               PROVE  fanOut = NONE /\ c \notin invoked
    OBVIOUS
  <2>1. CASE Collect
    BY <2>1 DEF Collect, Progress, IdleIsClean
  <2>2. ASSUME NEW l \in Lanes, LaneAdvances(l)
        PROVE  fanOut = NONE /\ c \notin invoked
    <3>1. ClaimNext(l)
      BY <2>2 DEF LaneAdvances
    <3>2. fanOut = NONE /\ c = next + 1
      BY <3>1, ClaimCases
    <3>3. next \in Nat /\ \A d \in invoked : d <= next
      BY FanOutAssumption DEF TypeOK, Progress, CursorBounds
    <3> QED BY <3>2, <3>3
  <2>3. live' \subseteq live \/ Collect \/ \E l \in Lanes : LaneAdvances(l)
    BY DEF Next, Answers, Rejects, OwnTimeout, DeadlineFires, CallerAborts,
           LaneFails, Reject, Resolve
  <2> QED BY <2>1, <2>2, <2>3
<1> QED BY <1>1, <1>2, <1>3, PTL DEF Spec, NoLateInvocation

-----------------------------------------------------------------------------
(* What a recording does: the value has a source afterwards, the one given  *)
(* if it had none; every other entry stays.                                 *)
LEMMA RecordEffect ==
  ASSUME TypeOK, NEW v \in Reasons, NEW s \in Sources, Record(v, s)
  PROVE  /\ record'[v] = IF record[v] = NONE THEN s ELSE record[v]
         /\ record'[v] # NONE
         /\ \A w \in Reasons : w # v => record'[w] = record[w]
         /\ \A w \in Reasons : record[w] # NONE => record'[w] = record[w]
BY Named DEF TypeOK, Record

(* The named values are distinct.                                           *)
LEMMA ReasonsApart ==
  /\ CallerReason # DeadlineReason
  /\ \A c : TimeoutOf(c) # CallerReason /\ TimeoutOf(c) # DeadlineReason
  /\ \A e : Thrown(e) # CallerReason /\ Thrown(e) # DeadlineReason
BY DEF CallerReason, DeadlineReason, TimeoutOf, Thrown

(* Nothing is recorded and nothing is known yet.                            *)
LEMMA AttributionInit == Init => Attribution
BY Named, RacesApart
   DEF Init, Attribution, ReasonsKnown, RecordIsSound, Known

(* While a collector may still be recorded, a value it rejects with is not  *)
(* the caller's reason: that one reaches every signal as soon as any.       *)
LEMMA RejectionNotCallers ==
  ASSUME TypeOK, Cancellation, Attribution, NEW c \in live, own[c] = NONE,
         NEW v \in Rejections
  PROVE  v # CallerReason
<1>1. PICK l \in Lanes : lane[l] = c
  BY DEF Cancellation, LiveIsAttended, TypeOK
<1>2. c \in Collectors /\ c # 0
  BY DEF TypeOK, Collectors
<1>3. fanOut = NONE
  BY <1>1, <1>2 DEF Cancellation, AbortReachesAll
<1>4. CASE \E e \in Errors : v = Thrown(e)
  BY <1>4, ReasonsApart
<1>5. ASSUME NEW d \in Collectors, v = own[d], v # NONE PROVE v # CallerReason
  BY <1>3, <1>5, ReasonsApart DEF Attribution, ReasonsKnown
<1> QED BY <1>4, <1>5 DEF Rejections

(* Recording keeps what is known known, and the record sound if the new     *)
(* entry is.                                                                *)
LEMMA AttributionAbort ==
  ASSUME TypeOK, Attribution, NEW v \in Reasons, AbortFanOut(v),
         cause' = cause,
         v = CallerReason \/ record'[v] # NONE,
         \A w \in Reasons : record[w] # NONE => record'[w] # NONE,
         \A w \in Reasons : record'[w] # record[w] =>
           w = DeadlineReason /\ record'[w] = DeadlineSource
  PROVE  Attribution'
<1> DEFINE KnownNext(w) == w = CallerReason \/ record'[w] # NONE
<1>0. \A w \in Reasons : Known(w) => KnownNext(w)
  BY DEF Known
<1>1. fanOut' # NONE /\ KnownNext(fanOut')
  <2>1. CASE fanOut = NONE
    BY <2>1, AbortEffect
  <2>2. CASE fanOut # NONE
    BY <1>0, <2>2, AbortEffect DEF TypeOK, Attribution, ReasonsKnown
  <2> QED BY <2>1, <2>2
<1>2. cause # NONE => KnownNext(cause)
  BY <1>0 DEF TypeOK, Attribution, ReasonsKnown
<1>3. ASSUME NEW c \in Collectors, own'[c] # NONE
      PROVE  own'[c] \in {TimeoutOf(c), fanOut'} /\ KnownNext(own'[c])
  <2>1. CASE own'[c] = own[c]
    <3>1. own[c] \in Reasons /\ own[c] \in {TimeoutOf(c), fanOut} /\ Known(own[c])
      BY <1>3, <2>1 DEF TypeOK, Attribution, ReasonsKnown
    <3>2. own[c] = fanOut => fanOut' = fanOut
      BY <1>3, <2>1, AbortEffect
    <3> QED BY <1>0, <2>1, <3>1, <3>2
  <2>2. CASE own'[c] # own[c]
    BY <1>1, <2>2, AbortEffect
  <2> QED BY <2>1, <2>2
<1>4. ASSUME NEW c \in Collectors, race'[c].won \in {"failed", "cancelled"}
      PROVE  KnownNext(race'[c].with)
  <2>1. CASE race'[c] = race[c]
    <3>1. race[c] \in Races /\ race[c].won \in {"failed", "cancelled"}
      BY <1>4, <2>1 DEF TypeOK
    <3>2. race[c].with \in Reasons /\ Known(race[c].with)
      BY <3>1, RacesTyped DEF Attribution, ReasonsKnown
    <3> QED BY <1>0, <2>1, <3>2
  <2>2. CASE race'[c] # race[c]
    BY <1>1, <2>2, AbortEffect, RacesApart
  <2> QED BY <2>1, <2>2
<1>6. ReasonsKnown'
  BY <1>1, <1>2, <1>3, <1>4 DEF ReasonsKnown, Known
<1>5. RecordIsSound'
  <2> SUFFICES ASSUME NEW w \in Reasons, record'[w] # NONE
               PROVE  /\ w # CallerReason
                      /\ \/ w = DeadlineReason /\ record'[w] = DeadlineSource
                         \/ \E c \in Collectors :
                              /\ record'[w] = CollectorSource(c)
                              /\ w = TimeoutOf(c) \/ race'[c] = Failed(w)
    BY DEF RecordIsSound
  <2>1. CASE record'[w] # record[w]
    BY <2>1, ReasonsApart
  <2>2. CASE record'[w] = record[w]
    <3>1. \A c \in Collectors : race[c] = Failed(w) => race'[c] = Failed(w)
      BY AbortEffect, RacesApart
    <3> QED BY <2>2, <3>1 DEF Attribution, RecordIsSound
  <2> QED BY <2>1, <2>2
<1> QED BY <1>5, <1>6 DEF Attribution
(* A collector rejects: what it rejects with was known, or is recorded for  *)
(* it now, its race being lost to that very value.                          *)
LEMMA AttributionRejects ==
  ASSUME TypeOK, Cancellation, Attribution,
         NEW c \in Collectors, NEW v \in Rejections, Rejects(c, v)
  PROVE  Attribution'
<1>1. /\ c \in live /\ v \in Reasons
      /\ UNCHANGED <<own, fanOut, cause>>
  BY RejectionsTyped DEF Rejects
<1>2. \A d \in Collectors : d # c => race'[d] = race[d]
  BY DEF Rejects, TypeOK
<1>3. race'[c] = IF race[c] = Open THEN Failed(v) ELSE race[c]
  BY DEF Rejects, TypeOK
<1>4. CASE own[c] = NONE
  <2>1. v # CallerReason /\ race[c] = Open
    BY <1>1, <1>4, RejectionNotCallers DEF Cancellation, LiveIsAttended
  <2>2. Record(v, CollectorSource(c))
    BY <1>4 DEF Rejects
  <2>3. /\ record'[v] # NONE
        /\ \A w \in Reasons : record[w] # NONE => record'[w] = record[w]
        /\ \A w \in Reasons : w # v => record'[w] = record[w]
        /\ record[v] = NONE => record'[v] = CollectorSource(c)
    BY <1>1, <2>2, RecordEffect, Named
  <2>4. ReasonsKnown'
    <3>1. fanOut # NONE => Known(fanOut)'
      BY <1>1, <2>3 DEF Attribution, ReasonsKnown, Known, TypeOK
    <3>2. cause # NONE => Known(cause)'
      BY <1>1, <2>3 DEF Attribution, ReasonsKnown, Known, TypeOK
    <3>3. ASSUME NEW d \in Collectors, own[d] # NONE
          PROVE  own[d] \in {TimeoutOf(d), fanOut} /\ Known(own[d])'
      BY <1>1, <2>3, <3>3 DEF Attribution, ReasonsKnown, Known, TypeOK
    <3>4. ASSUME NEW d \in Collectors, race'[d].won \in {"failed", "cancelled"}
          PROVE  race'[d].with = CallerReason \/ record'[race'[d].with] # NONE
      <4>1. CASE d = c
        BY <1>3, <2>1, <2>3, <4>1, RacesApart
      <4>2. CASE d # c
        <5>1. race[d] \in Races /\ race[d].won \in {"failed", "cancelled"}
          BY <1>2, <3>4, <4>2 DEF TypeOK
        <5>2. race[d].with \in Reasons /\ Known(race[d].with)
          BY <5>1, RacesTyped DEF Attribution, ReasonsKnown
        <5> QED BY <1>2, <2>3, <4>2, <5>2 DEF Known
      <4> QED BY <4>1, <4>2
    <3> QED BY <1>1, <3>1, <3>2, <3>3, <3>4 DEF ReasonsKnown, Known
  <2>5. RecordIsSound'
    <3> SUFFICES ASSUME NEW w \in Reasons, record'[w] # NONE
                 PROVE  /\ w # CallerReason
                        /\ \/ w = DeadlineReason /\ record'[w] = DeadlineSource
                           \/ \E d \in Collectors :
                                /\ record'[w] = CollectorSource(d)
                                /\ w = TimeoutOf(d) \/ race'[d] = Failed(w)
      BY DEF RecordIsSound
    <3>1. CASE record[w] = NONE
      <4>1. w = v /\ record'[w] = CollectorSource(c)
        BY <2>3, <3>1
      <4> QED BY <1>3, <2>1, <4>1
    <3>2. CASE record[w] # NONE
      <4>1. \A d \in Collectors : race[d] = Failed(w) => race'[d] = Failed(w)
        BY <1>2, <1>3, RacesApart
      <4> QED BY <2>3, <3>2, <4>1 DEF Attribution, RecordIsSound
    <3> QED BY <3>1, <3>2
  <2> QED BY <2>4, <2>5 DEF Attribution
<1>5. CASE own[c] # NONE
  <2>1. race' = race
    <3>1. race[c] # Open
      BY <1>5 DEF Cancellation, LiveIsAttended
    <3> QED BY <3>1 DEF Rejects
  <2>2. record' = record
    BY <1>5 DEF Rejects
  <2> QED BY <1>1, <2>1, <2>2 DEF Attribution, ReasonsKnown, RecordIsSound, Known
<1> QED BY <1>4, <1>5

(* A timeout is recorded for its collector in the step that loses the race. *)
LEMMA AttributionOwnTimeout ==
  ASSUME TypeOK, Attribution, NEW c \in Collectors, OwnTimeout(c)
  PROVE  Attribution'
<1>1. /\ Record(TimeoutOf(c), CollectorSource(c))
      /\ UNCHANGED <<fanOut, cause>>
      /\ own[c] = NONE /\ race[c] = Open
  BY DEF OwnTimeout, Cancellable, Guarded, Quiescent, LaneReady
<1>2. \A d \in Collectors : d # c => race'[d] = race[d] /\ own'[d] = own[d]
  BY DEF OwnTimeout, TypeOK
<1>3. own'[c] = TimeoutOf(c) /\ race'[c] = Cancelled(TimeoutOf(c))
  BY DEF OwnTimeout, TypeOK
<1>4. /\ record'[TimeoutOf(c)] # NONE
      /\ \A w \in Reasons : record[w] # NONE => record'[w] = record[w]
      /\ \A w \in Reasons : w # TimeoutOf(c) => record'[w] = record[w]
      /\ record[TimeoutOf(c)] = NONE => record'[TimeoutOf(c)] = CollectorSource(c)
  BY <1>1, RecordEffect, Named
<1>5. ReasonsKnown'
  <2>1. fanOut # NONE => Known(fanOut)'
    BY <1>1, <1>4 DEF Attribution, ReasonsKnown, Known, TypeOK
  <2>2. cause # NONE => Known(cause)'
    BY <1>1, <1>4 DEF Attribution, ReasonsKnown, Known, TypeOK
  <2>3. ASSUME NEW d \in Collectors, own'[d] # NONE
        PROVE  /\ own'[d] \in {TimeoutOf(d), fanOut}
               /\ own'[d] = CallerReason \/ record'[own'[d]] # NONE
    <3>1. CASE d = c
      BY <1>3, <1>4, <3>1
    <3>2. CASE d # c
      <4>1. own[d] \in Reasons /\ own[d] \in {TimeoutOf(d), fanOut} /\ Known(own[d])
        BY <1>2, <2>3, <3>2 DEF Attribution, ReasonsKnown, TypeOK
      <4> QED BY <1>2, <1>4, <3>2, <4>1 DEF Known
    <3> QED BY <3>1, <3>2
  <2>4. ASSUME NEW d \in Collectors, race'[d].won \in {"failed", "cancelled"}
        PROVE  race'[d].with = CallerReason \/ record'[race'[d].with] # NONE
    <3>1. CASE d = c
      BY <1>3, <1>4, <3>1, RacesApart
    <3>2. CASE d # c
      <4>1. race[d] \in Races /\ race[d].won \in {"failed", "cancelled"}
        BY <1>2, <2>4, <3>2 DEF TypeOK
      <4>2. race[d].with \in Reasons /\ Known(race[d].with)
        BY <4>1, RacesTyped DEF Attribution, ReasonsKnown
      <4> QED BY <1>2, <1>4, <3>2, <4>2 DEF Known
    <3> QED BY <3>1, <3>2
  <2> QED BY <1>1, <2>1, <2>2, <2>3, <2>4 DEF ReasonsKnown, Known
<1>6. RecordIsSound'
  <2> SUFFICES ASSUME NEW w \in Reasons, record'[w] # NONE
               PROVE  /\ w # CallerReason
                      /\ \/ w = DeadlineReason /\ record'[w] = DeadlineSource
                         \/ \E d \in Collectors :
                              /\ record'[w] = CollectorSource(d)
                              /\ w = TimeoutOf(d) \/ race'[d] = Failed(w)
    BY DEF RecordIsSound
  <2>1. CASE record[w] = NONE
    BY <1>4, <2>1, ReasonsApart
  <2>2. CASE record[w] # NONE
    <3>1. \A d \in Collectors : race[d] = Failed(w) => race'[d] = Failed(w)
      BY <1>1, <1>2, RacesApart
    <3> QED BY <1>4, <2>2, <3>1 DEF Attribution, RecordIsSound
  <2> QED BY <2>1, <2>2
<1> QED BY <1>5, <1>6 DEF Attribution

(* Each step keeps the record sound, and whatever may reject known to it.   *)
LEMMA AttributionStep ==
  TypeOK /\ Progress /\ Cancellation /\ Attribution /\ [Next]_vars => Attribution'
<1> SUFFICES ASSUME TypeOK, Progress, Cancellation, Attribution, [Next]_vars
             PROVE  Attribution'
  OBVIOUS
<1> USE DEF Attribution
<1>1. CASE Collect
  <2>1. UNCHANGED <<own, race, record>>
    BY <1>1 DEF Collect
  <2>2. \A c \in Collectors : own[c] = NONE
    BY <1>1, FanOutAssumption
       DEF Collect, Progress, IdleIsClean, CursorBounds, Collectors
  <2>3. fanOut' \in {NONE, CallerReason} /\ cause' \in {NONE, CallerReason}
    BY <1>1 DEF Collect, Progress, IdleIsClean
  <2> QED BY <2>1, <2>2, <2>3 DEF ReasonsKnown, RecordIsSound, Known
<1>2. ASSUME NEW c \in Collectors, Answers(c) PROVE Attribution'
  <2>1. \A d \in Collectors : race'[d] = race[d] \/ (race[d] = Open /\ race'[d] = Answered)
    <3>1. race \in [Collectors -> Races]
      BY DEF TypeOK
    <3>2. race' = IF race[c] = Open THEN [race EXCEPT ![c] = Answered] ELSE race
      BY <1>2 DEF Answers
    <3>3. \A d \in Collectors : d # c => race'[d] = race[d]
      BY <3>1, <3>2
    <3>4. race'[c] = IF race[c] = Open THEN Answered ELSE race[c]
      BY <3>1, <3>2
    <3> QED BY <3>3, <3>4
  <2>2. UNCHANGED <<own, fanOut, cause, record>>
    BY <1>2 DEF Answers
  <2>3. ReasonsKnown'
    BY <2>1, <2>2, RacesApart DEF ReasonsKnown, Known
  <2>4. RecordIsSound'
    BY <2>1, <2>2, RacesApart DEF RecordIsSound
  <2> QED BY <2>3, <2>4
<1>3. ASSUME NEW c \in Collectors, NEW v \in Rejections, Rejects(c, v)
      PROVE  Attribution'
  BY <1>3, AttributionRejects
<1>4. ASSUME NEW c \in Collectors, OwnTimeout(c) PROVE Attribution'
  BY <1>4, AttributionOwnTimeout
<1>5. CASE DeadlineFires
  <2>1. /\ AbortFanOut(DeadlineReason) /\ Record(DeadlineReason, DeadlineSource)
        /\ cause' = cause
    BY <1>5 DEF DeadlineFires
  <2>2. /\ record'[DeadlineReason] # NONE
        /\ \A w \in Reasons : record[w] # NONE => record'[w] # NONE
        /\ \A w \in Reasons : record'[w] # record[w] =>
             w = DeadlineReason /\ record'[w] = DeadlineSource
    BY <2>1, RecordEffect, Named
  <2> QED BY <2>1, <2>2, AttributionAbort, Named
<1>6. CASE CallerAborts
  <2>1. cause' = cause /\ record' = record
    BY <1>6 DEF CallerAborts
  <2>2. CASE AbortFanOut(CallerReason)
    BY <2>1, <2>2, AttributionAbort, Named
  <2>3. CASE UNCHANGED <<fanOut, own, race>>
    BY <2>1, <2>3 DEF ReasonsKnown, RecordIsSound, Known
  <2> QED BY <1>6, <2>2, <2>3 DEF CallerAborts
<1>7. ASSUME NEW l \in Lanes, LaneAdvances(l) PROVE Attribution'
  <2>1. UNCHANGED <<own, race, fanOut, record>> /\ ClaimNext(l)
    BY <1>7 DEF LaneAdvances
  <2>2. cause' = cause \/ (cause' = fanOut /\ fanOut # NONE)
    BY <2>1, ClaimCases
  <2> QED BY <2>1, <2>2 DEF ReasonsKnown, RecordIsSound, Known
<1>8. ASSUME NEW l \in Lanes, LaneFails(l) PROVE Attribution'
  <2>1. /\ lane[l] \in Collectors /\ race[lane[l]].won \in {"failed", "cancelled"}
        /\ cause' = IF cause = NONE THEN race[lane[l]].with ELSE cause
        /\ UNCHANGED <<own, race, fanOut, record>>
    BY <1>8, LaneTyped DEF LaneFails
  <2> QED BY <2>1 DEF ReasonsKnown, RecordIsSound, Known
<1>9. CASE Reject
  <2>1. cause \in Reasons /\ AbortFanOut(cause) /\ cause' = cause /\ record' = record
    BY <1>9 DEF Reject, TypeOK
  <2>2. cause = CallerReason \/ record'[cause] # NONE
    BY <2>1, Named DEF ReasonsKnown, Known
  <2> QED BY <2>1, <2>2, AttributionAbort
<1>10. CASE Resolve
  BY <1>10 DEF Resolve, ReasonsKnown, RecordIsSound, Known
<1>11. CASE UNCHANGED vars
  BY <1>11 DEF vars, ReasonsKnown, RecordIsSound, Known
<1> QED BY <1>1, <1>2, <1>3, <1>4, <1>5, <1>6, <1>7, <1>8, <1>9, <1>10, <1>11 DEF Next

(* The three parts of the invariant hold together of every behaviour.       *)
LEMMA InvHolds == Spec => []Inv
<1>1. Init => Inv
  BY TypeInit, ProgressInit, CancellationInit, AttributionInit DEF Inv
<1>2. Inv /\ [Next]_vars => Inv'
  BY TypeStep, ProgressStep, CancellationStep, AttributionStep DEF Inv
<1> QED BY <1>1, <1>2, PTL DEF Spec

(* Whatever collect rejects with is blamed on the one that caused it, and   *)
(* the caller's leaving on nobody (failureSource.mts, runOne's catch).      *)
THEOREM FailureNamedHolds == Spec => []FailureNamed
<1>1. Inv => FailureNamed
  <2> SUFFICES ASSUME Inv, phase = "rejected" PROVE FailureNamed
    BY DEF FailureNamed
  <2>1. cause \in Reasons /\ Known(cause)
    BY DEF Inv, TypeOK, Cancellation, SettledIsReleased, Attribution, ReasonsKnown
  <2>2. CASE record[cause] = NONE
    BY <2>1, <2>2 DEF Known, FailureNamed
  <2>3. CASE record[cause] # NONE
    BY <2>1, <2>3 DEF Inv, Attribution, RecordIsSound, FailureNamed
  <2> QED BY <2>2, <2>3
<1> QED BY <1>1, InvHolds, PTL
-----------------------------------------------------------------------------
(* A lane for each collector still at work: the lane that invoked it, which *)
(* awaits it or has ended without it.                                       *)
LaneOf ==
  {f \in [live -> Lanes] :
     /\ \A c, d \in live : f[c] = f[d] => c = d
     /\ \A c \in live : lane[f[c]] \in {c, 0}}

LanesApart == LaneOf # {}

(* A lane that claims another collector was left by the one it awaited.     *)
LEMMA ApartAdvances ==
  ASSUME TypeOK, Cancellation, LanesApart, NEW l \in Lanes, LaneAdvances(l)
  PROVE  LanesApart'
<1>1. PICK f \in LaneOf : TRUE
  BY DEF LanesApart
<1>2. /\ f \in [live -> Lanes]
      /\ \A c, d \in live : f[c] = f[d] => c = d
      /\ \A c \in live : lane[f[c]] \in {c, 0}
  BY DEF LaneOf
<1>3. lane[l] \in Collectors /\ lane[l] # 0 /\ lane[l] \notin live /\ ClaimNext(l)
  BY LaneTyped DEF LaneAdvances, Cancellation, LiveIsAttended
<1>4. \A c \in live : f[c] # l
  BY <1>2, <1>3
<1>5. \A k \in Lanes \ {l} : lane'[k] = lane[k]
  BY <1>3, ClaimCases
<1>6. CASE live' = live
  <2>1. f \in LaneOf'
    BY <1>2, <1>4, <1>5, <1>6 DEF LaneOf
  <2> QED BY <2>1 DEF LanesApart
<1>7. CASE lane'[l] = next + 1 /\ live' = live \cup {next + 1}
  <2> DEFINE g == [c \in live' |-> IF c \in live THEN f[c] ELSE l]
  <2>1. g \in [live' -> Lanes]
    BY <1>2
  <2>2. \A c, d \in live' : g[c] = g[d] => c = d
    BY <1>2, <1>4, <1>7
  <2>3. \A c \in live' : lane'[g[c]] \in {c, 0}
    BY <1>2, <1>4, <1>5, <1>7
  <2>4. g \in LaneOf'
    BY <2>1, <2>2, <2>3 DEF LaneOf
  <2> QED BY <2>4 DEF LanesApart
<1> QED BY <1>3, <1>6, <1>7, ClaimCases

(* A collector that settles leaves its lane to nobody; a lane that ends     *)
(* stays the one that invoked its collector.                                *)
LEMMA ApartSettles ==
  ASSUME LanesApart, TypeOK, live' \subseteq live,
         \A l \in Lanes : lane'[l] \in {lane[l], 0}
  PROVE  LanesApart'
<1>1. PICK f \in LaneOf : TRUE
  BY DEF LanesApart
<1> DEFINE g == [c \in live' |-> f[c]]
<1>2. /\ f \in [live -> Lanes]
      /\ \A c, d \in live : f[c] = f[d] => c = d
      /\ \A c \in live : lane[f[c]] \in {c, 0}
  BY DEF LaneOf
<1>3. g \in [live' -> Lanes] /\ \A c, d \in live' : g[c] = g[d] => c = d
  BY <1>2
<1>4. \A c \in live' : lane'[g[c]] \in {c, 0}
  BY <1>2
<1>5. g \in LaneOf'
  BY <1>3, <1>4 DEF LaneOf
<1> QED BY <1>5 DEF LanesApart

(* At the start every lane invokes the collector of its own number, or none *)
(* does when the caller has already left.                                   *)
LEMMA ApartCollect ==
  ASSUME TypeOK, Progress, Collect
  PROVE  LanesApart'
<1>1. CASE live' = {}
  <2>1. [c \in {} |-> 1] \in LaneOf'
    BY <1>1 DEF LaneOf
  <2> QED BY <2>1 DEF LanesApart
<1>2. CASE lane' = [l \in Lanes |-> l] /\ live' = Lanes
  <2> DEFINE g == [c \in Lanes |-> c]
  <2>1. g \in [live' -> Lanes]
    BY <1>2
  <2>2. \A c \in live' : g[c] = c /\ lane'[g[c]] = c
    BY <1>2
  <2>3. g \in LaneOf'
    BY <2>1, <2>2 DEF LaneOf
  <2> QED BY <2>3 DEF LanesApart
<1>3. live = {}
  BY DEF Collect, Progress, IdleIsClean
<1> QED BY <1>1, <1>2, <1>3 DEF Collect

(* Each step keeps a lane for every collector at work.                      *)
LEMMA ApartStep == Inv /\ LanesApart /\ [Next]_vars => LanesApart'
<1> SUFFICES ASSUME Inv, LanesApart, [Next]_vars PROVE LanesApart'
  OBVIOUS
<1>t. TypeOK /\ Progress /\ Cancellation
  BY DEF Inv
<1>1. CASE Collect
  BY <1>1, <1>t, ApartCollect
<1>2. CASE \E l \in Lanes : LaneAdvances(l)
  BY <1>2, <1>t, ApartAdvances
<1>3. ASSUME NEW l \in Lanes, LaneFails(l) PROVE LanesApart'
  <2>1. live' = live /\ \A k \in Lanes : lane'[k] \in {lane[k], 0}
    BY <1>3, <1>t DEF LaneFails, TypeOK
  <2> QED BY <1>t, <2>1, ApartSettles
<1>4. CASE UNCHANGED lane /\ live' \subseteq live
  BY <1>4, <1>t, ApartSettles
<1>5. \/ Collect \/ (\E l \in Lanes : LaneAdvances(l))
      \/ (\E l \in Lanes : LaneFails(l))
      \/ (UNCHANGED lane /\ live' \subseteq live)
  BY DEF Next, Answers, Rejects, OwnTimeout, DeadlineFires, CallerAborts,
         Reject, Resolve, vars
<1> QED BY <1>1, <1>2, <1>3, <1>4, <1>5

(* No more collector calls are outstanding than permits, abandoned calls    *)
(* that ignore their signal included: each outlives a lane of its own.      *)
THEOREM BoundedCallsHolds == Spec => []BoundedCalls
<1>1. Init => LanesApart
  <2> SUFFICES ASSUME Init PROVE LanesApart
    OBVIOUS
  <2>1. [c \in {} |-> 1] \in LaneOf
    BY DEF Init, LaneOf
  <2> QED BY <2>1 DEF LanesApart
<1>2. Inv /\ LanesApart => BoundedCalls
  <2> SUFFICES ASSUME LanesApart PROVE BoundedCalls
    OBVIOUS
  <2>1. PICK f \in LaneOf : TRUE
    BY DEF LanesApart
  <2>2. f \in Injection(live, Lanes)
    BY DEF LaneOf, Injection, IsInjective
  <2>3. IsFiniteSet(Lanes) /\ Cardinality(Lanes) = LaneCount
    BY LaneCountBounds, FS_Interval DEF Lanes
  <2>4. Cardinality(live) <= Cardinality(Lanes)
    BY <2>2, <2>3, FS_Injection
  <2>5. Cardinality(live) \in Nat
    BY <2>2, <2>3, FS_Injection, FS_CardinalityType
  <2> QED BY <2>3, <2>4, <2>5, LaneCountBounds, FanOutAssumption DEF BoundedCalls
<1> QED BY <1>1, <1>2, ApartStep, InvHolds, PTL DEF Spec
-----------------------------------------------------------------------------
(* The pipeline's view of a fan-out that has not settled, and of one that   *)
(* has.                                                                     *)
LEMMA OutcomeCases ==
  /\ phase \in {"idle", "collecting"} => OutcomeSeen = Promised!Pending
  /\ phase = "resolved" => OutcomeSeen = Promised!Fulfilled
  /\ phase = "rejected" => OutcomeSeen = Promised!Rejected(cause)
BY DEF OutcomeSeen, Promised!Pending, Promised!Fulfilled, Promised!Rejected

(* The pipeline's view stands still while the fan-out does not settle, and  *)
(* once it has: a rejection's cause is kept.                                *)
LEMMA OutcomeStays ==
  ASSUME \/ UNCHANGED phase /\ (phase = "rejected" => UNCHANGED cause)
         \/ phase = "idle" /\ phase' = "collecting"
  PROVE  UNCHANGED OutcomeSeen
BY DEF OutcomeSeen

(* Recording a failure is a Blame of the promise, or no step at all.        *)
LEMMA BlameStep ==
  ASSUME TypeOK, NEW v \in Reasons, NEW s \in Sources, Record(v, s),
         v # CallerReason, UNCHANGED <<OutcomeSeen, results>>
  PROVE  [Promised!PNext]_(Promised!pvars)
<1>1. CASE record[v] = NONE
  <2>1. Promised!Blame(v, s)
    BY <1>1 DEF Record, Promised!Blame
  <2> QED BY <2>1 DEF Promised!PNext
<1>2. CASE record[v] # NONE
  BY <1>2 DEF Record, Promised!pvars
<1> QED BY <1>1, <1>2

(* Every step of the fan-out is a step of the promise or leaves what the    *)
(* pipeline sees alone.                                                     *)
LEMMA PromiseStep == Inv /\ [Next]_vars => [Promised!PNext]_(Promised!pvars)
<1> SUFFICES ASSUME Inv, [Next]_vars PROVE [Promised!PNext]_(Promised!pvars)
  OBVIOUS
<1>0. phase = "rejected" => cause # NONE
  BY DEF Inv, Cancellation, SettledIsReleased
<1>t. TypeOK /\ Cancellation /\ Attribution
  BY DEF Inv
<1>1. CASE Collect
  <2>1. UNCHANGED <<results, record>>
    BY <1>1 DEF Collect
  <2>2. CASE N = 0
    <3>1. phase = "idle" /\ phase' = "resolved"
      BY <1>1, <2>2 DEF Collect
    <3>2. results = Collectors
      BY <2>2, <1>t DEF TypeOK, Collectors
    <3>3. Promised!Fulfil
      BY <2>1, <3>1, <3>2, OutcomeCases DEF Promised!Fulfil, OutcomeSeen,
         Promised!Pending, Promised!Fulfilled
    <3> QED BY <3>3 DEF Promised!PNext
  <2>3. CASE N # 0
    <3>1. UNCHANGED OutcomeSeen
      BY <1>1, <2>3, OutcomeStays DEF Collect
    <3> QED BY <2>1, <3>1 DEF Promised!pvars
  <2> QED BY <2>2, <2>3
<1>2. ASSUME NEW c \in Collectors, Answers(c)
      PROVE  [Promised!PNext]_(Promised!pvars)
  BY <1>2, OutcomeStays DEF Answers, Promised!pvars
<1>3. ASSUME NEW c \in Collectors, NEW v \in Rejections, Rejects(c, v)
      PROVE  [Promised!PNext]_(Promised!pvars)
  <2>1. UNCHANGED <<OutcomeSeen, results>>
    BY <1>3, OutcomeStays DEF Rejects
  <2>2. CASE own[c] = NONE
    <3>1. c \in live /\ Record(v, CollectorSource(c))
      BY <1>3, <2>2 DEF Rejects
    <3>2. v # CallerReason
      BY <1>t, <2>2, <3>1, RejectionNotCallers
    <3>3. v \in Reasons /\ CollectorSource(c) \in Sources
      BY <1>t, RejectionsTyped, Named
    <3> QED BY <1>t, <2>1, <3>1, <3>2, <3>3, BlameStep
  <2>3. CASE own[c] # NONE
    BY <1>3, <2>1, <2>3 DEF Rejects, Promised!pvars
  <2> QED BY <2>2, <2>3
<1>4. ASSUME NEW c \in Collectors, OwnTimeout(c)
      PROVE  [Promised!PNext]_(Promised!pvars)
  <2>1. UNCHANGED <<OutcomeSeen, results>>
    BY <1>4, OutcomeStays DEF OwnTimeout
  <2>2. Record(TimeoutOf(c), CollectorSource(c))
    BY <1>4 DEF OwnTimeout
  <2>3. TimeoutOf(c) # CallerReason
    BY ReasonsApart
  <2> QED BY <1>t, <2>1, <2>2, <2>3, Named, BlameStep
<1>5. CASE DeadlineFires
  <2>1. UNCHANGED <<OutcomeSeen, results>>
    BY <1>5, OutcomeStays DEF DeadlineFires
  <2>2. Record(DeadlineReason, DeadlineSource)
    BY <1>5 DEF DeadlineFires
  <2> QED BY <1>t, <2>1, <2>2, Named, ReasonsApart, BlameStep
<1>6. CASE CallerAborts
  BY <1>6, OutcomeStays DEF CallerAborts, Promised!pvars
<1>7. ASSUME NEW l \in Lanes, LaneAdvances(l)
      PROVE  [Promised!PNext]_(Promised!pvars)
  <2>1. lane[l] \in Collectors
    BY <1>7, <1>t, LaneTyped DEF LaneAdvances
  <2>2. UNCHANGED <<phase, record>> /\ results' = results \cup {lane[l]}
    BY <1>7 DEF LaneAdvances
  <2>3. cause # NONE => cause' = cause
    BY <1>7 DEF LaneAdvances, ClaimNext, EndLane, InvokeNext
  <2>4. UNCHANGED OutcomeSeen
    BY <1>0, <2>2, <2>3, OutcomeStays
  <2>5. Promised!Answer(lane[l])
    BY <2>2, <2>4 DEF Promised!Answer
  <2> QED BY <2>1, <2>5 DEF Promised!PNext
<1>8. ASSUME NEW l \in Lanes, LaneFails(l)
      PROVE  [Promised!PNext]_(Promised!pvars)
  <2>1. UNCHANGED <<phase, record, results>> /\ (cause # NONE => cause' = cause)
    BY <1>8 DEF LaneFails
  <2> QED BY <1>0, <2>1, OutcomeStays DEF Promised!pvars
<1>9. CASE Reject
  <2>1. /\ phase = "collecting" /\ phase' = "rejected" /\ cause # NONE
        /\ UNCHANGED <<cause, results, record>>
    BY <1>9 DEF Reject
  <2>2. cause \in Reasons /\ (cause = CallerReason \/ record[cause] # NONE)
    BY <1>t, <2>1 DEF TypeOK, Attribution, ReasonsKnown, Known
  <2>3. OutcomeSeen = Promised!Pending
    BY <2>1, OutcomeCases
  <2>4. OutcomeSeen' = Promised!Rejected(cause)
    BY <2>1 DEF OutcomeSeen, Promised!Rejected
  <2>5. Promised!Fail(cause)
    BY <2>1, <2>2, <2>3, <2>4 DEF Promised!Fail
  <2> QED BY <2>2, <2>5 DEF Promised!PNext
<1>10. CASE Resolve
  <2>1. /\ phase = "collecting" /\ phase' = "resolved"
        /\ UNCHANGED <<results, record>>
    BY <1>10 DEF Resolve
  <2>2. results = Collectors
    <3>1. ResolvedIsWhole'
      BY <1>10, ProgressStep DEF Inv, Next, Progress
    <3> QED BY <2>1, <3>1 DEF ResolvedIsWhole, Collectors
  <2>3. OutcomeSeen = Promised!Pending
    BY <2>1, OutcomeCases
  <2>4. OutcomeSeen' = Promised!Fulfilled
    BY <2>1 DEF OutcomeSeen, Promised!Fulfilled
  <2>5. Promised!Fulfil
    BY <2>1, <2>2, <2>3, <2>4 DEF Promised!Fulfil
  <2> QED BY <2>5 DEF Promised!PNext
<1>11. CASE UNCHANGED vars
  BY <1>11 DEF vars, OutcomeSeen, Promised!pvars
<1> QED BY <1>1, <1>2, <1>3, <1>4, <1>5, <1>6, <1>7, <1>8, <1>9, <1>10, <1>11 DEF Next

(* runCollectors keeps the all-or-nothing promise for any list, cap, order  *)
(* of settlements and moment of timeouts and aborts: every behaviour of the *)
(* lanes is one of CollectPromise.                                          *)
THEOREM Refines == Spec => KeepsPromise
<1>1. Init => Promised!PInit
  <2> SUFFICES ASSUME Init PROVE Promised!PInit
    OBVIOUS
  <2>1. results = {} /\ record = [v \in Reasons |-> NONE] /\ phase = "idle"
    BY DEF Init
  <2> QED BY <2>1, OutcomeCases DEF Promised!PInit
<1> QED BY <1>1, PromiseStep, InvHolds, PTL DEF Spec, KeepsPromise, Promised!PSpec
=============================================================================
