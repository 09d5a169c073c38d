----------------------------- MODULE CedarLoad -----------------------------
(***************************************************************************)
(* Loading policy sets into cedar-agents (packages/cedar/src/              *)
(* httpEngine.mts, load): the reservation of the endpoint, the push with   *)
(* its retries up to the load's deadline, the first reading of the set and *)
(* the release of the endpoint when any of it fails.                       *)
(*                                                                         *)
(* Loads run concurrently in one process and share the map of endpoints.   *)
(* A PUT is sent, taken by the agent and answered in three steps, and one  *)
(* whose attempt was given up may still be taken later.                    *)
(***************************************************************************)
EXTENDS Integers, FiniteSets

CONSTANTS
  Loads,     \* calls of load(), each with a policy set of its own
  Keys,      \* what agentKey makes of the endpoints
  Agents,
  KeyOf,     \* load -> the key of its endpoint
  AgentOf,   \* key -> the agent that answers there
  Timeout,   \* loadTimeoutMs, in units of Tick
  Retry,     \* retryMs, likewise
  MaxFaults, \* bound on what the agents and the network do unasked
  NONE

Empty == "empty set"
Other == "another's set"

ASSUME LoadAssumption ==
  /\ KeyOf \in [Loads -> Keys]
  /\ AgentOf \in [Keys -> Agents]
  /\ Timeout \in Nat \ {0} /\ Retry \in Nat \ {0}
  /\ MaxFaults \in Nat
  /\ NONE \notin Loads
  /\ Empty \notin Loads /\ Other \notin Loads /\ Empty # NONE /\ Other # NONE

Agent(l) == AgentOf[KeyOf[l]]
Sets == Loads \cup {Empty, Other}

VARIABLES
  loaded,  \* key -> the load it is reserved for, or NONE
  at,      \* load -> where it is
  put,     \* load -> the PUT of its running attempt
  late,    \* load -> the agent may still take a PUT it has given up
  clock,   \* load -> time since its push, or its read, began
  resume,  \* load -> when its pause between attempts ends
  got,     \* load -> the set it was shown, or NONE
  holds,   \* agent -> the set it holds
  up,      \* agent -> it can be connected to
  faults,
  changed  \* history: load -> its agent's set changed since it was shown

attempt == <<put, late, clock, resume, got>>
world == <<holds, up, faults, changed>>
vars == <<loaded, at, attempt, world>>

Pushing == {"push", "pause"}
Reading == {"read", "reread", "shown"}
Holding == Pushing \cup Reading \cup {"serving"}

TypeOK ==
  /\ loaded \in [Keys -> Loads \cup {NONE}]
  /\ at \in [Loads -> Holding \cup {"idle", "refused", "failed"}]
  /\ put \in [Loads -> {"none", "wire", "taken", "rejected"}]
  /\ late \in [Loads -> BOOLEAN]
  /\ clock \in [Loads -> 0..Timeout] /\ resume \in [Loads -> 0..Timeout]
  /\ got \in [Loads -> Sets \cup {NONE}]
  /\ holds \in [Agents -> Sets]
  /\ up \in [Agents -> BOOLEAN]
  /\ faults \in 0..MaxFaults
  /\ changed \in [Loads -> BOOLEAN]

(* The process has loaded nothing; the agents may still hold another set.   *)
Init ==
  /\ loaded = [k \in Keys |-> NONE]
  /\ at = [l \in Loads |-> "idle"]
  /\ put = [l \in Loads |-> "none"] /\ late = [l \in Loads |-> FALSE]
  /\ clock = [l \in Loads |-> 0] /\ resume = [l \in Loads |-> 0]
  /\ got = [l \in Loads |-> NONE]
  /\ holds \in [Agents -> {Empty, Other}] /\ up \in [Agents -> BOOLEAN]
  /\ faults = 0
  /\ changed = [l \in Loads |-> FALSE]

Fault == faults < MaxFaults /\ faults' = faults + 1

-----------------------------------------------------------------------------
(* load: the reservation.                                                   *)

(* Mutant of Load: reserved only once the set is pushed and read.           *)
LoadUnreserved(l) ==
  /\ at[l] = "idle"
  /\ IF loaded[KeyOf[l]] # NONE
     THEN at' = [at EXCEPT ![l] = "refused"] /\ UNCHANGED <<loaded, put>>
     ELSE /\ at' = [at EXCEPT ![l] = "push"]
          /\ put' = [put EXCEPT ![l] = "wire"]
          /\ UNCHANGED loaded
  /\ UNCHANGED <<late, clock, resume, got, world>>

(* A held endpoint refuses the load; otherwise it is reserved and the first *)
(* PUT sent without an await in between.                                    *)
Load(l) ==
  /\ at[l] = "idle"
  /\ IF loaded[KeyOf[l]] # NONE
     THEN at' = [at EXCEPT ![l] = "refused"] /\ UNCHANGED <<loaded, put>>
     ELSE /\ loaded' = [loaded EXCEPT ![KeyOf[l]] = l]
          /\ at' = [at EXCEPT ![l] = "push"]
          /\ put' = [put EXCEPT ![l] = "wire"]
  /\ UNCHANGED <<late, clock, resume, got, world>>

(* The load returns or throws, and its locals are gone.                     *)
Ends(l, how) ==
  /\ at' = [at EXCEPT ![l] = how]
  /\ put' = [put EXCEPT ![l] = "none"]
  /\ clock' = [clock EXCEPT ![l] = 0]
  /\ resume' = [resume EXCEPT ![l] = 0]
  /\ got' = [got EXCEPT ![l] = NONE]

(* Mutant of Fails: the endpoint of a failed load stays reserved.           *)
FailsHolding(l) == Ends(l, "failed") /\ UNCHANGED loaded

(* load's catch: the endpoint is free again.                                *)
Fails(l) ==
  /\ loaded' = [loaded EXCEPT ![KeyOf[l]] = NONE]
  /\ Ends(l, "failed")

(* An attempt is given up: the agent takes its PUT never, or late.          *)
GivesUp(l) ==
  \E d \in BOOLEAN :
    late' = [late EXCEPT ![l] = late[l] \/ (d /\ put[l] = "wire")]

-----------------------------------------------------------------------------
(* pushPolicies: attempts, pauses and the deadline.                         *)

(* A pause would end at or past the deadline.                               *)
OutOfTime(l) == clock[l] + Retry >= Timeout

(* The connection is refused, or breaks before the answer has begun: once   *)
(* more after a pause, or fail when that would be past the deadline.        *)
AttemptFails(l) ==
  /\ at[l] = "push"
  /\ \/ put[l] = "wire" /\ ~up[Agent(l)] /\ UNCHANGED <<late, faults>>
     \/ Fault /\ GivesUp(l)
  /\ IF OutOfTime(l)
     THEN Fails(l)
     ELSE /\ at' = [at EXCEPT ![l] = "pause"]
          /\ put' = [put EXCEPT ![l] = "none"]
          /\ resume' = [resume EXCEPT ![l] = clock[l] + Retry]
          /\ UNCHANGED <<loaded, clock, got>>
  /\ UNCHANGED <<holds, up, changed>>

PauseEnds(l) ==
  /\ at[l] = "pause"
  /\ clock[l] >= resume[l]
  /\ at' = [at EXCEPT ![l] = "push"]
  /\ put' = [put EXCEPT ![l] = "wire"]
  /\ resume' = [resume EXCEPT ![l] = 0]
  /\ UNCHANGED <<loaded, late, clock, got, world>>

(* Mutant of PushTimesOut: no deadline once the agent took the PUT.         *)
PushTimesOutUntaken(l) ==
  /\ at[l] = "push" /\ put[l] = "wire"
  /\ clock[l] = Timeout
  /\ GivesUp(l)
  /\ Fails(l)
  /\ UNCHANGED world

(* The attempt's signal, which is the load's deadline: no answer, or not    *)
(* the whole of it.                                                         *)
PushTimesOut(l) ==
  /\ at[l] = "push"
  /\ clock[l] = Timeout
  /\ GivesUp(l)
  /\ Fails(l)
  /\ UNCHANGED world

(* A 2xx with a whole copy of the set sent: the set is read.                *)
PushAccepted(l) ==
  /\ at[l] = "push"
  /\ put[l] = "taken"
  /\ at' = [at EXCEPT ![l] = "read"]
  /\ put' = [put EXCEPT ![l] = "none"]
  /\ clock' = [clock EXCEPT ![l] = 0]
  /\ UNCHANGED <<loaded, late, resume, got, world>>

(* Any other status, a redirect included, or an answer that is not the      *)
(* copy: not retried.                                                       *)
PushRefused(l) ==
  /\ at[l] = "push"
  /\ \/ put[l] = "rejected" /\ UNCHANGED faults
     \/ put[l] = "taken" /\ Fault
  /\ Fails(l)
  /\ UNCHANGED <<late, holds, up, changed>>

-----------------------------------------------------------------------------
(* The first read (readAgentSet), on a deadline of its own.                 *)

ReadRetried(l) ==
  /\ at[l] = "read"
  /\ ~up[Agent(l)]
  /\ at' = [at EXCEPT ![l] = "reread"]
  /\ UNCHANGED <<loaded, attempt, world>>

(* No answer in time, or not the whole of it: either way unverifiable.      *)
ReadTimesOut(l) ==
  /\ at[l] \in Reading
  /\ clock[l] = Timeout
  /\ Fails(l)
  /\ UNCHANGED <<late, world>>

(* Unreachable twice, or broken off, an error status, past the bound, not a *)
(* set.                                                                     *)
ReadFails(l) ==
  /\ \/ at[l] = "reread" /\ ~up[Agent(l)] /\ UNCHANGED faults
     \/ at[l] \in Reading /\ Fault
  /\ Fails(l)
  /\ UNCHANGED <<late, holds, up, changed>>

(* Mutant of Unlike: any set that can be read will do.                      *)
UnlikeNever(l) == FALSE

(* The set shown is not the one pushed.                                     *)
Unlike(l) == got[l] # l

ReadUnlike(l) ==
  /\ at[l] = "shown"
  /\ Unlike(l)
  /\ Fails(l)
  /\ UNCHANGED <<late, world>>

Serves(l) ==
  /\ at[l] = "shown"
  /\ ~Unlike(l)
  /\ Ends(l, "serving")
  /\ UNCHANGED <<loaded, late, world>>

-----------------------------------------------------------------------------
(* The agents, which answer whom they like, and time.                       *)

HoldsAfterwards(a, s) ==
  /\ holds' = [holds EXCEPT ![a] = s]
  /\ changed' = [l \in Loads |-> changed[l] \/ (Agent(l) = a /\ holds[a] # s)]

(* The agent takes the PUT, which replaces its whole set ...                *)
AgentTakes(l) ==
  /\ up[Agent(l)]
  /\ \/ put[l] = "wire" /\ put' = [put EXCEPT ![l] = "taken"] /\ UNCHANGED late
     \/ late[l] /\ late' = [late EXCEPT ![l] = FALSE] /\ UNCHANGED put
  /\ HoldsAfterwards(Agent(l), l)
  /\ UNCHANGED <<loaded, at, clock, resume, got, up, faults>>

(* ... or cannot parse it, does not accept the token, or redirects.         *)
AgentRejects(l) ==
  /\ up[Agent(l)]
  /\ put[l] = "wire"
  /\ put' = [put EXCEPT ![l] = "rejected"]
  /\ UNCHANGED <<loaded, at, late, clock, resume, got, world>>

AgentShows(l) ==
  /\ at[l] \in {"read", "reread"}
  /\ up[Agent(l)]
  /\ at' = [at EXCEPT ![l] = "shown"]
  /\ got' = [got EXCEPT ![l] = holds[Agent(l)]]
  /\ changed' = [changed EXCEPT ![l] = FALSE]
  /\ UNCHANGED <<loaded, put, late, clock, resume, holds, up, faults>>

(* A restart empties the agent; another process pushes to it.               *)
SetReplaced(a) ==
  /\ Fault
  /\ \E s \in {Empty, Other} \ {holds[a]} : HoldsAfterwards(a, s)
  /\ UNCHANGED <<loaded, at, attempt, up>>

ConnectivityChanges(a) ==
  /\ IF up[a] THEN Fault ELSE UNCHANGED faults
  /\ up' = [up EXCEPT ![a] = ~up[a]]
  /\ UNCHANGED <<loaded, at, attempt, holds, changed>>

Timed(l) == at[l] \in Pushing \cup Reading

Tick ==
  /\ \E l \in Loads : Timed(l) /\ clock[l] < Timeout
  /\ clock' = [l \in Loads |-> IF Timed(l) /\ clock[l] < Timeout
                               THEN clock[l] + 1 ELSE clock[l]]
  /\ UNCHANGED <<loaded, at, put, late, resume, got, world>>

-----------------------------------------------------------------------------
LoadStep(l) ==
  \/ AttemptFails(l) \/ PushAccepted(l) \/ PushRefused(l)
  \/ ReadRetried(l) \/ ReadFails(l) \/ ReadUnlike(l) \/ Serves(l)

TimerStep(l) == PauseEnds(l) \/ PushTimesOut(l) \/ ReadTimesOut(l)

AgentStep(l) == AgentTakes(l) \/ AgentRejects(l) \/ AgentShows(l)

Next ==
  \/ \E l \in Loads : Load(l) \/ LoadStep(l) \/ TimerStep(l) \/ AgentStep(l)
  \/ \E a \in Agents : SetReplaced(a) \/ ConnectivityChanges(a)
  \/ Tick

Spec == Init /\ [][Next]_vars

(* Time passes and timers fire; an agent need never answer, nor an answer   *)
(* arrive.                                                                  *)
Fairness == WF_vars(Tick) /\ \A l \in Loads : WF_vars(TimerStep(l))

FairSpec == Spec /\ Fairness

-----------------------------------------------------------------------------
(* An endpoint is reserved exactly while one load pushes to it, reads it or *)
(* serves from it: two loads never share one, and no failure leaves it      *)
(* reserved or frees another's (httpEngine.mts:198-207, 255, 275).          *)
OneHolder ==
  \A l \in Loads : at[l] \in Holding <=> loaded[KeyOf[l]] = l

(* A load that serves was shown its own set: unless that has changed since, *)
(* the agent holds it, two endpoints of one agent or not                    *)
(* (httpEngine.mts:238-253).                                                *)
ServesItsSet ==
  \A l \in Loads :
    at[l] = "serving" /\ ~changed[l] => holds[Agent(l)] = l

(* The set of a load that is in service is replaced by another load of the  *)
(* same endpoint only when the agent takes, late, a PUT which that load has *)
(* already given up (httpEngine.mts:206: two collectors loading             *)
(* concurrently must not both pass).                                        *)
OnlyLateOverwrites ==
  [][\A l, m \in Loads :
       l # m /\ KeyOf[l] = KeyOf[m] /\ at[l] \in Holding
         /\ holds'[Agent(l)] = m /\ holds[Agent(l)] # m
       => at[m] = "failed" /\ late[m]]_vars

(* Every load ends, whatever the agent does: boot is refused within the     *)
(* deadlines of the push and the read, it never hangs (httpEngine.mts:151). *)
LoadEnds ==
  \A l \in Loads : at[l] \in Pushing \cup Reading
                     ~> at[l] \in {"serving", "failed"}
=============================================================================
