--------------------------- MODULE AgentReadBack ---------------------------
(***************************************************************************)
(* The http Cedar engine in service (packages/cedar/src): authorization    *)
(* calls answered by a cedar-agent whose policy set anyone holding its     *)
(* token may change, and the read-back that compares the agent's set with  *)
(* the copy it answered the push with (agentReadBack.mts), refusing every  *)
(* answer while the two differ or cannot be compared.                      *)
(*                                                                         *)
(* A step of the verifier is one uninterrupted run of its event loop; the  *)
(* agent reads, serves and is written to in steps of its own, so a request *)
(* is sent, taken by the agent and answered in three steps.  Time is       *)
(* counted in units of the first recheck delay.                            *)
(***************************************************************************)
EXTENDS Integers, FiniteSets

CONSTANTS
  Calls,      \* slots for authorization calls in flight together
  Prints,     \* how a Cedar version re-prints this load's policies
  Interval,   \* readBackIntervalMs, in units of RECHECK_WHILE_REFUSING_MS
  MaxFaults,  \* bound on what the agent and the network do unasked
  NONE

\* The agent's set: this load's as some Cedar printed it, nothing, or another.
Load(p) == [set |-> "load", print |-> p]
Empty == [set |-> "empty", print |-> NONE]
Other == [set |-> "other", print |-> NONE]
AgentSets == {Load(p) : p \in Prints} \cup {Empty, Other}

Altered == "altered policy set"
Unverifiable == "unverifiable policy set"
Refusals == {Altered, Unverifiable}

ASSUME ReadBackAssumption ==
  /\ Prints # {}
  /\ Interval \in Nat \ {0}
  /\ MaxFaults \in Nat
  /\ NONE \notin Refusals /\ NONE \notin AgentSets

\* drawWait: from half the interval to all of it.
Waits == {w \in 1..Interval : Interval <= 2 * w}

VARIABLES
  agent,       \* the set the agent holds
  cedar,       \* how the agent's Cedar prints this load's policies
  up,          \* the agent can be connected to
  faults,      \* faults so far
  late,        \* PUTs the verifier has given up and the agent may still take
  baseline,    \* the copy the agent answered the last push with
  refusal,     \* why every answer is refused, or NONE
  begun,       \* the refusal the last generation began with
  generation,  \* refusals begun
  heard,       \* answeredCalls > countedCalls
  heardInRead, \* answeredCalls > answeredBefore of the running check
  check,       \* the running check, [at |-> "none"] when there is none
  elapsed,     \* now() - lastCheck, saturating at Interval
  wait,        \* the drawn wait
  recheck,     \* recheckMs
  call,        \* slot -> the authorization call in it
  alteredFor,  \* history: how long the agent has not held this load's set
  blind,       \* history: the last check to end learnt nothing
  found,       \* history: a check found the set the agent holds changed
  accepted     \* history: which accepted answers no read has accounted for

agentVars == <<agent, cedar, up, faults, late>>
refusalVars == <<refusal, begun, generation>>
timing == <<elapsed, wait, recheck>>
history == <<alteredFor, blind, found, accepted>>
vars == <<agentVars, baseline, refusalVars, heard, heardInRead, check, timing,
          call, history>>

NoCheck == [at |-> "none", refusing |-> FALSE, got |-> NONE]
Checks ==
  [at : {"none", "read", "retry", "answered", "push", "pushed"},
   refusing : BOOLEAN, got : AgentSets \cup {NONE}]

(* made: the generation taken before the call; crossed: history, whether    *)
(* answers were refused at any moment the call was out.                     *)
Idle == [at |-> "idle", made |-> 0, crossed |-> FALSE]
CallStates ==
  [at : {"idle", "out", "served", "accepted", "refused"},
   made : Nat, crossed : BOOLEAN]
Out(k) == call[k].at \in {"out", "served"}

TypeOK ==
  /\ agent \in AgentSets /\ cedar \in Prints /\ up \in BOOLEAN
  /\ faults \in 0..MaxFaults /\ late \in 0..faults
  /\ baseline \in AgentSets
  /\ refusal \in Refusals \cup {NONE} /\ begun \in Refusals \cup {NONE}
  /\ generation \in Nat
  /\ heard \in BOOLEAN /\ heardInRead \in BOOLEAN
  /\ check \in Checks
  /\ elapsed \in 0..Interval /\ wait \in Waits /\ recheck \in 1..Interval
  /\ call \in [Calls -> CallStates]
  /\ alteredFor \in 0..Interval /\ blind \in BOOLEAN /\ found \in BOOLEAN
  /\ accepted \in SUBSET {"before", "during"}

(* As load() leaves it: the set pushed, and its first reading equal to it.  *)
Init ==
  /\ cedar \in Prints /\ agent = Load(cedar) /\ up = TRUE
  /\ faults = 0 /\ late = 0
  /\ baseline = agent
  /\ refusal = NONE /\ begun = NONE /\ generation = 0
  /\ heard = FALSE /\ heardInRead = FALSE
  /\ check = NoCheck
  /\ elapsed = 0 /\ wait \in Waits /\ recheck = 1
  /\ call = [k \in Calls |-> Idle]
  /\ alteredFor = 0 /\ blind = FALSE /\ found = FALSE /\ accepted = {}

-----------------------------------------------------------------------------
(* What the agent and the network do of their own accord.                   *)

Fault == faults < MaxFaults /\ faults' = faults + 1

HoldsAfterwards(s) ==
  /\ agent' = s
  /\ alteredFor' = IF s.set = "load" THEN 0 ELSE alteredFor
  /\ found' = (found /\ s = agent)

(* A token holder rewrites, deletes or adds a policy, or puts the set back. *)
SetReplaced ==
  /\ Fault
  /\ \E s \in {Other, Load(cedar)} \ {agent} : HoldsAfterwards(s)
  /\ UNCHANGED <<cedar, up, late, baseline, refusalVars, heard, heardInRead,
                 check, timing, call, blind, accepted>>

(* The agent restarts or is recreated, perhaps with another Cedar, and      *)
(* holds nothing.                                                           *)
Restarts ==
  /\ Fault
  /\ HoldsAfterwards(Empty)
  /\ cedar' \in Prints
  /\ UNCHANGED <<up, late, baseline, refusalVars, heard, heardInRead, check,
                 timing, call, blind, accepted>>

(* A PUT given up reaches the agent after all, whatever it holds by then.   *)
TakesLate ==
  /\ up
  /\ late > 0
  /\ late' = late - 1
  /\ HoldsAfterwards(Load(cedar))
  /\ UNCHANGED <<cedar, up, faults, baseline, refusalVars, heard, heardInRead,
                 check, timing, call, blind, accepted>>

ConnectivityChanges ==
  /\ IF up THEN Fault ELSE UNCHANGED faults
  /\ up' = ~up
  /\ UNCHANGED <<agent, cedar, late, baseline, refusalVars, heard, heardInRead,
                 check, timing, call, history>>

Tick ==
  /\ elapsed < Interval
  /\ elapsed' = elapsed + 1
  /\ alteredFor' = IF agent.set = "load" \/ alteredFor = Interval
                   THEN alteredFor ELSE alteredFor + 1
  /\ UNCHANGED <<agentVars, baseline, refusalVars, heard, heardInRead, check,
                 wait, recheck, call, blind, found, accepted>>

-----------------------------------------------------------------------------
(* The refusal.                                                             *)

(* Every call out now crosses the refusal (history).                        *)
CrossAll ==
  call' = [k \in Calls |->
             IF Out(k) THEN [call[k] EXCEPT !.crossed = TRUE] ELSE call[k]]

(* refuse(why): the same refusal again is no news; another one is a new     *)
(* generation.                                                              *)
Refuse(why) ==
  IF refusal = why
  THEN UNCHANGED <<refusalVars, call>>
  ELSE /\ refusal' = why
       /\ begun' = why
       /\ generation' = generation + 1
       /\ CrossAll

(* lift(): answers go ahead; every call answered so far is accounted for.   *)
Lift ==
  /\ refusal' = NONE
  /\ UNCHANGED <<begun, generation, call>>
  /\ heard' = FALSE
  /\ accepted' = {}

(* The finally of poll(): back off while still refusing, draw a new wait.   *)
EndCheck ==
  /\ check' = NoCheck
  /\ recheck' = IF check.refusing /\ refusal' # NONE
                THEN IF 2 * recheck < Interval THEN 2 * recheck ELSE Interval
                ELSE 1
  /\ wait' \in Waits
  /\ UNCHANGED elapsed

-----------------------------------------------------------------------------
(* check(): the read (readAgentSet) ...                                     *)

(* The agent takes the GET and answers with the set it holds then.          *)
AgentAnswersRead ==
  /\ check.at \in {"read", "retry"}
  /\ up
  /\ check' = [check EXCEPT !.at = "answered", !.got = agent]
  /\ UNCHANGED <<agentVars, baseline, refusalVars, heard, heardInRead, timing,
                 call, history>>

(* The connection fails outright: once more, on a fresh connection.         *)
ReadRetried ==
  /\ check.at = "read"
  /\ ~up
  /\ check' = [check EXCEPT !.at = "retry"]
  /\ UNCHANGED <<agentVars, baseline, refusalVars, heard, heardInRead, timing,
                 call, history>>

(* The read rejects: refuse if calls were answered meanwhile and no refusal *)
(* stands; otherwise nothing was learnt.                                    *)
ReadUnreachable ==
  /\ check.at = "retry"
  /\ ~up
  /\ heard' = FALSE /\ heardInRead' = FALSE
  /\ IF refusal = NONE /\ heard
     THEN Refuse(Unverifiable)
     ELSE UNCHANGED <<refusalVars, call>>
  /\ EndCheck
  /\ blind' = (refusal' = NONE)
  /\ accepted' = {}
  /\ UNCHANGED <<agentVars, baseline, alteredFor, found>>

(* Mutant of ReadCounts: calls answered during the read count as read.      *)
ReadCountsAll ==
  /\ heard' = FALSE
  /\ heardInRead' = FALSE
  /\ accepted' = IF "during" \in accepted THEN {"before"} ELSE {}

(* The read answered for the calls before it began; those answered while it *)
(* was out are left to the next check.                                      *)
ReadCounts ==
  /\ heard' = heardInRead
  /\ heardInRead' = FALSE
  /\ accepted' = IF "during" \in accepted THEN {"before"} ELSE {}

(* Late, broken off, past the bound, an error status, not a set.            *)
ReadUnverifiable ==
  /\ check.at \in {"read", "retry", "answered"}
  /\ Fault
  /\ ReadCounts
  /\ Refuse(Unverifiable)
  /\ EndCheck
  /\ blind' = FALSE
  /\ UNCHANGED <<agent, cedar, up, late, baseline, alteredFor, found>>

(* Mutant of ReadSame: a refusal stands although the set is back.           *)
ReadSameKeepsRefusing ==
  /\ check.at = "answered"
  /\ check.got = baseline
  /\ UNCHANGED <<agentVars, baseline, refusalVars, call, alteredFor, found>>
  /\ ReadCounts
  /\ EndCheck
  /\ blind' = FALSE

(* The set is the one pushed: answer, lifting a refusal that stood.         *)
ReadSame ==
  /\ check.at = "answered"
  /\ check.got = baseline
  /\ IF refusal # NONE
     THEN Lift /\ heardInRead' = FALSE
     ELSE ReadCounts /\ UNCHANGED <<refusalVars, call>>
  /\ EndCheck
  /\ blind' = FALSE
  /\ UNCHANGED <<agentVars, baseline, alteredFor, found>>

(* Mutant of ReadChanged: the changed set is written over.                  *)
ReadChangedRestores ==
  /\ check.at = "answered"
  /\ check.got \notin {baseline, Empty}
  /\ ReadCounts
  /\ Refuse(Altered)
  /\ check' = [check EXCEPT !.at = "push"]
  /\ blind' = FALSE
  /\ found' = (check.got = agent)
  /\ UNCHANGED <<agentVars, baseline, timing, alteredFor>>

(* The set holds something else: refuse, and leave it for an operator.      *)
ReadChanged ==
  /\ check.at = "answered"
  /\ check.got \notin {baseline, Empty}
  /\ ReadCounts
  /\ Refuse(Altered)
  /\ EndCheck
  /\ blind' = FALSE
  /\ found' = (check.got = agent)
  /\ UNCHANGED <<agentVars, baseline, alteredFor>>

(* The agent holds nothing: refuse, and push this load's set again.         *)
ReadEmpty ==
  /\ check.at = "answered"
  /\ check.got = Empty
  /\ ReadCounts
  /\ Refuse(Altered)
  /\ check' = [check EXCEPT !.at = "push"]
  /\ UNCHANGED <<agentVars, baseline, timing, alteredFor, blind, found>>

(* ... and the push (pushPolicies).  The agent takes the PUT, which         *)
(* replaces whatever it holds by then, and answers with its own copy.       *)
AgentTakesPush ==
  /\ check.at = "push"
  /\ up
  /\ HoldsAfterwards(Load(cedar))
  /\ check' = [check EXCEPT !.at = "pushed", !.got = Load(cedar)]
  /\ UNCHANGED <<cedar, up, faults, late, baseline, refusalVars, heard,
                 heardInRead, timing, call, blind, accepted>>

PushAnswered ==
  /\ check.at = "pushed"
  /\ baseline' = check.got
  /\ Lift
  /\ heardInRead' = FALSE
  /\ EndCheck
  /\ blind' = FALSE
  /\ UNCHANGED <<agentVars, alteredFor, found>>

(* An attempt is given up: one the agent has not taken yet it takes late,   *)
(* or never.                                                                *)
GivesUp ==
  /\ check.at \in {"push", "pushed"}
  /\ Fault
  /\ late' \in IF check.at = "push" THEN {late, late + 1} ELSE {late}

(* The connection breaks before an answer begins: sent again, after a pause *)
(* within the deadline.                                                     *)
PushRetried ==
  /\ GivesUp
  /\ check' = [check EXCEPT !.at = "push"]
  /\ UNCHANGED <<agent, cedar, up, baseline, refusalVars, heard, heardInRead,
                 timing, call, history>>

(* Refused, unreachable to the deadline, or its answer late or broken off.  *)
PushFails ==
  /\ \/ check.at = "push" /\ ~up /\ UNCHANGED <<faults, late>>
     \/ GivesUp
  /\ UNCHANGED <<agent, cedar, up, baseline, refusalVars, heard, call,
                 alteredFor, found, accepted>>
  /\ EndCheck
  /\ blind' = FALSE
  /\ heardInRead' = FALSE

-----------------------------------------------------------------------------
(* isAuthorized: poll, then refuse at once or send the call.                *)

(* Mutant of Due: a wait longer than the interval.                          *)
DueLate == elapsed > wait

Due == elapsed >= IF refusal = NONE THEN wait
                  ELSE IF recheck < Interval THEN recheck ELSE Interval

Poll ==
  IF check.at = "none" /\ Due
  THEN /\ check' = [at |-> "read", refusing |-> refusal # NONE, got |-> NONE]
       /\ elapsed' = 0
       /\ heardInRead' = FALSE
  ELSE UNCHANGED <<check, elapsed, heardInRead>>

Ask(k) ==
  /\ ~Out(k)
  /\ Poll
  /\ call' = [call EXCEPT ![k] =
                IF refusal # NONE
                THEN [at |-> "refused", made |-> 0, crossed |-> FALSE]
                ELSE [at |-> "out", made |-> generation, crossed |-> FALSE]]
  /\ UNCHANGED <<agentVars, baseline, refusalVars, heard, wait, recheck,
                 history>>

AgentServes(k) ==
  /\ call[k].at = "out"
  /\ up
  /\ call' = [call EXCEPT ![k].at = "served"]
  /\ UNCHANGED <<agentVars, baseline, refusalVars, heard, heardInRead, check,
                 timing, history>>

(* Mutant of RefusedSince: a refusal lifted since is forgotten.             *)
RefusedNow(since) == refusal

(* refusedSince: the refusal now, or one begun since the call was made.     *)
RefusedSince(since) ==
  IF refusal # NONE THEN refusal
  ELSE IF generation # since THEN begun ELSE NONE

(* The answer arrives whole: it is counted, then refused as late or given.  *)
Deliver(k) ==
  /\ call[k].at = "served"
  /\ heard' = TRUE
  /\ heardInRead' = (check.at # "none")
  /\ LET given == RefusedSince(call[k].made) = NONE
     IN /\ call' = [call EXCEPT ![k].at = IF given THEN "accepted" ELSE "refused"]
        /\ accepted' = IF given
                       THEN accepted \cup {IF check.at = "none" THEN "before"
                                                               ELSE "during"}
                       ELSE accepted
  /\ UNCHANGED <<agentVars, baseline, refusalVars, check, timing, alteredFor,
                 blind, found>>

(* The call fails or its signal aborts: the rule fails, nothing is counted. *)
CallFails(k) ==
  /\ Out(k)
  /\ call' = [call EXCEPT ![k] = Idle]
  /\ UNCHANGED <<agentVars, baseline, refusalVars, heard, heardInRead, check,
                 timing, history>>

-----------------------------------------------------------------------------
Environment == SetReplaced \/ Restarts \/ TakesLate \/ ConnectivityChanges

CheckStep ==
  \/ AgentAnswersRead \/ ReadRetried \/ ReadUnreachable
  \/ ReadUnverifiable \/ ReadSame \/ ReadChanged \/ ReadEmpty
  \/ AgentTakesPush \/ PushAnswered \/ PushRetried \/ PushFails

Next ==
  \/ Environment
  \/ Tick
  \/ CheckStep
  \/ \E k \in Calls : Ask(k) \/ AgentServes(k) \/ Deliver(k) \/ CallFails(k)

Spec == Init /\ [][Next]_vars

(* Time passes, a check goes on, calls end, and callers keep asking: "A     *)
(* verifier that answers nothing checks nothing" (agentReadBack.mts:26).    *)
Fairness ==
  /\ WF_vars(Tick)
  /\ WF_vars(CheckStep)
  /\ \A k \in Calls : WF_vars(Deliver(k)) /\ WF_vars(CallFails(k))
  /\ WF_vars(\E k \in Calls : Ask(k))

FairSpec == Spec /\ Fairness

-----------------------------------------------------------------------------
(* No answer is given to a call during whose flight answers were refused at *)
(* any moment, the set restored since or not: it may have come from the set *)
(* that was found changed (agentReadBack.mts:40, generation).               *)
LateAnswersRefused ==
  \A k \in Calls : call[k].at = "accepted" => ~call[k].crossed

(* A set that a check found changed is left for an operator to see: while   *)
(* the agent holds it, every answer is refused and no push of this load     *)
(* writes over it - only someone else does, or a PUT given up before it was *)
(* found that reaches the agent late (agentReadBack.mts:44-50, 262-275).    *)
FoundIsLeft ==
  [][found =>
       /\ refusal # NONE
       /\ agent' # agent => SetReplaced \/ Restarts \/ TakesLate]_vars

(* A check that cannot reach the agent stays silent only if no answer was   *)
(* given since the last read that showed the set began: an agent that       *)
(* answers calls but hides its set is refused (agentReadBack.mts:33-37).    *)
SilentOnlyIfUnheard ==
  [][ReadUnreachable /\ refusal' = NONE => accepted = {}]_vars

(* The detection window: once the agent has not held this load's set for a  *)
(* whole interval, no call goes out unless a check is on its way or the     *)
(* last one could not reach the agent (agentReadBack.mts:21-25, 290-323).   *)
DetectionWindow ==
  [][\A k \in Calls :
       ~Out(k) /\ call'[k].at = "out" /\ alteredFor = Interval
         => check'.at # "none" \/ blind]_vars

(* With the agent reachable from some time on, the verifier ends up either  *)
(* answering from its own set - restored, or pushed again into a restarted  *)
(* agent - or refusing for good a set that someone else put there.          *)
Heals ==
  <>[]up => \/ <>[](agent.set = "load" /\ refusal = NONE)
            \/ <>[](agent = Other /\ refusal # NONE)

(* What the header says: the set is read again while refusing "so answers   *)
(* resume soon after the set is this load's again"; "It stays refused until *)
(* the agent holds this load's set again, however it gets there"            *)
(* (agentReadBack.mts:39,50).                                               *)
ResumesOnceRestored ==
  <>[](up /\ agent.set = "load") => <>[](refusal = NONE)
=============================================================================
