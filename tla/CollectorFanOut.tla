-------------------------- MODULE CollectorFanOut --------------------------
(***************************************************************************)
(* One call of runCollectors (packages/core/src/collectorLimits.mts): the  *)
(* bounded, fail-closed fan-out an attribute or a rule pipeline performs   *)
(* for one decision, together with the part of the decision's              *)
(* FailureRecord (failureSource.mts) it writes.                            *)
(*                                                                         *)
(* A step is a run of JavaScript that nothing else can interrupt: one      *)
(* continuation of a lane, one timer callback, one abort.  Collector       *)
(* promises may settle at any moment, also while the continuations of an   *)
(* earlier settlement are still queued; timers fire only when no           *)
(* continuation is ready, because the event loop drains its microtasks     *)
(* between two tasks.  The order of the ready continuations is left open.  *)
(***************************************************************************)
EXTENDS Integers, FiniteSets

CONSTANTS
  N,            \* number of collectors; 0 resolves at once
  Concurrency,  \* limits.concurrency
  Errors,       \* error objects a collector may reject with, shared or not
  NONE          \* no reason, no source, nobody

Collectors == 1..N

\* Mutant of LaneCount: a lane per collector, the concurrency cap dropped.
LaneCountUncapped == N

\* Array.from({ length: Math.min(limits.concurrency, collectors.length) })
LaneCount == IF Concurrency < N THEN Concurrency ELSE N
Lanes == 1..LaneCount

(***************************************************************************)
(* The values an await of this fan-out can throw, and where the record may *)
(* say one came from.                                                      *)
(***************************************************************************)
Thrown(e) == [kind |-> "thrown", of |-> e]
TimeoutOf(c) == [kind |-> "timeout", of |-> c]
DeadlineReason == [kind |-> "deadline", of |-> NONE]
CallerReason == [kind |-> "caller", of |-> NONE]

Reasons == {Thrown(e) : e \in Errors} \cup {TimeoutOf(c) : c \in Collectors}
             \cup {DeadlineReason, CallerReason}

CollectorSource(c) == [kind |-> "collector", of |-> c]
DeadlineSource == [kind |-> "deadline", of |-> NONE]
Sources == {CollectorSource(c) : c \in Collectors} \cup {DeadlineSource}

\* resolveCollectorLimits refuses a concurrency that is not a positive integer.
ASSUME FanOutAssumption ==
  /\ N \in Nat
  /\ Concurrency \in Nat \ {0}
  /\ NONE \notin Reasons \cup Sources

\* How Promise.race([collected, cancelled.promise]) of one runOne stands.
Open == [won |-> "open", with |-> NONE]
Answered == [won |-> "answered", with |-> NONE]
Failed(v) == [won |-> "failed", with |-> v]
Cancelled(v) == [won |-> "cancelled", with |-> v]
Races == {Open, Answered} \cup {Failed(v) : v \in Reasons}
           \cup {Cancelled(v) : v \in Reasons}

VARIABLES
  phase,     \* "idle", "collecting", "resolved" or "rejected"
  next,      \* the shared cursor: collectors claimed by a lane so far
  lane,      \* lane -> the collector it awaits, 0 once it has ended
  invoked,   \* collectors whose collect() was called
  live,      \* invoked collectors whose promise has not settled
  own,       \* collector -> reason its own controller aborted with
  race,      \* collector -> how its race stands
  results,   \* indices of the results array that are filled in
  cause,     \* the first lane rejection, as Promise.all hands it over
  fanOut,    \* reason the fan-out's controller aborted with
  deadline,  \* the deadline timer is armed
  listening, \* the caller's signal carries this fan-out's listener
  caller,    \* the caller's signal has aborted
  record     \* FailureRecord.sources: reason -> source, NONE when absent

vars == <<phase, next, lane, invoked, live, own, race, results,
          cause, fanOut, deadline, listening, caller, record>>

TypeOK ==
  /\ phase \in {"idle", "collecting", "resolved", "rejected"}
  /\ next \in 0..N
  /\ lane \in [Lanes -> 0..N]
  /\ invoked \in SUBSET Collectors
  /\ live \in SUBSET Collectors
  /\ own \in [Collectors -> Reasons \cup {NONE}]
  /\ race \in [Collectors -> Races]
  /\ results \in SUBSET Collectors
  /\ cause \in Reasons \cup {NONE}
  /\ fanOut \in Reasons \cup {NONE}
  /\ deadline \in BOOLEAN
  /\ listening \in BOOLEAN
  /\ caller \in BOOLEAN
  /\ record \in [Reasons -> Sources \cup {NONE}]

Init ==
  /\ phase = "idle"
  /\ next = 0
  /\ lane = [l \in Lanes |-> 0]
  /\ invoked = {}
  /\ live = {}
  /\ own = [c \in Collectors |-> NONE]
  /\ race = [c \in Collectors |-> Open]
  /\ results = {}
  /\ cause = NONE
  /\ fanOut = NONE
  /\ deadline = FALSE
  /\ listening = FALSE
  /\ caller \in BOOLEAN
  /\ record = [v \in Reasons |-> NONE]

-----------------------------------------------------------------------------
(* FailureRecord.record: the first source recorded for a value wins. *)
Record(v, source) ==
  record' = IF record[v] = NONE THEN [record EXCEPT ![v] = source] ELSE record

(* Collectors whose runOne has not reached its finally: their own timer is  *)
(* armed and their controller listens to the fan-out's.                     *)
Guarded == {lane[l] : l \in Lanes} \ {0}
Cancellable(c) == c \in Guarded /\ own[c] = NONE

(* Mutant of InheritAbort: the race is not rejected, only signalled.        *)
InheritWithoutRace(reason) ==
  /\ own' = [c \in Collectors |-> IF Cancellable(c) THEN reason ELSE own[c]]
  /\ UNCHANGED race

(* inheritAbort and rejectOnAbort: an abort of the fan-out aborts every     *)
(* guarded collector's own controller, and rejects each race still open.    *)
InheritAbort(reason) ==
  /\ own' = [c \in Collectors |-> IF Cancellable(c) THEN reason ELSE own[c]]
  /\ race' = [c \in Collectors |->
                IF Cancellable(c) /\ race[c] = Open
                THEN Cancelled(reason) ELSE race[c]]

(* fanOut.abort(reason): a controller aborts once. *)
AbortFanOut(reason) ==
  \/ /\ fanOut = NONE
     /\ fanOut' = reason
     /\ InheritAbort(reason)
  \/ /\ fanOut # NONE
     /\ UNCHANGED <<fanOut, own, race>>

(* A continuation of this fan-out is queued: a lane's race has settled, or  *)
(* Promise.all has.                                                         *)
LaneReady(l) == lane[l] # 0 /\ race[lane[l]] # Open
AllEnded == \A l \in Lanes : lane[l] = 0
Settling == phase = "collecting" /\ (cause # NONE \/ AllEnded)
Quiescent == ~Settling /\ \A l \in Lanes : ~LaneReady(l)

-----------------------------------------------------------------------------
(* runCollectors up to its await: an empty list resolves; otherwise the     *)
(* deadline is armed, the caller's signal is read or listened to, and every *)
(* lane claims one collector and invokes it, unless the caller has left.    *)
Collect ==
  /\ phase = "idle"
  /\ phase' = IF N = 0 THEN "resolved" ELSE "collecting"
  /\ next' = LaneCount
  /\ deadline' = (N # 0)
  /\ listening' = (N # 0 /\ ~caller)
  /\ IF caller
     THEN /\ fanOut' = IF N = 0 THEN NONE ELSE CallerReason
          /\ cause' = IF N = 0 THEN NONE ELSE CallerReason
          /\ UNCHANGED <<lane, invoked, live>>
     ELSE /\ lane' = [l \in Lanes |-> l]
          /\ invoked' = Lanes
          /\ live' = Lanes
          /\ UNCHANGED <<fanOut, cause>>
  /\ UNCHANGED <<own, race, results, caller, record>>

(* Values collector c may reject with: an error, or the reason of any       *)
(* collector's signal, since a memoised downstream call may be shared.      *)
Rejections == {Thrown(e) : e \in Errors}
                \cup ({own[c] : c \in Collectors} \ {NONE})

(* The collector's promise fulfils.                                         *)
Answers(c) ==
  /\ c \in live
  /\ live' = live \ {c}
  /\ race' = IF race[c] = Open THEN [race EXCEPT ![c] = Answered] ELSE race
  /\ UNCHANGED <<phase, next, lane, invoked, own, results, cause,
                 fanOut, deadline, listening, caller, record>>

(* Mutant of Rejects: recorded whether or not the signal has aborted.       *)
RejectsBlamed(c, v) ==
  /\ c \in live
  /\ live' = live \ {c}
  /\ Record(v, CollectorSource(c))
  /\ race' = IF race[c] = Open THEN [race EXCEPT ![c] = Failed(v)] ELSE race
  /\ UNCHANGED <<phase, next, lane, invoked, own, results, cause, fanOut,
                 deadline, listening, caller>>

(* The collector's promise rejects with v and the catch handler of          *)
(* collected runs: it records v unless the collector's signal has aborted.  *)
Rejects(c, v) ==
  /\ c \in live
  /\ live' = live \ {c}
  /\ IF own[c] = NONE THEN Record(v, CollectorSource(c))
                      ELSE UNCHANGED record
  /\ race' = IF race[c] = Open THEN [race EXCEPT ![c] = Failed(v)] ELSE race
  /\ UNCHANGED <<phase, next, lane, invoked, own, results, cause,
                 fanOut, deadline, listening, caller>>

(* Mutant of OwnTimeout: the timeout is not recorded.                       *)
OwnTimeoutUnrecorded(c) ==
  /\ Quiescent
  /\ Cancellable(c)
  /\ own' = [own EXCEPT ![c] = TimeoutOf(c)]
  /\ race' = [race EXCEPT ![c] = Cancelled(TimeoutOf(c))]
  /\ UNCHANGED <<phase, next, lane, invoked, live, results, cause, fanOut,
                 deadline, listening, caller, record>>

(* The collector's own timer fires: record, then abort its controller.      *)
OwnTimeout(c) ==
  /\ Quiescent
  /\ Cancellable(c)
  /\ Record(TimeoutOf(c), CollectorSource(c))
  /\ own' = [own EXCEPT ![c] = TimeoutOf(c)]
  /\ race' = [race EXCEPT ![c] = Cancelled(TimeoutOf(c))]
  /\ UNCHANGED <<phase, next, lane, invoked, live, results, cause,
                 fanOut, deadline, listening, caller>>

(* The deadline timer fires: record, then abort the whole fan-out.          *)
DeadlineFires ==
  /\ Quiescent
  /\ deadline
  /\ deadline' = FALSE
  /\ Record(DeadlineReason, DeadlineSource)
  /\ AbortFanOut(DeadlineReason)
  /\ UNCHANGED <<phase, next, lane, invoked, live, results, cause,
                 listening, caller>>

(* The caller's signal aborts; the once-listener is gone after it ran.      *)
CallerAborts ==
  /\ ~caller
  /\ caller' = TRUE
  /\ listening' = FALSE
  /\ IF listening THEN AbortFanOut(CallerReason)
                  ELSE UNCHANGED <<fanOut, own, race>>
  /\ UNCHANGED <<phase, next, lane, invoked, live, results, cause,
                 deadline, record>>

(* Invoking the collector the cursor stands at.                             *)
InvokeNext(l) ==
  /\ lane' = [lane EXCEPT ![l] = next + 1]
  /\ invoked' = invoked \cup {next + 1}
  /\ live' = live \cup {next + 1}
  /\ UNCHANGED cause

(* A lane that ends without a failure of its own.                           *)
EndLane(l) ==
  /\ lane' = [lane EXCEPT ![l] = 0]
  /\ UNCHANGED <<cause, invoked, live>>

(* Mutants of ClaimNext: one claim past the end; a refused collector that   *)
(* resolves instead of rethrowing; no refusal at all.                       *)
ClaimPastEnd(l) == next' = next + 1 /\ InvokeNext(l)

ClaimQuietly(l) ==
  \/ next = N /\ EndLane(l) /\ UNCHANGED next
  \/ next < N /\ next' = next + 1
       /\ IF fanOut # NONE THEN EndLane(l) ELSE InvokeNext(l)

ClaimRegardless(l) ==
  \/ next = N /\ EndLane(l) /\ UNCHANGED next
  \/ next < N /\ next' = next + 1 /\ InvokeNext(l)

(* runOne for the lane's next claim: refused when the fan-out has aborted   *)
(* (the lane rejects with its reason), otherwise the collector is invoked.  *)
ClaimNext(l) ==
  \/ /\ next = N
     /\ EndLane(l)
     /\ UNCHANGED next
  \/ /\ next < N
     /\ next' = next + 1
     /\ IF fanOut = NONE
        THEN InvokeNext(l)
        ELSE /\ lane' = [lane EXCEPT ![l] = 0]
             /\ cause' = IF cause = NONE THEN fanOut ELSE cause
             /\ UNCHANGED <<invoked, live>>

(* A lane whose collector answered: runOne's finally, the result is stored, *)
(* the loop claims again.                                                   *)
LaneAdvances(l) ==
  /\ lane[l] # 0
  /\ race[lane[l]] = Answered
  /\ results' = results \cup {lane[l]}
  /\ ClaimNext(l)
  /\ UNCHANGED <<phase, own, race, fanOut, deadline, listening, caller, record>>

(* A lane whose race was lost: runOne's finally, then the lane rejects; the *)
(* first rejection is the one Promise.all keeps.                            *)
LaneFails(l) ==
  /\ lane[l] # 0
  /\ race[lane[l]].won \in {"failed", "cancelled"}
  /\ lane' = [lane EXCEPT ![l] = 0]
  /\ cause' = IF cause = NONE THEN race[lane[l]].with ELSE cause
  /\ UNCHANGED <<phase, next, invoked, live, own, race, results, fanOut,
                 deadline, listening, caller, record>>

(* Mutant of Reject: the siblings still running are not cancelled.          *)
RejectWithoutAbort ==
  /\ phase = "collecting"
  /\ cause # NONE
  /\ phase' = "rejected"
  /\ deadline' = FALSE
  /\ listening' = FALSE
  /\ UNCHANGED <<next, lane, invoked, live, own, race, results, cause, fanOut,
                 caller, record>>

(* Promise.all rejected: abort what still runs, release timer and listener. *)
Reject ==
  /\ phase = "collecting"
  /\ cause # NONE
  /\ phase' = "rejected"
  /\ AbortFanOut(cause)
  /\ deadline' = FALSE
  /\ listening' = FALSE
  /\ UNCHANGED <<next, lane, invoked, live, results, cause, caller,
                 record>>

(* Promise.all resolved: every lane ran out of work.                        *)
Resolve ==
  /\ phase = "collecting"
  /\ cause = NONE
  /\ AllEnded
  /\ phase' = "resolved"
  /\ deadline' = FALSE
  /\ listening' = FALSE
  /\ UNCHANGED <<next, lane, invoked, live, own, race, results, cause,
                 fanOut, caller, record>>

-----------------------------------------------------------------------------
Next ==
  \/ Collect
  \/ \E c \in Collectors : Answers(c)
  \/ \E c \in Collectors : \E v \in Rejections : Rejects(c, v)
  \/ \E c \in Collectors : OwnTimeout(c)
  \/ DeadlineFires
  \/ CallerAborts
  \/ \E l \in Lanes : LaneAdvances(l)
  \/ \E l \in Lanes : LaneFails(l)
  \/ Reject
  \/ Resolve

Spec == Init /\ [][Next]_vars

(* Queued continuations run and an armed timer fires.  Nothing is assumed   *)
(* of the collectors, of their timers or of the caller.                     *)
Fairness ==
  /\ WF_vars(Collect)
  /\ \A l \in Lanes : WF_vars(LaneAdvances(l)) /\ WF_vars(LaneFails(l))
  /\ WF_vars(Reject)
  /\ WF_vars(Resolve)
  /\ WF_vars(DeadlineFires)

FairSpec == Spec /\ Fairness

-----------------------------------------------------------------------------
(* A fan-out resolves only when every collector it was given answered; a    *)
(* failure, a cancellation or a refusal to start never shows up as a        *)
(* collector that contributed nothing (collectorLimits.mts:224).            *)
FailClosed ==
  phase = "resolved" =>
    results = Collectors /\ \A c \in Collectors : race[c] = Answered

(* At most Concurrency collector calls are outstanding, the ones that       *)
(* ignore their aborted signal and outlive their lane included.             *)
BoundedCalls == Cardinality(live) <= Concurrency

(* Once collect has settled nothing of it is left behind: no deadline, no   *)
(* listener on the caller's signal, and no collector still at work whose    *)
(* signal has not told it to stop (the catch and finally of runCollectors). *)
SettledHoldsNothing ==
  phase \in {"resolved", "rejected"} =>
    /\ ~deadline /\ ~listening
    /\ \A c \in live : own[c] # NONE

(* The failure collect rejects with is recorded under the one that caused   *)
(* it: a timeout under its collector, the deadline under the pipeline, an   *)
(* error under a collector whose own rejection lost its race with it, and   *)
(* the caller's leaving under nobody (failureSource.mts, runOne's catch).   *)
FailureNamed ==
  phase = "rejected" =>
    \/ cause = CallerReason /\ record[cause] = NONE
    \/ cause = DeadlineReason /\ record[cause] = DeadlineSource
    \/ \E c \in Collectors :
         /\ record[cause] = CollectorSource(c)
         /\ cause = TimeoutOf(c) \/ race[c] = Failed(cause)

(* No collector is invoked after the fan-out has aborted, and none twice:   *)
(* runOne's refusal, and the one shared cursor.                             *)
NoLateInvocation ==
  [][\A c \in Collectors :
       c \in live' \ live => fanOut = NONE /\ c \notin invoked]_vars

(* The fan-out settles although a collector may never answer, time out or   *)
(* honour its signal: the race against the deadline.                        *)
Settles == <>(phase \in {"resolved", "rejected"})

(* What the awaiting pipeline sees of the fan-out, and the promise kept.    *)
OutcomeSeen ==
  [state |-> CASE phase = "resolved" -> "fulfilled"
               [] phase = "rejected" -> "rejected"
               [] OTHER -> "pending",
   with |-> IF phase = "rejected" THEN cause ELSE NONE]

Promised == INSTANCE CollectPromise WITH
              outcome <- OutcomeSeen, answered <- results, blamed <- record

(* The fan-out implements the all-or-nothing promise of CollectPromise:     *)
(* runCollectors never resolves partially and never rejects with a failure  *)
(* nobody was recorded for, the caller's own reason excepted.               *)
KeepsPromise == Promised!PSpec

(* What runOne's header says: "A collector whose decision is already lost   *)
(* is **not invoked at all**" (collectorLimits.mts:313).                    *)
NotInvokedOnceLost ==
  [][invoked' # invoked =>
       \A c \in Collectors : race[c].won \notin {"failed", "cancelled"}]_vars
=============================================================================
