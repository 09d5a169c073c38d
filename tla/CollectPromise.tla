--------------------------- MODULE CollectPromise ---------------------------
(***************************************************************************)
(* What runCollectors promises the pipeline that awaits it, without lanes, *)
(* timers or signals: all the answers or one failure, never a part of the  *)
(* answers; and a failure that was attributed, once, before it is handed   *)
(* over, unless it is the caller's own leaving, which belongs to nobody.   *)
(***************************************************************************)
CONSTANTS
  Collectors,    \* the collectors of the fan-out
  Reasons,       \* values a collect may reject with
  Sources,       \* where a failure may be said to come from
  CallerReason,  \* the caller's abort reason, one of Reasons
  NONE

VARIABLES
  outcome,   \* what the awaiting pipeline sees
  answered,  \* collectors whose result is in
  blamed     \* reason -> source

pvars == <<outcome, answered, blamed>>

Pending == [state |-> "pending", with |-> NONE]
Fulfilled == [state |-> "fulfilled", with |-> NONE]
Rejected(v) == [state |-> "rejected", with |-> v]

PInit ==
  /\ outcome = Pending
  /\ answered = {}
  /\ blamed = [v \in Reasons |-> NONE]

Answer(c) ==
  /\ answered' = answered \cup {c}
  /\ UNCHANGED <<outcome, blamed>>

Blame(v, s) ==
  /\ v # CallerReason
  /\ blamed[v] = NONE
  /\ blamed' = [blamed EXCEPT ![v] = s]
  /\ UNCHANGED <<outcome, answered>>

Fulfil ==
  /\ outcome = Pending
  /\ answered = Collectors
  /\ outcome' = Fulfilled
  /\ UNCHANGED <<answered, blamed>>

Fail(v) ==
  /\ outcome = Pending
  /\ v = CallerReason \/ blamed[v] # NONE
  /\ outcome' = Rejected(v)
  /\ UNCHANGED <<answered, blamed>>

PNext ==
  \/ \E c \in Collectors : Answer(c)
  \/ \E v \in Reasons, s \in Sources : Blame(v, s)
  \/ Fulfil
  \/ \E v \in Reasons : Fail(v)

PSpec == PInit /\ [][PNext]_pvars
=============================================================================
