-------------------------- MODULE GracefulShutdown --------------------------
(***************************************************************************)
(* The standalone process between its first signal and its end             *)
(* (templates/standalone/src/shutdown.ts): the drain, its deadline, the    *)
(* cleanup and its budget, and the exit, with what Node makes of them:     *)
(* timers that were unref'd do not keep the event loop alive, and a signal *)
(* nobody listens to ends the process.                                     *)
(***************************************************************************)
EXTENDS Integers

CONSTANTS
  MaxRequests,  \* bound on the requests in flight
  MaxServed,    \* bound on the requests taken before the first signal
  NONE

ASSUME ShutdownAssumption == MaxRequests \in Nat /\ MaxServed \in Nat

VARIABLES
  listener,      \* "open", "down" (not up yet), "closing", "shut" or "failed"
  requests,      \* requests in flight
  served,        \* requests taken so far
  cut,           \* history: requests whose connection was cut
  shuttingDown,
  deadline,      \* the drain deadline is armed
  overran,       \* history: the drain deadline has fired
  finished,
  hasCleanup,    \* options.cleanup was given
  holds,         \* what cleanup waits on keeps the event loop alive
  cleanup,       \* "none", "running", "done", "failed" or "timed out"
  cleanups,      \* history: how often cleanup was called
  exitCode,      \* the code finish is about to exit with, NONE before finish
  exiting,       \* exit(code) was called: setImmediate is queued
  status         \* how the process ended: 0, 1, "signal"; NONE while it runs

serverVars == <<listener, requests, served, cut>>
given == <<hasCleanup, holds>>
finishVars == <<finished, cleanup, cleanups, exitCode, exiting>>
vars == <<serverVars, shuttingDown, deadline, overran, given, finishVars, status>>

Init ==
  /\ listener \in {"open", "down"}
  /\ requests = 0 /\ served = 0 /\ cut = 0
  /\ shuttingDown = FALSE /\ deadline = FALSE /\ overran = FALSE
  /\ hasCleanup \in BOOLEAN /\ holds \in BOOLEAN
  /\ finished = FALSE
  /\ cleanup = "none" /\ cleanups = 0
  /\ exitCode = NONE /\ exiting = FALSE
  /\ status = NONE

Running == status = NONE
-----------------------------------------------------------------------------
(* The server.                                                              *)
RequestArrives ==
  /\ Running
  /\ listener = "open"
  /\ requests < MaxRequests /\ served < MaxServed
  /\ requests' = requests + 1
  /\ served' = served + 1
  /\ UNCHANGED <<listener, cut, shuttingDown, deadline, overran, given,
                 finishVars, status>>

RequestEnds ==
  /\ Running
  /\ requests > 0
  /\ requests' = requests - 1
  /\ UNCHANGED <<listener, served, cut, shuttingDown, deadline, overran, given,
                 finishVars, status>>

(* The handler: once, it stops listening to signals, arms the deadline and  *)
(* closes the server, idle connections included.                            *)
Signal ==
  /\ Running
  /\ ~shuttingDown
  /\ shuttingDown' = TRUE
  /\ deadline' = TRUE
  /\ listener' = IF listener = "open" THEN "closing" ELSE listener
  /\ UNCHANGED <<requests, served, cut, overran, given, finishVars, status>>

(* Another signal finds no listener: Node's default is to end the process.  *)
SignalAgain ==
  /\ Running
  /\ shuttingDown
  /\ status' = "signal"
  /\ UNCHANGED <<serverVars, shuttingDown, deadline, overran, given, finishVars>>

-----------------------------------------------------------------------------
(* finish(code), up to its await of cleanup; without one it exits.          *)
Finish(code) ==
  IF finished
  THEN UNCHANGED finishVars
  ELSE /\ finished' = TRUE
       /\ exitCode' = code
       /\ cleanup' = IF hasCleanup THEN "running" ELSE "none"
       /\ cleanups' = cleanups + (IF hasCleanup THEN 1 ELSE 0)
       /\ exiting' = ~hasCleanup

(* The deadline: the connections left are cut, and the drain has failed.    *)
DeadlineFires ==
  /\ Running
  /\ deadline
  /\ deadline' = FALSE
  /\ overran' = TRUE
  /\ cut' = requests
  /\ requests' = 0
  /\ Finish("1")
  /\ UNCHANGED <<listener, served, shuttingDown, given, status>>

(* Mutant of ServerCloses: a close that failed is a clean drain.            *)
ServerClosesQuietly ==
  /\ Running
  /\ shuttingDown
  /\ listener \in {"closing", "down"}
  /\ requests = 0
  /\ listener' \in IF listener = "down" THEN {"failed"} ELSE {"shut", "failed"}
  /\ deadline' = FALSE
  /\ Finish("0")
  /\ UNCHANGED <<requests, served, cut, shuttingDown, overran, given, status>>

(* close's callback, once no connection is left: with an error if the       *)
(* server was not listening or its listener did not come down.              *)
ServerCloses ==
  /\ Running
  /\ shuttingDown
  /\ listener \in {"closing", "down"}
  /\ requests = 0
  /\ listener' \in IF listener = "down" THEN {"failed"} ELSE {"shut", "failed"}
  /\ deadline' = FALSE
  /\ Finish(IF listener' = "failed" THEN "1" ELSE "0")
  /\ UNCHANGED <<requests, served, cut, shuttingDown, overran, given, status>>

-----------------------------------------------------------------------------
(* finish after its await: the exit code says whether cleanup succeeded.    *)
Concludes(how) ==
  /\ cleanup' = how
  /\ exitCode' = IF how = "done" THEN exitCode ELSE "1"
  /\ exiting' = TRUE
  /\ UNCHANGED <<serverVars, shuttingDown, deadline, overran, given, finished,
                 cleanups, status>>

CleanupSettles ==
  /\ Running
  /\ cleanup = "running"
  /\ \E how \in {"done", "failed"} : Concludes(how)

(* Mutant of CleanupTimesOut: cleanup is awaited for as long as it takes.   *)
CleanupAwaited == FALSE /\ UNCHANGED vars

(* Its budget runs out, if something else kept the event loop alive until   *)
(* then: the timer is unref'd.                                              *)
CleanupTimesOut ==
  /\ Running
  /\ cleanup = "running"
  /\ holds \/ listener # "shut"
  /\ Concludes("timed out")

(* Nothing is left to keep the event loop alive but a promise: the process  *)
(* ends as if it had nothing more to do.                                    *)
LoopEmpties ==
  /\ Running
  /\ cleanup = "running" /\ ~holds
  /\ listener = "shut"
  /\ status' = "0"
  /\ UNCHANGED <<serverVars, shuttingDown, deadline, overran, given, finishVars>>

(* deferExit: the process exits a turn after exit(code).                    *)
Exits ==
  /\ Running
  /\ exiting
  /\ status' = exitCode
  /\ UNCHANGED <<serverVars, shuttingDown, deadline, overran, given, finishVars>>

-----------------------------------------------------------------------------
Next ==
  \/ RequestArrives \/ RequestEnds
  \/ Signal \/ SignalAgain
  \/ DeadlineFires \/ ServerCloses
  \/ CleanupSettles \/ CleanupTimesOut \/ LoopEmpties \/ Exits

Spec == Init /\ [][Next]_vars

(* Armed timers fire while something keeps the loop alive, a drained server *)
(* calls back, an emptied loop ends the process.  No request need end and   *)
(* no cleanup settle.                                                       *)
Fairness ==
  /\ WF_vars(DeadlineFires) /\ WF_vars(ServerCloses)
  /\ WF_vars(CleanupTimesOut) /\ WF_vars(LoopEmpties) /\ WF_vars(Exits)

FairSpec == Spec /\ Fairness

-----------------------------------------------------------------------------
(* The code handed to exit is 0 only after a clean drain and a cleanup that *)
(* succeeded: the deadline did not run out, no connection was cut and the   *)
(* listener came down, though the deadline and the close callback race, and *)
(* whichever comes second finishes nothing (shutdown.ts:24-31).  Cleanup    *)
(* never runs while a connection is still being served, and never twice     *)
(* (shutdown.ts:27, "cleanup runs after draining").                         *)
ZeroMeansClean ==
  /\ exiting /\ exitCode = "0" =>
       /\ ~overran /\ cut = 0 /\ requests = 0
       /\ listener = "shut"
       /\ cleanup = IF hasCleanup THEN "done" ELSE "none"
  /\ cleanups > 0 => cleanups = 1 /\ requests = 0

(* Once told to, the process ends: a request that never finishes is cut, a  *)
(* cleanup that never settles is given up on (shutdown.ts:22-30).           *)
ShutdownEnds == shuttingDown ~> ~Running

(* What the header says: "a second signal is ignored rather than starting a *)
(* second cleanup over the first one's work" (shutdown.ts:16).              *)
SecondSignalIgnored == status # "signal"

(* What the header says of cleanup: "logged through the app logger and      *)
(* reflected in the exit code. It is bounded by cleanupTimeoutMs"           *)
(* (shutdown.ts:27-29): a process whose cleanup never settled does not end  *)
(* as a success.                                                            *)
HungCleanupShows == status = "0" => cleanup # "running"
=============================================================================
