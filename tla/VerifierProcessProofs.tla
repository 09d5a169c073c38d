------------------------ MODULE VerifierProcessProofs ------------------------
(***************************************************************************)
(* What VerifierProcess keeps, whatever lives, requests and secrets it is  *)
(* given: the shutdown it composes is the one GracefulShutdown describes,  *)
(* whose exit code says what it did; the gates are passed in order; a      *)
(* rotation loses no token and no retired secret lives on; and what boots  *)
(* serves.                                                                 *)
(***************************************************************************)
EXTENDS VerifierProcess, FiniteSetTheorems, TLAPS

-----------------------------------------------------------------------------
(* The shutdown alone.                                                      *)

Counted ==
  /\ requests \in Nat /\ cleanups \in {0, 1}
  /\ shuttingDown \in BOOLEAN /\ deadline \in BOOLEAN /\ overran \in BOOLEAN
  /\ finished \in BOOLEAN /\ hasCleanup \in BOOLEAN /\ exiting \in BOOLEAN

(* Once the handler ran nobody listens, and its deadline goes with finish,  *)
(* which leaves no connection open.                                         *)
Draining ==
  /\ shuttingDown => listener # "open"
  /\ deadline => shuttingDown /\ ~finished
  /\ finished => shuttingDown /\ requests = 0

(* finish calls the cleanup there is, once, and awaits its end.             *)
Cleaning ==
  /\ ~finished => ~exiting /\ cleanups = 0 /\ cleanup = "none"
  /\ ~hasCleanup => cleanup = "none"
  /\ cleanups = 1 => finished
  /\ finished /\ hasCleanup => cleanup # "none"
  /\ exiting => finished /\ cleanup # "running"

(* Its code is 0 after a close without an error, and stays so after a       *)
(* cleanup that succeeded only.                                             *)
Succeeding ==
  /\ ~finished => ~overran /\ cut = 0
  /\ finished /\ exitCode = "0" => /\ ~overran /\ cut = 0 /\ listener = "shut"
                                  /\ cleanup \in {"none", "running", "done"}

ShutdownInv == Counted /\ Draining /\ Cleaning /\ Succeeding

(* The invariant says what an exit code of 0 means.                         *)
LEMMA ShutdownInvProves == ASSUME ShutdownInv PROVE ZeroMeansClean
<1>1. exiting /\ exitCode = "0" =>
        ~overran /\ cut = 0 /\ requests = 0 /\ listener = "shut"
  BY DEF ShutdownInv, Draining, Cleaning, Succeeding
<1>2. exiting /\ exitCode = "0" => cleanup = IF hasCleanup THEN "done" ELSE "none"
  BY DEF ShutdownInv, Cleaning, Succeeding
<1>3. cleanups > 0 => cleanups = 1
  BY DEF ShutdownInv, Counted
<1>4. cleanups = 1 => requests = 0
  BY DEF ShutdownInv, Draining, Cleaning
<1> QED BY <1>1, <1>2, <1>3, <1>4 DEF ZeroMeansClean

(* Every step of a shutdown keeps it.                                       *)
LEMMA ShutdownKeeps ==
  ASSUME ShutdownInv, [Next]_vars
  PROVE  ShutdownInv'
<1> USE DEF ShutdownInv, Running, serverVars, given, finishVars
<1>1. CASE RequestArrives
  BY <1>1 DEF RequestArrives, Counted, Draining, Cleaning, Succeeding
<1>2. CASE RequestEnds
  BY <1>2 DEF RequestEnds, Counted, Draining, Cleaning, Succeeding
<1>3. CASE Signal
  BY <1>3 DEF Signal, Counted, Draining, Cleaning, Succeeding
<1>4. CASE SignalAgain \/ LoopEmpties \/ Exits
  BY <1>4 DEF SignalAgain, LoopEmpties, Exits, Counted, Draining, Cleaning, Succeeding
<1>5. CASE DeadlineFires
  <2>1. ~finished
    BY <1>5 DEF DeadlineFires, Draining
  <2>2. Counted'
    <3>1. cleanups = 0 /\ cleanups' = cleanups + (IF hasCleanup THEN 1 ELSE 0)
      BY <1>5, <2>1 DEF DeadlineFires, Finish, Cleaning
    <3>2. cleanups' \in {0, 1}
      BY <3>1
    <3> QED BY <1>5, <2>1, <3>2 DEF DeadlineFires, Finish, Counted
  <2>3. Draining'
    BY <1>5, <2>1 DEF DeadlineFires, Finish, Draining
  <2>4. Cleaning'
    BY <1>5, <2>1 DEF DeadlineFires, Finish, Counted, Cleaning
  <2>5. Succeeding'
    BY <1>5, <2>1 DEF DeadlineFires, Finish, Succeeding
  <2> QED BY <2>2, <2>3, <2>4, <2>5
<1>6. CASE ServerCloses
  <2>1. Counted'
    <3>1. cleanups' = cleanups \/ (cleanups = 0 /\ cleanups' = cleanups + (IF hasCleanup THEN 1 ELSE 0))
      BY <1>6 DEF ServerCloses, Finish, Cleaning
    <3>2. cleanups' \in {0, 1}
      BY <3>1 DEF Counted
    <3> QED BY <1>6, <3>2 DEF ServerCloses, Finish, Counted
  <2>2. Draining'
    BY <1>6 DEF ServerCloses, Finish, Counted, Draining
  <2>3. Cleaning'
    BY <1>6 DEF ServerCloses, Finish, Counted, Cleaning
  <2>4. Succeeding'
    BY <1>6 DEF ServerCloses, Finish, Succeeding, Cleaning
  <2> QED BY <2>1, <2>2, <2>3, <2>4
<1>7. CASE CleanupSettles \/ CleanupTimesOut
  <2>1. PICK how \in {"done", "failed", "timed out"} : cleanup = "running" /\ Concludes(how)
    BY <1>7 DEF CleanupSettles, CleanupTimesOut
  <2>2. Counted' /\ Draining'
    BY <2>1 DEF Concludes, Counted, Draining
  <2>3. Cleaning'
    BY <2>1 DEF Concludes, Cleaning
  <2>4. Succeeding'
    BY <2>1 DEF Concludes, Succeeding
  <2> QED BY <2>2, <2>3, <2>4
<1>8. CASE UNCHANGED vars
  BY <1>8 DEF vars, Counted, Draining, Cleaning, Succeeding
<1> QED BY <1>1, <1>2, <1>3, <1>4, <1>5, <1>6, <1>7, <1>8 DEF Next

(* A code of 0 is handed to exit only after a clean drain and a cleanup     *)
(* that succeeded, in whichever order the deadline, the close and further   *)
(* signals come (createGracefulShutdown).                                   *)
THEOREM ZeroMeansCleanHolds == Spec => []ZeroMeansClean
<1>1. Init => ShutdownInv
  <2>1. Init => requests \in Nat /\ cleanups \in {0, 1}
    BY DEF Init
  <2>2. Init => /\ shuttingDown \in BOOLEAN /\ deadline \in BOOLEAN /\ overran \in BOOLEAN
                /\ finished \in BOOLEAN /\ hasCleanup \in BOOLEAN /\ exiting \in BOOLEAN
    BY DEF Init
  <2>3. Init => Draining
    BY DEF Init, Draining
  <2>4. Init => Cleaning /\ Succeeding
    BY DEF Init, Cleaning, Succeeding
  <2> QED BY <2>1, <2>2, <2>3, <2>4 DEF ShutdownInv, Counted
<1>2. ShutdownInv /\ [Next]_vars => ShutdownInv'
  BY ShutdownKeeps
<1>3. ShutdownInv => ZeroMeansClean
  BY ShutdownInvProves
<1> QED BY <1>1, <1>2, <1>3, PTL DEF Spec

-----------------------------------------------------------------------------
(* The process.                                                             *)

(* What the process does to its server and its shutdown is a step of the    *)
(* shutdown, or none: requests and rotations are told apart by what else    *)
(* they change, and no gate writes what the shutdown reads.                 *)
THEOREM ProcessShutsDown == ProcessSpec => Spec
<1>1. ProcessInit => Init
  BY DEF ProcessInit
<1>2. [ProcessNext]_allVars => [Next]_vars
  <2> SUFFICES ASSUME [ProcessNext]_allVars PROVE [Next]_vars
    OBVIOUS
  <2>1. CASE Serves
    BY <2>1 DEF Serves, CallArrives, Probed, CallerGate, ReadBody, ParseBody, AuthenticateCall,
         DecideCall, CallEnds, CallerLeaves, Closes, KeysTurn, OtherArrives, OtherEnds, Next
  <2>2. CASE Drains
    BY <2>2 DEF Drains, Next
  <2>3. CASE DrainDeadline
    BY <2>3 DEF DrainDeadline, Next
  <2>4. CASE CleansUp
    BY <2>4 DEF CleansUp, Next
  <2>5. CASE Stops
    BY <2>5 DEF Stops, Next
  <2>6. CASE Deploys
    BY <2>6 DEF Deploys, Mint, Tick, StageIncoming, IssuerMoves, SwapRoles, Restart
  <2>7. CASE UNCHANGED allVars
    BY <2>7 DEF allVars
  <2> QED BY <2>1, <2>2, <2>3, <2>4, <2>5, <2>6, <2>7 DEF ProcessNext
<1> QED BY <1>1, <1>2, PTL DEF ProcessSpec, Spec

(* So a process that exits with 0 while it serves has drained cleanly.      *)
THEOREM ProcessZeroMeansClean == ProcessSpec => []ZeroMeansClean
BY ProcessShutsDown, ZeroMeansCleanHolds, PTL

-----------------------------------------------------------------------------
(* The watched request.                                                     *)

VerdictWhen(up) ==
  authenticate(Authenticator(config), call.req.header, now,
               IF up THEN "answered" ELSE "failed", IF up THEN Published ELSE {})

Known == CallerPasses(resolveCallerAuth(config), call.req.caller)
Sound == bodyFailure(call.req.body, config) = ABSENT
Usable == Sound /\ parseBody(call.req.route, call.req.body.value, config) = "ok"
Accepted == \E up \in BOOLEAN : VerdictWhen(up) = "ok"

(* What a request has passed, by the place it has come to; what was spent   *)
(* on it stays spent.                                                       *)
Passage(at, spent) ==
  /\ at \in {"body", "parse", "auth", "decide"} => Known
  /\ at \in {"parse", "auth", "decide"} => Sound
  /\ at \in {"auth", "decide"} => Usable
  /\ at = "decide" => "token" \in spent /\ Accepted

Spending(spent) ==
  /\ "body" \in spent => Known
  /\ "token" \in spent => Usable
  /\ "decision" \in spent => "token" \in spent /\ Accepted

(* The probe is mounted ahead of every gate, and no other request meets it. *)
Probing(at, spent) ==
  /\ at = "probe" => call.req.route = "/_healthcheck"
  /\ call.req.route = "/_healthcheck" => at \in {"probe", "done", "gone"} /\ spent = {}

Answering(answer, spent) ==
  /\ answer # NONE /\ answer.code = "allow" =>
       "decision" \in spent /\ call.req.decision = "allow"
  /\ answer # NONE /\ answer.code = "invalid_token" =>
       \/ \E up \in BOOLEAN : VerdictWhen(up) = "invalid_token"
       \/ call.req.decision = "invalid_token"

Named(id) == id # ABSENT => id.safe

Moment(at, spent, answer, id) ==
  Passage(at, spent) /\ Spending(spent) /\ Probing(at, spent)
    /\ Answering(answer, spent) /\ Named(id)

WatchInv ==
  /\ life \in Lives /\ keysUp \in BOOLEAN
  /\ ~Rotating => step = "settled" /\ now = 0 /\ config = StartedWith(life.config)
  /\ call # NONE =>
       /\ call = [req |-> call.req, at |-> call.at, open |-> call.open, spent |-> call.spent,
                  answer |-> call.answer, id |-> call.id]
       /\ call.req \in Requests /\ life.calls > 0 /\ config # NONE
       /\ Moment(call.at, call.spent, call.answer, call.id)

(* What a request has passed depends on itself, on the configuration and on *)
(* the time, and on nothing else.                                           *)
LEMMA FactsStand ==
  ASSUME call'.req = call.req, config' = config, now' = now
  PROVE  /\ Known' <=> Known
         /\ Sound' <=> Sound
         /\ Usable' <=> Usable
         /\ \A up : VerdictWhen(up)' = VerdictWhen(up)
         /\ Accepted' <=> Accepted
<1>1. \A up : VerdictWhen(up)' = VerdictWhen(up)
  BY DEF VerdictWhen, Published
<1>2. Accepted' <=> Accepted
  BY <1>1 DEF Accepted
<1>3. (Known' <=> Known) /\ (Sound' <=> Sound) /\ (Usable' <=> Usable)
  BY DEF Known, Sound, Usable
<1> QED BY <1>1, <1>2, <1>3

(* A verdict is one of five codes.                                          *)
LEMMA VerdictCodes ==
  \A up : VerdictWhen(up) \in {"ok", "missing_token", "unsupported_scheme",
                               "verification_unavailable", "invalid_token"}
BY DEF VerdictWhen, authenticate

(* A request that comes to a place with what that place asks of it.         *)
LEMMA CallMoves ==
  ASSUME WatchInv, call # NONE, UNCHANGED <<life, config, now, step>>, keysUp' \in BOOLEAN,
         NEW at, NEW open, NEW spent, NEW answer, NEW id,
         call' = [req |-> call.req, at |-> at, open |-> open, spent |-> spent,
                  answer |-> answer, id |-> id],
         Moment(at, spent, answer, id)
  PROVE  WatchInv'
<1>1. /\ call'.req = call.req /\ call'.at = at /\ call'.open = open /\ call'.spent = spent
      /\ call'.answer = answer /\ call'.id = id
  OBVIOUS
<1>2. Moment(at, spent, answer, id)'
  <2>1. (\E up \in BOOLEAN : VerdictWhen(up) = "invalid_token")'
          <=> \E up \in BOOLEAN : VerdictWhen(up) = "invalid_token"
    BY <1>1, FactsStand
  <2>2. Passage(at, spent)' /\ Spending(spent)' /\ Probing(at, spent)'
    BY <1>1, FactsStand DEF Moment, Passage, Spending, Probing
  <2>3. Answering(answer, spent)' /\ Named(id)'
    BY <1>1, <2>1 DEF Moment, Answering, Named
  <2> QED BY <2>2, <2>3 DEF Moment
<1>3. Moment(call.at, call.spent, call.answer, call.id)'
  BY <1>1, <1>2
<1> QED BY <1>1, <1>3 DEF WatchInv, Rotating, StartedWith

(* What else the request is while it moves: a record of what it was.        *)
LEMMA CallIs ==
  ASSUME WatchInv, call # NONE
  PROVE  /\ call = [req |-> call.req, at |-> call.at, open |-> call.open, spent |-> call.spent,
                    answer |-> call.answer, id |-> call.id]
         /\ Moment(call.at, call.spent, call.answer, call.id)
BY DEF WatchInv

(* A request that is answered, or goes on, is otherwise what it was.        *)
LEMMA CallGoes ==
  ASSUME WatchInv, call # NONE
  PROVE  /\ \A a : Answers(a) =>
              call' = [req |-> call.req, at |-> "done", open |-> call.open, spent |-> call.spent,
                       answer |-> a, id |-> call.id]
         /\ \A place : Goes(place) =>
              call' = [req |-> call.req, at |-> place, open |-> call.open, spent |-> call.spent,
                       answer |-> call.answer, id |-> call.id]
BY CallIs DEF Answers, Goes

(* The steps that leave the request where it is keep the invariant.         *)
LEMMA CallRests ==
  ASSUME WatchInv, UNCHANGED <<life, call>>, keysUp' \in BOOLEAN, ~Rotating => step' = step,
         ~Rotating => config' = config /\ now' = now
  PROVE  WatchInv'
<1>1. CASE call = NONE
  BY <1>1 DEF WatchInv, Rotating, StartedWith
<1>2. CASE call # NONE
  BY <1>2, CallIs, CallMoves, LifeAssumption DEF WatchInv, Rotating
<1> QED BY <1>1, <1>2

(* A request that comes has passed nothing.                                 *)
LEMMA ArrivingKeeps == ASSUME WatchInv, CallArrives PROVE WatchInv'
<1>1. PICK r \in Requests :
        call' = [req |-> r, at |-> IF r.route = "/_healthcheck" THEN "probe" ELSE "gate",
                 open |-> TRUE, spent |-> {}, answer |-> NONE, id |-> ABSENT]
  BY DEF CallArrives
<1>2. Moment(call.at, call.spent, call.answer, call.id)'
  BY <1>1 DEF Moment, Passage, Spending, Probing, Answering, Named
<1> QED BY <1>1, <1>2 DEF WatchInv, CallArrives, world, rotation, Up, Rotating, StartedWith

(* The gates, one at a time.                                                *)
LEMMA GatesKeep ==
  ASSUME WatchInv, Probed \/ CallerGate \/ ReadBody \/ ParseBody PROVE WatchInv'
<1>1. /\ call # NONE /\ UNCHANGED <<life, config, now, step>> /\ keysUp' \in BOOLEAN
      /\ Moment(call.at, call.spent, call.answer, call.id)
  BY DEF WatchInv, Probed, CallerGate, ReadBody, ParseBody, At, InFlight, world, rotation
<1>2. CASE Probed
  <2>1. /\ call.at = "probe"
        /\ call' = [req |-> call.req, at |-> "done", open |-> call.open, spent |-> call.spent,
                    answer |-> Answered(200, "ok"), id |-> call.id]
    BY <1>1, <1>2, CallGoes DEF Probed, At
  <2>2. Moment("done", call.spent, Answered(200, "ok"), call.id)
    BY <1>1, <2>1 DEF Moment, Passage, Spending, Probing, Answering, Named, Answered
  <2> QED BY <1>1, <2>1, <2>2, CallMoves
<1>3. CASE CallerGate /\ Known
  <2>1. /\ call.at = "gate"
        /\ call' = [req |-> call.req, at |-> "body", open |-> call.open, spent |-> call.spent,
                    answer |-> call.answer, id |-> call.id]
    BY <1>1, <1>3, CallGoes DEF CallerGate, At, Known
  <2>2. Moment("body", call.spent, call.answer, call.id)
    BY <1>1, <1>3, <2>1 DEF Moment, Passage, Spending, Probing, Answering, Named
  <2> QED BY <1>1, <2>1, <2>2, CallMoves
<1>4. CASE CallerGate /\ ~Known
  <2>1. /\ call.at = "gate"
        /\ call' = [req |-> call.req, at |-> "done", open |-> call.open, spent |-> call.spent,
                    answer |-> Answered(401, "caller_unauthenticated"), id |-> call.id]
    BY <1>1, <1>4, CallGoes DEF CallerGate, At, Known
  <2>2. Moment("done", call.spent, Answered(401, "caller_unauthenticated"), call.id)
    BY <1>1, <2>1 DEF Moment, Passage, Spending, Probing, Answering, Named, Answered
  <2> QED BY <1>1, <2>1, <2>2, CallMoves
<1>5. CASE ReadBody
  <2> DEFINE id == acceptRequestId(call.req.id)
             spent == call.spent \cup {"body"}
  <2>1. PICK failure \in {bodyFailure(call.req.body, config), "request.aborted"} :
          /\ call.at = "body"
          /\ call' = [req |-> call.req, at |-> IF failure = ABSENT THEN "parse" ELSE "done",
                      open |-> call.open, spent |-> spent,
                      answer |-> IF failure = ABSENT THEN NONE ELSE bodyParserFailure(failure),
                      id |-> id]
    BY <1>1, <1>5, CallIs DEF ReadBody, At
  <2>2. id # ABSENT => id.safe
    BY DEF acceptRequestId
  <2>3. Named(id) /\ Spending(spent) /\ Known /\ Probing("parse", spent) /\ Probing("done", spent)
    BY <1>1, <2>1, <2>2 DEF Moment, Passage, Spending, Probing, Named
  <2>4. bodyParserFailure(failure).code \notin {"allow", "invalid_token"}
    BY DEF bodyParserFailure, Answered
  <2>5. Moment("parse", spent, NONE, id) \/ failure # ABSENT
    BY <1>1, <2>1, <2>3, GatesAssumption DEF Moment, Passage, Answering, Sound
  <2>6. Moment("done", spent, bodyParserFailure(failure), id)
    BY <1>1, <2>3, <2>4 DEF Moment, Passage, Answering
  <2> QED BY <1>1, <2>1, <2>5, <2>6, CallMoves
<1>6. CASE ParseBody
  <2> DEFINE verdict == parseBody(call.req.route, call.req.body.value, config)
             refusal == IF verdict = "invalid" THEN Answered(400, "invalid_request")
                        ELSE Answered(500, "internal_error")
  <2>1. call.at = "parse" /\ Known /\ Sound
    BY <1>1, <1>6 DEF ParseBody, At, Moment, Passage
  <2>2. CASE verdict = "ok"
    <3>1. call' = [req |-> call.req, at |-> "auth", open |-> call.open, spent |-> call.spent,
                   answer |-> call.answer, id |-> call.id]
      BY <1>1, <1>6, <2>2, CallGoes DEF ParseBody
    <3>2. Moment("auth", call.spent, call.answer, call.id)
      BY <1>1, <2>1, <2>2 DEF Moment, Passage, Spending, Probing, Usable
    <3> QED BY <1>1, <3>1, <3>2, CallMoves
  <2>3. CASE verdict # "ok"
    <3>1. call' = [req |-> call.req, at |-> "done", open |-> call.open, spent |-> call.spent,
                   answer |-> refusal, id |-> call.id]
      BY <1>1, <1>6, <2>3, CallGoes DEF ParseBody
    <3>2. refusal.code \notin {"allow", "invalid_token"}
      BY DEF Answered
    <3>3. Moment("done", call.spent, refusal, call.id)
      BY <1>1, <3>2 DEF Moment, Passage, Spending, Probing, Answering
    <3> QED BY <1>1, <3>1, <3>3, CallMoves
  <2> QED BY <2>2, <2>3
<1> QED BY <1>2, <1>3, <1>4, <1>5, <1>6

(* The token, and the decision.                                             *)
LEMMA DecidingKeeps ==
  ASSUME WatchInv, AuthenticateCall \/ DecideCall PROVE WatchInv'
<1>1. /\ call # NONE /\ UNCHANGED <<life, config, now, step>> /\ keysUp' \in BOOLEAN
      /\ Moment(call.at, call.spent, call.answer, call.id)
  BY DEF WatchInv, AuthenticateCall, DecideCall, At, InFlight, world, rotation
<1>2. CASE AuthenticateCall
  <2> DEFINE verdict == VerdictWhen(keysUp)
             spent == call.spent \cup {"token"}
  <2>1. call.at = "auth" /\ keysUp \in BOOLEAN /\ verdict = Verdict(config, call.req.header)
    BY <1>2 DEF AuthenticateCall, At, WatchInv, Verdict, VerdictWhen
  <2>2. Usable /\ Spending(spent) /\ Probing("decide", spent) /\ Probing("done", spent) /\ Named(call.id)
    BY <1>1, <2>1 DEF Moment, Passage, Spending, Probing
  <2>3. CASE verdict = "ok"
    <3>1. call' = [req |-> call.req, at |-> "decide", open |-> call.open, spent |-> spent,
                   answer |-> call.answer, id |-> call.id]
      BY <1>1, <1>2, <2>1, <2>3, CallIs DEF AuthenticateCall
    <3>2. Moment("decide", spent, call.answer, call.id)
      BY <1>1, <2>1, <2>2, <2>3 DEF Moment, Passage, Answering, Accepted, Usable
    <3> QED BY <1>1, <3>1, <3>2, CallMoves
  <2>4. CASE verdict # "ok"
    <3> DEFINE refusal == authFailure(verdict)
    <3>1. call' = [req |-> call.req, at |-> "done", open |-> call.open, spent |-> spent,
                   answer |-> refusal, id |-> call.id]
      BY <1>1, <1>2, <2>1, <2>4, CallIs DEF AuthenticateCall
    <3>2. refusal.code = verdict /\ verdict # "allow"
      BY VerdictCodes DEF authFailure, Answered
    <3>3. Moment("done", spent, refusal, call.id)
      BY <2>1, <2>2, <3>2 DEF Moment, Passage, Answering
    <3> QED BY <1>1, <3>1, <3>3, CallMoves
  <2> QED BY <2>3, <2>4
<1>3. CASE DecideCall
  <2> DEFINE spent == call.spent \cup {"decision"}
             verdict == decided(call.req.route, call.req.decision)
             fault == Answered(500, "internal_error")
  <2>1. PICK answer :
          /\ answer \in {NONE, verdict, fault}
          /\ call.at = "decide"
          /\ call' = [call EXCEPT !.at = "done", !.spent = spent, !.answer = answer]
    <3> DEFINE answers == {IF call.req.decision = "throws" THEN fault ELSE verdict}
                            \cup (IF call.open THEN {} ELSE {NONE})
    <3>1. \E answer \in answers :
            call' = [call EXCEPT !.at = "done", !.spent = spent, !.answer = answer]
      BY <1>3, Zenon DEF DecideCall
    <3>2. call.at = "decide"
      BY <1>3 DEF DecideCall, At
    <3>3. answers \subseteq {NONE, verdict, fault}
      OBVIOUS
    <3> HIDE DEF answers, spent, verdict, fault
    <3> QED BY <3>1, <3>2, <3>3
  <2>2. call' = [req |-> call.req, at |-> "done", open |-> call.open, spent |-> spent,
                 answer |-> answer, id |-> call.id]
    <3> HIDE DEF spent, verdict, fault
    <3> QED BY <1>1, <2>1, CallIs
  <2>3. Spending(spent) /\ Probing("done", spent) /\ Named(call.id)
    <3>1. call.req.route # "/_healthcheck"
      BY <1>1, <2>1 DEF Moment, Probing
    <3>2. Accepted /\ "token" \in spent /\ Spending(call.spent)
      BY <1>1, <2>1 DEF Moment, Passage
    <3>3. Spending(spent)
      BY <3>2 DEF Spending
    <3> QED BY <1>1, <3>1, <3>3 DEF Moment, Probing
  <2>4. verdict.code = call.req.decision /\ fault.code = "internal_error"
    BY DEF decided, Answered
  <2>5. Moment("done", spent, answer, call.id)
    BY <2>1, <2>3, <2>4 DEF Moment, Passage, Answering
  <2> QED BY <1>1, <2>2, <2>5, CallMoves
<1> QED BY <1>2, <1>3

(* The connection closes, by whomever; what the request passed stands.      *)
LEMMA ClosingKeeps ==
  ASSUME WatchInv, CallEnds \/ CallerLeaves \/ DrainDeadline PROVE WatchInv'
<1>1. /\ UNCHANGED <<life, config, now, step>> /\ keysUp' \in BOOLEAN
      /\ call # NONE => Moment(call.at, call.spent, call.answer, call.id)
  BY DEF WatchInv, CallEnds, CallerLeaves, Closes, DrainDeadline, world, rotation
<1>2. CASE call' = call
  BY <1>1, <1>2, CallRests
<1>3. CASE call' # call
  <2>1. PICK place \in {"gone", call.at} :
          /\ call # NONE /\ (place = call.at \/ call.at = "done")
          /\ call' = [call EXCEPT !.open = FALSE, !.at = place]
    <3>1. CASE CallEnds \/ CallerLeaves
      BY <3>1 DEF CallEnds, CallerLeaves, Closes, At, InFlight, Open
    <3>2. CASE DrainDeadline
      <4>1. call # NONE /\ call' = [call EXCEPT !.open = FALSE]
        BY <1>3, <3>2 DEF DrainDeadline, Open, InFlight
      <4>2. call' = [call EXCEPT !.open = FALSE, !.at = call.at]
        BY <4>1, CallIs
      <4> QED BY <4>1, <4>2
    <3> QED BY <3>1, <3>2
  <2>2. call' = [req |-> call.req, at |-> place, open |-> FALSE, spent |-> call.spent,
                 answer |-> call.answer, id |-> call.id]
    BY <2>1, CallIs
  <2>3. Moment(place, call.spent, call.answer, call.id)
    BY <1>1, <2>1 DEF Moment, Passage, Probing
  <2> QED BY <1>1, <2>1, <2>2, <2>3, CallMoves
<1> QED BY <1>2, <1>3

(* Each step of the process keeps the invariant.                            *)
LEMMA ProcessKeeps == ASSUME WatchInv, [ProcessNext]_allVars PROVE WatchInv'
<1>1. call # NONE => ~Rotating
  BY LifeAssumption DEF WatchInv, Rotating
<1>2. CASE Serves
  <2>1. CASE KeysTurn \/ OtherArrives \/ OtherEnds
    BY <2>1, CallRests DEF KeysTurn, OtherArrives, OtherEnds, own, rotation, WatchInv
  <2> QED BY <1>2, <2>1, ArrivingKeeps, GatesKeep, DecidingKeeps, ClosingKeeps DEF Serves
<1>3. CASE Drains \/ CleansUp \/ Stops \/ UNCHANGED allVars
  BY <1>3, CallRests DEF Drains, CleansUp, Stops, own, allVars, WatchInv
<1>4. CASE DrainDeadline
  BY <1>4, ClosingKeeps
<1>5. CASE Deploys
  <2>1. CASE Mint \/ Tick \/ StageIncoming \/ Restart
    BY <1>1, <2>1, CallRests DEF Mint, Tick, StageIncoming, Restart, rotation, WatchInv
  <2>2. CASE IssuerMoves \/ SwapRoles
    <3>1. Rotating
      BY <2>2 DEF IssuerMoves, SwapRoles, WatchInv
    <3> QED BY <2>2, <3>1, CallRests DEF IssuerMoves, SwapRoles, WatchInv
  <2> QED BY <1>5, <2>1, <2>2 DEF Deploys
<1> QED BY <1>2, <1>3, <1>4, <1>5 DEF ProcessNext

(* A life may be any of Lives: no request has come, no rotation has begun.  *)
THEOREM WatchInvariance == ProcessSpec => []WatchInv
<1>1. ProcessInit => WatchInv
  BY DEF ProcessInit, WatchInv
<1>2. WatchInv /\ [ProcessNext]_allVars => WatchInv'
  BY ProcessKeeps
<1> QED BY <1>1, <1>2, PTL DEF ProcessSpec

(* Whatever a request carries and a configuration says, each gate is passed *)
(* before the next one spends anything, an allow has passed them all, and   *)
(* only a safe id is echoed (createVerifyRouter's order of handlers).       *)
THEOREM GatesInOrderHold == ProcessSpec => []GatesInOrder
<1>1. WatchInv => GatesInOrder
  BY DEF WatchInv, Moment, Spending, Probing, Answering, Named, Known, Sound, Usable, GatesInOrder
<1> QED BY <1>1, WatchInvariance, PTL

-----------------------------------------------------------------------------
(* The token's gate.  It is judged by one issuer's word: no leeway for its  *)
(* clock, no other issuer or token type, no secret on its way out.          *)
Strict(c) ==
  /\ c.jwt.mode \notin {ABSENT, "insecure-decode"}
  /\ c.jwt.issuer = {"iss"} /\ c.jwt.tokenType = "at+jwt" /\ c.jwt.previous = ABSENT
  /\ resolveBound(c, "clockToleranceSeconds") = 0
  /\ resolveBound(c, "maxTokenAgeSeconds") \in Nat

(* What a token says beyond Genuine, as whoever signs for the issuer of c   *)
(* writes it: for this verifier, not bound to a key, minted now, and under  *)
(* its kid or none.                                                         *)
Minted(t, c) ==
  /\ t.cnf = FALSE /\ t.iat = 0 /\ t.exp \notin {ABSENT, MALFORMED} /\ t.nbf # MALFORMED
  /\ IF c.jwt.audienceClaim \in {ABSENT, "aud"} THEN joseAudienceMatches(t.aud, c.jwt.audience)
     ELSE audienceMatches(t.azp, c.jwt.audience)
  /\ t.alg = "HS256" => t.kid \in {ABSENT, c.jwt.kid}

Watching(l) == Effective(l.config, l.fromFile)

(* The HS256 resolver of a configuration with no rotation holds one secret. *)
LEMMA OneSecret ==
  ASSUME NEW jwt, jwt.previous = ABSENT, NEW t,
         NEW current, current = SecretKey(jwt.secret, EncodingOf(jwt.encoding))
  PROVE  LET keys == rotatingKeys(Hs256Keys(jwt), current, t, now)
         IN /\ keys \subseteq {current}
            /\ t.kid \in {ABSENT, jwt.kid} => keys = {current}
<1> DEFINE held == [kid |-> jwt.kid, key |-> current, until |-> ABSENT]
<1>1. Hs256Keys(jwt) = {held}
  <2>1. previousSecrets(jwt) = <<>> /\ DOMAIN <<>> = {}
    BY DEF previousSecrets
  <2> QED BY <2>1 DEF Hs256Keys
<1>2. {k \in {held} : isLive(k, now)} = {held}
  BY DEF isLive
<1>3. CASE t.kid = ABSENT
  BY <1>1, <1>2, <1>3 DEF rotatingKeys
<1>4. CASE t.kid # ABSENT
  <2>1. rotatingKeys(Hs256Keys(jwt), current, t, now)
          = {k.key : k \in {e \in {held} : e.kid = t.kid}}
    BY <1>1, <1>2, <1>4 DEF rotatingKeys
  <2>2. CASE t.kid = jwt.kid
    <3>1. {e \in {held} : e.kid = t.kid} = {held}
      BY <2>2
    <3>2. {k.key : k \in {held}} = {current}
      OBVIOUS
    <3> QED BY <2>1, <3>1, <3>2
  <2>3. CASE t.kid # jwt.kid
    <3>1. {e \in {held} : e.kid = t.kid} = {}
      BY <2>3
    <3> QED BY <1>4, <2>1, <2>3, <3>1
  <2> QED BY <2>2, <2>3
<1> QED BY <1>3, <1>4

(* The key a strict verifier takes is its issuer's, while it can be had.    *)
LEMMA OneKey ==
  ASSUME NEW c, Strict(c), NEW t, NEW up \in BOOLEAN
  PROVE  LET keys == KeysFor(Authenticator(c), t, now, IF up THEN Published ELSE {})
         IN /\ keys \subseteq {IssuerKey(c.jwt)}
            /\ /\ up \/ c.jwt.algorithm = "HS256" \/ c.jwt.jwksUri \in {ABSENT, ""}
               /\ c.jwt.algorithm = "HS256" => t.kid \in {ABSENT, c.jwt.kid}
               => keys = {IssuerKey(c.jwt)}
<1>1. CASE c.jwt.algorithm = "HS256"
  <2> DEFINE jwt == Authenticator(c)
             current == SecretKey(jwt.secret, EncodingOf(jwt.encoding))
             keys == KeysFor(jwt, t, now, IF up THEN Published ELSE {})
  <2>1. /\ jwt.algorithm = "HS256" /\ jwt.previous = ABSENT /\ jwt.kid = c.jwt.kid
        /\ jwt.secret = c.jwt.secret /\ jwt.encoding = c.jwt.encoding
    BY <1>1 DEF Authenticator, Strict
  <2>2. IssuerKey(c.jwt) = current
    BY <1>1, <2>1 DEF IssuerKey
  <2> HIDE DEF jwt
  <2>3. /\ rotatingKeys(Hs256Keys(jwt), current, t, now) \subseteq {current}
        /\ t.kid \in {ABSENT, jwt.kid} =>
             rotatingKeys(Hs256Keys(jwt), current, t, now) = {current}
    BY <2>1, OneSecret
  <2>4. keys \in {{current}, rotatingKeys(Hs256Keys(jwt), current, t, now)}
    BY <2>1 DEF KeysFor
  <2> HIDE DEF keys, current
  <2>5. keys \subseteq {current} /\ (t.kid \in {ABSENT, c.jwt.kid} => keys = {current})
    BY <2>1, <2>3, <2>4
  <2> QED BY <1>1, <2>2, <2>5 DEF keys, jwt
<1>2. CASE c.jwt.algorithm # "HS256"
  BY <1>2 DEF KeysFor, Authenticator, IssuerKey, Published
<1> QED BY <1>1, <1>2

(* What a strict verifier accepts is genuine.                               *)
LEMMA AcceptedIsGenuine ==
  ASSUME Strict(config), now = 0, Accepted
  PROVE  call.req.header # ABSENT /\ Genuine(call.req.header.token)
<1> DEFINE jwt == Authenticator(config)
           t == call.req.header.token
<1>1. PICK up \in BOOLEAN : VerdictWhen(up) = "ok"
  BY DEF Accepted
<1> DEFINE keys == KeysFor(jwt, t, now, IF up THEN Published ELSE {})
<1>2. jwt.mode # "insecure-decode"
  BY DEF Authenticator, Default, Strict
<1>3. call.req.header # ABSENT /\ t.alg = jwt.algorithm /\ Verified(jwt, t, keys, now)
  BY <1>1, <1>2 DEF VerdictWhen, authenticate
<1>4. keys \subseteq {IssuerKey(config.jwt)}
  BY OneKey
<1>5. /\ jwt.algorithm = config.jwt.algorithm /\ jwt.issuer = {"iss"} /\ jwt.tokenType = "at+jwt"
      /\ jwt.tolerance = 0
  BY DEF Authenticator, Strict
<1>6. /\ t.signer \in keys /\ t.iss \in jwt.issuer
      /\ jwt.tokenType = "*" \/ t.typ = jwt.tokenType
      /\ assertTimeClaims(t, jwt.maxTokenAge, jwt.tolerance, now)
  BY <1>3 DEF Verified
<1>7. t.exp > now /\ (t.nbf = ABSENT \/ t.nbf <= now)
  BY <1>5, <1>6 DEF assertTimeClaims
<1> QED BY <1>3, <1>4, <1>5, <1>6, <1>7 DEF Genuine

(* A genuine token, minted for this verifier, is never called invalid: its  *)
(* keys not being there is another answer.                                  *)
LEMMA GenuineIsAccepted ==
  ASSUME Strict(config), now = 0, call.req.header # ABSENT, call.req.header.token # ABSENT,
         Minted(call.req.header.token, config), Genuine(call.req.header.token),
         NEW up \in BOOLEAN
  PROVE  VerdictWhen(up) # "invalid_token"
<1> DEFINE jwt == Authenticator(config)
           t == call.req.header.token
           keys == KeysFor(jwt, t, now, IF up THEN Published ELSE {})
<1>1. /\ jwt.mode # "insecure-decode"
      /\ jwt.algorithm = config.jwt.algorithm /\ jwt.issuer = {"iss"} /\ jwt.tokenType = "at+jwt"
      /\ jwt.tolerance = 0 /\ jwt.maxTokenAge \in Nat /\ jwt.jwksUri = config.jwt.jwksUri
      /\ jwt.audienceClaim = config.jwt.audienceClaim /\ jwt.audience = config.jwt.audience
  BY DEF Authenticator, Default, Strict
<1>2. CASE up \/ jwt.algorithm = "HS256" \/ jwt.jwksUri \in {ABSENT, ""}
  <2>1. t.alg = jwt.algorithm /\ keys = {IssuerKey(config.jwt)}
    <3>1. t.alg = config.jwt.algorithm /\ (t.alg = "HS256" => t.kid \in {ABSENT, config.jwt.kid})
      BY DEF Genuine, Minted
    <3>2. up \/ config.jwt.algorithm = "HS256" \/ config.jwt.jwksUri \in {ABSENT, ""}
      BY <1>1, <1>2
    <3>3. keys = {IssuerKey(config.jwt)}
      <4> HIDE DEF jwt, t
      <4> QED BY <3>1, <3>2, OneKey DEF jwt
    <3> QED BY <1>1, <3>1, <3>3
  <2>2. assertTimeClaims(t, jwt.maxTokenAge, jwt.tolerance, now)
    BY <1>1 DEF Genuine, Minted, assertTimeClaims
  <2>3. Verified(jwt, t, keys, now)
    BY <1>1, <2>1, <2>2 DEF Genuine, Minted, Verified
  <2> QED BY <1>1, <2>1, <2>3 DEF VerdictWhen, authenticate, Minted
<1>3. CASE ~up /\ jwt.algorithm # "HS256" /\ jwt.jwksUri \notin {ABSENT, ""}
  <2>1. isVerificationUnavailable(jwt, t, "failed")
    BY <1>1, <1>3 DEF isVerificationUnavailable, Genuine
  <2> QED BY <1>1, <1>3, <2>1 DEF VerdictWhen, authenticate
<1> QED BY <1>2, <1>3

(* Where a watched request is judged by one issuer's word, and its token is *)
(* otherwise as that issuer mints it, every answer is earned: nothing is    *)
(* decided for a token the issuer does not stand behind, none it stands     *)
(* behind is called invalid, whether its keys can be fetched or not         *)
(* (tokenAuthenticator.mts).                                                *)
THEOREM AnswersEarnedHolds ==
  ASSUME \A l \in Lives : l.calls > 0 => Strict(Watching(l)),
         \A l \in Lives : \A r \in Requests :
           l.calls > 0 /\ r.header # ABSENT /\ r.header.token # ABSENT =>
             Minted(r.header.token, Watching(l)),
         \A r \in Requests : r.decision # "invalid_token"
  PROVE  ProcessSpec => []AnswersEarned
<1>1. WatchInv => AnswersEarned
  <2> SUFFICES ASSUME WatchInv PROVE AnswersEarned
    OBVIOUS
  <2>1. GatesInOrder
    BY DEF WatchInv, Moment, Spending, Probing, Answering, Named, Known, Sound, Usable, GatesInOrder
  <2>2. ASSUME call # NONE
        PROVE  /\ config = Watching(life) /\ now = 0 /\ Strict(config)
               /\ life \in Lives /\ life.calls > 0 /\ call.req \in Requests
               /\ Moment(call.at, call.spent, call.answer, call.id)
    BY <2>2, LifeAssumption DEF WatchInv, Rotating, StartedWith, Watching
  <2>3. ASSUME call # NONE, "decision" \in call.spent
        PROVE  call.req.header # ABSENT /\ Genuine(call.req.header.token)
    BY <2>2, <2>3, AcceptedIsGenuine DEF Moment, Spending
  <2>4. ASSUME call # NONE, call.answer # NONE, call.answer.code = "invalid_token"
        PROVE  ~Genuine(call.req.header.token)
    <3>1. PICK up \in BOOLEAN : VerdictWhen(up) = "invalid_token"
      BY <2>2, <2>4 DEF Moment, Answering
    <3>2. call.req.header # ABSENT /\ call.req.header.token # ABSENT
      BY <3>1 DEF VerdictWhen, authenticate
    <3>3. Minted(call.req.header.token, config)
      BY <2>2, <2>4, <3>2
    <3> QED BY <2>2, <2>4, <3>1, <3>2, <3>3, GenuineIsAccepted
  <2> QED BY <2>1, <2>3, <2>4 DEF AnswersEarned
<1> QED BY <1>1, WatchInvariance, PTL

-----------------------------------------------------------------------------
(* What is not there is no block, list or record.                           *)
Atomic(x) == x # [i \in DOMAIN x |-> x[i]]

(* The rotation.  A version of a configuration differs in what the rotation *)
(* rewrites of it.                                                          *)
LEMMA RewrittenIs ==
  ASSUME Atomic(ABSENT), NEW b, Written(b), b.jwt # ABSENT, NEW kid, NEW secret, NEW previous
  PROVE  LET g == Rewritten(b, kid, secret, previous) IN
         /\ Written(g) /\ g.jwt # ABSENT
         /\ g.jwt.kid = kid /\ g.jwt.secret = secret /\ g.jwt.previous = previous
         /\ \A field \in JwtFields \ {"kid", "secret", "previous"} : g.jwt[field] = b.jwt[field]
         /\ \A field \in ConfigFields \ {"jwt"} : g[field] = b[field]
<1> DEFINE g == Rewritten(b, kid, secret, previous)
           block == [field \in JwtFields |->
                       CASE field = "kid" -> kid [] field = "secret" -> secret
                         [] field = "previous" -> previous [] OTHER -> b.jwt[field]]
<1>1. b = [field \in ConfigFields |-> b[field]] /\ b.jwt = [field \in JwtFields |-> b.jwt[field]]
  BY DEF Written
<1>2. DOMAIN b = ConfigFields /\ DOMAIN b.jwt = JwtFields
  BY <1>1
<1>3. g = [field \in ConfigFields |-> IF field = "jwt" THEN block ELSE b[field]]
  BY <1>2 DEF Rewritten, ConfigFields, JwtFields
<1>4. g.jwt = block /\ \A field \in ConfigFields \ {"jwt"} : g[field] = b[field]
  BY <1>3 DEF ConfigFields
<1>5. block # ABSENT
  BY DEF Atomic
<1>6. Written(g)
  BY <1>3, <1>4 DEF Written
<1>7. /\ block.kid = kid /\ block.secret = secret /\ block.previous = previous
      /\ \A field \in JwtFields \ {"kid", "secret", "previous"} : block[field] = b.jwt[field]
  BY DEF JwtFields
<1> HIDE DEF g, block
<1>8. /\ Written(g) /\ g.jwt # ABSENT
      /\ g.jwt.kid = kid /\ g.jwt.secret = secret /\ g.jwt.previous = previous
      /\ \A field \in JwtFields \ {"kid", "secret", "previous"} : g.jwt[field] = b.jwt[field]
      /\ \A field \in ConfigFields \ {"jwt"} : g[field] = b[field]
  BY <1>4, <1>5, <1>6, <1>7
<1> QED BY <1>8 DEF g

(* Two configurations of the same blocks are the same.                      *)
LEMMA SameBlocks ==
  ASSUME NEW g, NEW h, Written(g), Written(h), g.jwt # ABSENT, h.jwt # ABSENT,
         \A field \in JwtFields : g.jwt[field] = h.jwt[field],
         \A field \in ConfigFields \ {"jwt"} : g[field] = h[field]
  PROVE  g = h
<1>1. g.jwt = h.jwt
  BY DEF Written
<1>2. \A field \in ConfigFields : g[field] = h[field]
  BY <1>1
<1> QED BY <1>2 DEF Written

(* Rewriting again leaves nothing of the first.                             *)
LEMMA RewrittenTwice ==
  ASSUME Atomic(ABSENT), NEW b, Written(b), b.jwt # ABSENT, NEW k, NEW s, NEW p,
         NEW kid, NEW secret, NEW previous
  PROVE  Rewritten(Rewritten(b, k, s, p), kid, secret, previous) = Rewritten(b, kid, secret, previous)
<1> DEFINE g == Rewritten(b, k, s, p)
           h == Rewritten(b, kid, secret, previous)
           i == Rewritten(g, kid, secret, previous)
<1>1. /\ Written(g) /\ g.jwt # ABSENT
      /\ \A field \in JwtFields \ {"kid", "secret", "previous"} : g.jwt[field] = b.jwt[field]
      /\ \A field \in ConfigFields \ {"jwt"} : g[field] = b[field]
  BY RewrittenIs
<1>2. /\ Written(h) /\ h.jwt # ABSENT
      /\ h.jwt.kid = kid /\ h.jwt.secret = secret /\ h.jwt.previous = previous
      /\ \A field \in JwtFields \ {"kid", "secret", "previous"} : h.jwt[field] = b.jwt[field]
      /\ \A field \in ConfigFields \ {"jwt"} : h[field] = b[field]
  BY RewrittenIs
<1> HIDE DEF g, h
<1>3. /\ Written(i) /\ i.jwt # ABSENT
      /\ i.jwt.kid = kid /\ i.jwt.secret = secret /\ i.jwt.previous = previous
      /\ \A field \in JwtFields \ {"kid", "secret", "previous"} : i.jwt[field] = g.jwt[field]
      /\ \A field \in ConfigFields \ {"jwt"} : i[field] = g[field]
  BY <1>1, RewrittenIs
<1> HIDE DEF i
<1>4. \A field \in JwtFields : i.jwt[field] = h.jwt[field]
  BY <1>1, <1>2, <1>3
<1>5. i = h
  BY <1>1, <1>2, <1>3, <1>4, SameBlocks
<1> QED BY <1>5 DEF g, h, i

(* A parsed configuration has what was written, and defaults for what was   *)
(* not.                                                                     *)
LEMMA EffectiveIs ==
  ASSUME Atomic(ABSENT), NEW g, Written(g), g.jwt # ABSENT, NEW fromFile
  PROVE  LET c == Effective(g, fromFile)
             taken(value, default) == IF fromFile THEN Default(value, default) ELSE value
         IN /\ \A field \in JwtFields \ {"mode", "algorithm", "tokenType", "audienceClaim", "encoding"} :
                 c.jwt[field] = g.jwt[field]
            /\ c.jwt.mode = taken(g.jwt.mode, "verify")
            /\ c.jwt.algorithm = taken(g.jwt.algorithm, "HS256")
            /\ c.jwt.tokenType = taken(g.jwt.tokenType, "at+jwt")
            /\ c.jwt.audienceClaim = taken(g.jwt.audienceClaim, "aud")
            /\ c.jwt.encoding = taken(g.jwt.encoding, "utf8")
            /\ \A field \in ConfigFields \ {"jwt"} : c[field] = g[field]
            /\ Written(c) /\ c.jwt # ABSENT
<1>1. /\ g = [field \in ConfigFields |-> g[field]]
      /\ g.jwt = [field \in JwtFields |-> g.jwt[field]]
      /\ DOMAIN g = ConfigFields /\ DOMAIN g.jwt = JwtFields
  BY DEF Written
<1>2. CASE ~fromFile
  BY <1>2 DEF Effective
<1>3. CASE fromFile
  <2> DEFINE jwt == [field \in JwtFields |-> IF field \in DOMAIN Defaults
                                            THEN Default(g.jwt[field], Defaults[field])
                                            ELSE g.jwt[field]]
             c == [g EXCEPT !.jwt = jwt]
  <2>1. c = Effective(g, fromFile)
    <3>1. Effective(g, fromFile) = [g EXCEPT !.jwt = [field \in DOMAIN g.jwt |->
              IF field \in DOMAIN Defaults THEN Default(g.jwt[field], Defaults[field])
              ELSE g.jwt[field]]]
      BY <1>3 DEF Effective, Parsed
    <3> QED BY <1>1, <3>1
  <2>2. "jwt" \in ConfigFields
    BY DEF ConfigFields
  <2>3. /\ \A field \in JwtFields \ {"mode", "algorithm", "tokenType", "audienceClaim", "encoding"} :
             jwt[field] = g.jwt[field]
        /\ jwt.mode = Default(g.jwt.mode, "verify") /\ jwt.algorithm = Default(g.jwt.algorithm, "HS256")
        /\ jwt.tokenType = Default(g.jwt.tokenType, "at+jwt")
        /\ jwt.audienceClaim = Default(g.jwt.audienceClaim, "aud")
        /\ jwt.encoding = Default(g.jwt.encoding, "utf8")
        /\ jwt = [field \in JwtFields |-> jwt[field]]
    BY DEF Defaults, JwtFields
  <2> HIDE DEF jwt
  <2>4. /\ c.jwt = jwt /\ \A field \in ConfigFields \ {"jwt"} : c[field] = g[field]
        /\ c = [field \in ConfigFields |-> c[field]]
    BY <1>1, <2>2
  <2>5. Written(c) /\ c.jwt # ABSENT
    BY <2>3, <2>4 DEF Written, Atomic
  <2> HIDE DEF c
  <2> QED BY <1>3, <2>1, <2>3, <2>4, <2>5
<1> QED BY <1>2, <1>3

-----------------------------------------------------------------------------
(* What the file names as current: the secret the issuer leaves until the   *)
(* roles are swapped, the one it signs with from then on.                   *)
Cur == IF step = "moved" THEN issuer - 1 ELSE issuer

Version(g) == g = Rewritten(life.config, g.jwt.kid, g.jwt.secret, g.jwt.previous)

(* The version the running process was started with.                        *)
Begun == Rewritten(life.config, config.jwt.kid, config.jwt.secret, config.jwt.previous)

(* A secret that signed tokens which have not expired is listed for as long *)
(* as they last.                                                            *)
Covered(listed, i) ==
  \/ /\ i \in DOMAIN listed
     /\ IF i = issuer THEN listed[i].expiresAt > now
        ELSE retired[i] \in Nat /\ listed[i].expiresAt >= retired[i] + TTL
  \/ i # issuer /\ retired[i] \in Nat /\ retired[i] + TTL <= now

(* A version whose current secret is the c-th, in whatever state the world  *)
(* is: it starts a verifier, and every token that counts has its key.       *)
Serving(g, c) ==
  LET listed == previousSecrets(g.jwt) IN
  /\ Version(g) /\ c \in 1..issuer
  /\ g.jwt.secret = Incoming[c].secret
  /\ g.jwt.kid = Kid(c) \/ (g.jwt.kid = ABSENT /\ DOMAIN listed = {})
  /\ g.jwt.previous = ABSENT \/ g.jwt.previous = [i \in DOMAIN listed |-> listed[i]]
  /\ DOMAIN listed \subseteq 1..(life.rotations + 1) \ {c}
  /\ DOMAIN listed \subseteq 1..(issuer + 1)
  /\ \A i \in DOMAIN listed : listed[i] = Entry(i, listed[i].expiresAt) /\ listed[i].expiresAt \in Nat
  /\ \A i \in 1..issuer \ {c} : Covered(listed, i)

Progress ==
  /\ step \in {"settled", "staged", "moved"} /\ issuer \in 1..(life.rotations + 1) /\ now \in Nat
  /\ step = "staged" => issuer <= life.rotations
  /\ step = "moved" => issuer >= 2
  /\ \A i \in DOMAIN Incoming : IF i < Cur THEN retired[i] \in Nat ELSE retired[i] = NONE
  /\ retired = [i \in DOMAIN Incoming |-> retired[i]]

FileInv ==
  /\ Serving(file, Cur)
  /\ DOMAIN Listed \subseteq 1..(IF step = "staged" THEN issuer + 1 ELSE issuer)
  /\ \A i \in DOMAIN Listed : i < Cur => Listed[i].expiresAt <= retired[i] + TTL + Buffer

ConfigInv ==
  /\ config # NONE /\ config = Effective(Begun, life.fromFile)
  /\ \E c \in 1..issuer : Serving(Begun, c)

TokensInv ==
  \A t \in tokens : \E j \in 1..issuer : \E kid \in {Kid(j), ABSENT} : \E iat \in 0..now :
    t = TokenOf(j, kid, iat) /\ now < iat + TTL /\ (retired[j] # NONE => iat <= retired[j])

RotationInv == Rotating => life \in Lives /\ Progress /\ FileInv /\ ConfigInv /\ TokensInv

(* A version says what the deployment's configuration does of all else.     *)
LEMMA VersionFields ==
  ASSUME Atomic(ABSENT), life \in Lives, Rotating, NEW g, Version(g)
  PROVE  LET b == life.config IN
         /\ Written(g) /\ g.jwt # ABSENT
         /\ \A field \in JwtFields \ {"kid", "secret", "previous"} : g.jwt[field] = b.jwt[field]
         /\ \A field \in ConfigFields \ {"jwt"} : g[field] = b[field]
<1> DEFINE b == life.config
           h == Rewritten(b, g.jwt.kid, g.jwt.secret, g.jwt.previous)
<1>1. Written(b) /\ b.jwt # ABSENT
  BY LifeAssumption, RotationAssumption DEF Rotating
<1>2. /\ Written(h) /\ h.jwt # ABSENT
      /\ \A field \in JwtFields \ {"kid", "secret", "previous"} : h.jwt[field] = b.jwt[field]
      /\ \A field \in ConfigFields \ {"jwt"} : h[field] = b[field]
  BY <1>1, RewrittenIs
<1>3. g = h
  BY DEF Version
<1> HIDE DEF h
<1> QED BY <1>2, <1>3

(* Whatever version it was started with, a verifier judges tokens as a      *)
(* rotation supposes.                                                       *)
LEMMA VersionIs ==
  ASSUME Atomic(ABSENT), life \in Lives, Rotating, NEW g, Version(g)
  PROVE  LET c == Effective(g, life.fromFile)
             jwt == Authenticator(c)
         IN /\ Written(g) /\ g.jwt # ABSENT
            /\ c.jwt.kid = g.jwt.kid /\ c.jwt.secret = g.jwt.secret /\ c.jwt.previous = g.jwt.previous
            /\ jwt.kid = g.jwt.kid /\ jwt.secret = g.jwt.secret /\ jwt.previous = g.jwt.previous
            /\ jwt.mode = "verify" /\ jwt.algorithm = "HS256" /\ EncodingOf(jwt.encoding) = "utf8"
            /\ "iss" \in jwt.issuer /\ "api" \in jwt.audience
            /\ jwt.audienceClaim \in {ABSENT, "aud"} /\ jwt.tokenType \in {"*", "at+jwt"}
            /\ jwt.maxTokenAge \in Nat /\ jwt.maxTokenAge >= TTL /\ jwt.tolerance \in Nat
<1> DEFINE b == life.config
           c == Effective(g, life.fromFile)
           d == Effective(b, life.fromFile)
<1>1. Written(b) /\ b.jwt # ABSENT /\ Rotates(d)
  BY LifeAssumption, RotationAssumption DEF Rotating
<1>2. /\ Written(g) /\ g.jwt # ABSENT
      /\ \A field \in JwtFields \ {"kid", "secret", "previous"} : g.jwt[field] = b.jwt[field]
      /\ \A field \in ConfigFields \ {"jwt"} : g[field] = b[field]
  BY VersionFields
<1>3. /\ c.jwt.kid = g.jwt.kid /\ c.jwt.secret = g.jwt.secret /\ c.jwt.previous = g.jwt.previous
      /\ c.jwt.issuer = g.jwt.issuer /\ c.jwt.audience = g.jwt.audience
      /\ c.knob = g.knob
  BY <1>2, EffectiveIs DEF JwtFields, ConfigFields
<1>4. /\ d.jwt.issuer = b.jwt.issuer /\ d.jwt.audience = b.jwt.audience /\ d.knob = b.knob
  BY <1>1, EffectiveIs DEF JwtFields, ConfigFields
<1>5. /\ c.jwt.mode = d.jwt.mode /\ c.jwt.algorithm = d.jwt.algorithm
      /\ c.jwt.tokenType = d.jwt.tokenType /\ c.jwt.audienceClaim = d.jwt.audienceClaim
      /\ c.jwt.encoding = d.jwt.encoding
  <2>1. /\ g.jwt.mode = b.jwt.mode /\ g.jwt.algorithm = b.jwt.algorithm
        /\ g.jwt.tokenType = b.jwt.tokenType /\ g.jwt.audienceClaim = b.jwt.audienceClaim
        /\ g.jwt.encoding = b.jwt.encoding
    BY <1>2 DEF JwtFields
  <2> QED BY <1>1, <1>2, <2>1, EffectiveIs
<1>6. /\ g.jwt.issuer = b.jwt.issuer /\ g.jwt.audience = b.jwt.audience /\ g.knob = b.knob
  BY <1>2 DEF JwtFields, ConfigFields
<1>7. \A name : resolveBound(c, name) = resolveBound(d, name)
  BY <1>3, <1>4, <1>6 DEF resolveBound
<1>8. Rotates(d) => /\ Default(c.jwt.mode, "verify") = "verify"
                    /\ c.jwt.algorithm = "HS256" /\ EncodingOf(c.jwt.encoding) = "utf8"
                    /\ "iss" \in c.jwt.issuer /\ "api" \in c.jwt.audience
                    /\ c.jwt.audienceClaim \in {ABSENT, "aud"} /\ c.jwt.tokenType \in {"*", "at+jwt"}
                    /\ resolveBound(c, "maxTokenAgeSeconds") \in Nat
                    /\ resolveBound(c, "maxTokenAgeSeconds") >= TTL
                    /\ resolveBound(c, "clockToleranceSeconds") \in Nat
  <2> HIDE DEF c, d
  <2> QED BY <1>3, <1>4, <1>5, <1>6, <1>7 DEF Rotates, Default
<1> HIDE DEF c, d
<1>9. /\ Authenticator(c).kid = g.jwt.kid /\ Authenticator(c).secret = g.jwt.secret
      /\ Authenticator(c).previous = g.jwt.previous
      /\ Authenticator(c).mode = "verify" /\ Authenticator(c).algorithm = "HS256"
      /\ EncodingOf(Authenticator(c).encoding) = "utf8"
      /\ "iss" \in Authenticator(c).issuer /\ "api" \in Authenticator(c).audience
      /\ Authenticator(c).audienceClaim \in {ABSENT, "aud"}
      /\ Authenticator(c).tokenType \in {"*", "at+jwt"}
      /\ Authenticator(c).maxTokenAge \in Nat /\ Authenticator(c).maxTokenAge >= TTL
      /\ Authenticator(c).tolerance \in Nat
  BY <1>1, <1>3, <1>8 DEF Authenticator
<1> QED BY <1>2, <1>3, <1>9 DEF c

Shown(t) == [scheme |-> "bearer", token |-> t]

(* A secret is in force while it is the current one or a listed one that is *)
(* live.                                                                    *)
InForce(g, j) ==
  LET listed == previousSecrets(g.jwt) IN
  \/ /\ g.jwt.secret = Incoming[j].secret
     /\ g.jwt.kid = Kid(j) \/ (g.jwt.kid = ABSENT /\ DOMAIN listed = {})
  \/ /\ j \in DOMAIN listed /\ g.jwt.kid # ABSENT
     /\ listed[j] = Entry(j, listed[j].expiresAt) /\ listed[j].expiresAt > now

(* The keys the resolver hands out hold that of a secret in force, with the *)
(* kid or without.                                                          *)
LEMMA KeyInForce ==
  ASSUME RotationAssumption, NEW g, NEW j \in DOMAIN Incoming, InForce(g, j),
         NEW jwt, jwt.kid = g.jwt.kid, jwt.secret = g.jwt.secret, jwt.previous = g.jwt.previous,
         jwt.algorithm = "HS256", EncodingOf(jwt.encoding) = "utf8",
         NEW t, t.kid \in {Kid(j), ABSENT}, t.signer = SecretKey(Incoming[j].secret, "utf8"),
         NEW published
  PROVE  t.signer \in KeysFor(jwt, t, now, published)
<1> DEFINE listed == previousSecrets(g.jwt)
           current == SecretKey(jwt.secret, "utf8")
           held == Hs256Keys(jwt)
           live == {k \in held : isLive(k, now)}
<1>1. previousSecrets(jwt) = listed
  BY DEF previousSecrets
<1>2. CASE g.jwt.kid = ABSENT /\ DOMAIN listed = {}
  <2>1. g.jwt.secret = Incoming[j].secret
    BY <1>2 DEF InForce
  <2> QED BY <1>1, <1>2, <2>1 DEF KeysFor
<1>3. CASE ~(g.jwt.kid = ABSENT /\ DOMAIN listed = {})
  <2>1. PICK e \in held : e.kid = Kid(j) /\ e.key = t.signer /\ isLive(e, now)
    <3>1. CASE g.jwt.secret = Incoming[j].secret /\ g.jwt.kid = Kid(j)
      <4> DEFINE e == [kid |-> jwt.kid, key |-> SecretKey(jwt.secret, "utf8"), until |-> ABSENT]
      <4>1. e \in held
        BY DEF Hs256Keys
      <4>2. e.kid = Kid(j) /\ e.key = t.signer /\ isLive(e, now)
        BY <3>1 DEF isLive
      <4> QED BY <4>1, <4>2
    <3>2. CASE /\ j \in DOMAIN listed /\ g.jwt.kid # ABSENT
               /\ listed[j] = Entry(j, listed[j].expiresAt) /\ listed[j].expiresAt > now
      <4> DEFINE e == [kid |-> listed[j].kid, key |-> SecretKey(listed[j].secret, "utf8"),
                       until |-> listed[j].expiresAt]
      <4>1. e \in held
        BY <1>1, <3>2 DEF Hs256Keys
      <4>2. listed[j].kid = Kid(j) /\ listed[j].secret = Incoming[j].secret
        BY <3>2 DEF Entry
      <4>3. e.kid = Kid(j) /\ e.key = t.signer /\ isLive(e, now)
        BY <3>2, <4>2 DEF isLive
      <4> QED BY <4>1, <4>3
    <3> QED BY <1>3, <3>1, <3>2 DEF InForce
  <2>2. e \in live
    BY <2>1
  <2> HIDE DEF held
  <2>3. t.signer \in rotatingKeys(held, current, t, now)
    <3>1. CASE t.kid # ABSENT
      <4>1. e \in {k \in live : k.kid = t.kid}
        BY <2>1, <2>2, <3>1
      <4> QED BY <2>1, <3>1, <4>1 DEF rotatingKeys
    <3>2. CASE t.kid = ABSENT
      <4>1. e \in {k \in live : k.key = t.signer}
        BY <2>1, <2>2
      <4>2. {k \in live : k.key = t.signer} # {}
        BY <4>1
      <4> QED BY <3>2, <4>2 DEF rotatingKeys
    <3> QED BY <3>1, <3>2
  <2> QED BY <1>1, <1>3, <2>3 DEF KeysFor, held
<1> QED BY <1>2, <1>3

(* A number is neither absent nor malformed.                                *)
LEMMA NumbersAreThere == ASSUME NEW n \in Nat PROVE n \notin {ABSENT, MALFORMED, NONE}
  BY LifeAssumption

(* A verifier accepts what the holder of a secret in force minted for it    *)
(* and has not expired.                                                     *)
LEMMA VersionServes ==
  ASSUME Atomic(ABSENT), Atomic(MALFORMED), life \in Lives, Rotating, now \in Nat,
         NEW g, Version(g), NEW j \in DOMAIN Incoming, InForce(g, j),
         NEW kid \in {Kid(j), ABSENT}, NEW iat \in 0..now, now < iat + TTL
  PROVE  Verdict(Effective(g, life.fromFile), Shown(TokenOf(j, kid, iat))) = "ok"
<1> DEFINE c == Effective(g, life.fromFile)
           jwt == Authenticator(c)
           t == TokenOf(j, kid, iat)
           header == Shown(t)
<1>1. /\ jwt.kid = g.jwt.kid /\ jwt.secret = g.jwt.secret /\ jwt.previous = g.jwt.previous
      /\ jwt.mode = "verify" /\ jwt.algorithm = "HS256" /\ EncodingOf(jwt.encoding) = "utf8"
      /\ "iss" \in jwt.issuer /\ "api" \in jwt.audience
      /\ jwt.audienceClaim \in {ABSENT, "aud"} /\ jwt.tokenType \in {"*", "at+jwt"}
      /\ jwt.maxTokenAge \in Nat /\ jwt.maxTokenAge >= TTL /\ jwt.tolerance \in Nat
  BY VersionIs
<1>2. /\ t.alg = "HS256" /\ t.kid = kid /\ t.signer = SecretKey(Incoming[j].secret, "utf8")
      /\ t.typ = "at+jwt" /\ t.iss = "iss" /\ t.cnf = FALSE /\ t.iat = iat /\ t.nbf = ABSENT
      /\ t.exp = iat + TTL /\ t.aud = [kind |-> "string", has |-> {"api"}]
  BY DEF TokenOf
<1>3. header.scheme = "bearer" /\ header.token = t /\ header # ABSENT /\ t # ABSENT
  BY DEF Shown, TokenOf, Atomic
<1> HIDE DEF c, jwt, t, header
<1>4. \A published : t.signer \in KeysFor(jwt, t, now, published)
  BY <1>1, <1>2, RotationAssumption, KeyInForce
<1>5. assertTimeClaims(t, jwt.maxTokenAge, jwt.tolerance, now)
  <2>1. iat \in Nat /\ TTL \in Nat /\ iat + TTL \in Nat
    BY LifeAssumption
  <2>2. {iat, iat + TTL} \cap {ABSENT, MALFORMED} = {}
    BY <2>1, NumbersAreThere
  <2>3. iat + TTL > now - jwt.tolerance
    BY <1>1, <2>1
  <2>4. (now - iat) - jwt.tolerance <= jwt.maxTokenAge
    BY <1>1, <2>1
  <2>5. now - iat >= -jwt.tolerance
    BY <1>1, <2>1
  <2> QED BY <1>2, <2>2, <2>3, <2>4, <2>5 DEF assertTimeClaims
<1>6. joseAudienceMatches(t.aud, jwt.audience)
  BY <1>1, <1>2 DEF joseAudienceMatches
<1>7. \A published : Verified(jwt, t, KeysFor(jwt, t, now, published), now)
  BY <1>1, <1>2, <1>4, <1>5, <1>6 DEF Verified
<1>8. \A fetch : ~isVerificationUnavailable(jwt, t, fetch)
  BY <1>1 DEF isVerificationUnavailable
<1>9. \A fetch, published : authenticate(jwt, header, now, fetch, published) = "ok"
  BY <1>1, <1>2, <1>3, <1>7, <1>8 DEF authenticate
<1> QED BY <1>9 DEF Verdict, c, jwt, t, header

(* A verifier refuses what is signed with a secret that is neither its      *)
(* current one nor a listed one that is live, whatever kid it carries.      *)
LEMMA VersionRefuses ==
  ASSUME Atomic(ABSENT), life \in Lives, Rotating, NEW g, Version(g),
         NEW i \in DOMAIN Incoming, NEW c \in DOMAIN Incoming, g.jwt.secret = Incoming[c].secret, c # i,
         DOMAIN previousSecrets(g.jwt) \subseteq DOMAIN Incoming,
         \A j \in DOMAIN previousSecrets(g.jwt) :
           LET e == previousSecrets(g.jwt)[j] IN
           /\ e = Entry(j, e.expiresAt) /\ e.expiresAt \in Nat
           /\ j = i => ~(e.expiresAt > now),
         NEW kid, NEW iat
  PROVE  Verdict(Effective(g, life.fromFile), Shown(TokenOf(i, kid, iat))) # "ok"
<1> DEFINE d == Effective(g, life.fromFile)
           jwt == Authenticator(d)
           t == TokenOf(i, kid, iat)
           header == Shown(t)
           listed == previousSecrets(g.jwt)
           current == SecretKey(jwt.secret, "utf8")
           held == Hs256Keys(jwt)
<1>1. /\ jwt.kid = g.jwt.kid /\ jwt.secret = g.jwt.secret /\ jwt.previous = g.jwt.previous
      /\ jwt.mode = "verify" /\ jwt.algorithm = "HS256" /\ EncodingOf(jwt.encoding) = "utf8"
  BY VersionIs
<1>2. t.signer = SecretKey(Incoming[i].secret, "utf8")
  BY DEF TokenOf
<1>3. header.scheme = "bearer" /\ header.token = t
  BY DEF Shown
<1> HIDE DEF d, jwt, t, header
<1>4. previousSecrets(jwt) = listed
  BY <1>1 DEF previousSecrets
<1>5. \A j \in DOMAIN Incoming : Incoming[j].secret.id = Incoming[i].secret.id => j = i
  BY RotationAssumption
<1>6. current # t.signer
  BY <1>1, <1>2, <1>5 DEF SecretKey
<1>7. \A k \in held : isLive(k, now) => k.key # t.signer
  <2> TAKE k \in held
  <2>1. CASE k = [kid |-> jwt.kid, key |-> current, until |-> ABSENT]
    BY <1>6, <2>1
  <2>2. CASE \E j \in DOMAIN listed :
               k = [kid |-> listed[j].kid, key |-> SecretKey(listed[j].secret, "utf8"),
                    until |-> listed[j].expiresAt]
    <3>1. PICK j \in DOMAIN listed :
               k = [kid |-> listed[j].kid, key |-> SecretKey(listed[j].secret, "utf8"),
                    until |-> listed[j].expiresAt]
      BY <2>2
    <3>2. /\ listed[j] = Entry(j, listed[j].expiresAt) /\ listed[j].expiresAt \in Nat
          /\ j \in DOMAIN Incoming /\ (j = i => ~(listed[j].expiresAt > now))
      BY <3>1
    <3>3. listed[j].secret = Incoming[j].secret
      BY <3>2 DEF Entry
    <3>4. CASE j = i
      <4>1. k.until \in Nat /\ ~(k.until > now)
        BY <3>1, <3>2, <3>4
      <4>2. k.until # ABSENT
        BY <4>1, NumbersAreThere
      <4> QED BY <4>1, <4>2 DEF isLive
    <3>5. CASE j # i
      BY <1>2, <1>5, <3>1, <3>2, <3>5, <3>3 DEF SecretKey
    <3> QED BY <3>4, <3>5
  <2> QED BY <1>1, <1>4, <2>1, <2>2 DEF Hs256Keys
<1>8. t.signer \notin rotatingKeys(held, current, t, now)
  <2> HIDE DEF held
  <2>1. \A k \in {k \in held : isLive(k, now)} : k.key # t.signer
    BY <1>7
  <2> QED BY <1>6, <2>1 DEF rotatingKeys
<1>9. \A published : t.signer \notin KeysFor(jwt, t, now, published)
  BY <1>1, <1>6, <1>8 DEF KeysFor
<1>10. \A published : ~Verified(jwt, t, KeysFor(jwt, t, now, published), now)
  BY <1>9 DEF Verified
<1>11. \A fetch, published : authenticate(jwt, header, now, fetch, published) # "ok"
  BY <1>1, <1>3, <1>10 DEF authenticate
<1> QED BY <1>11 DEF Verdict, d, jwt, t, header

(* No version lists more than a rotation had before, which the schema       *)
(* allows.                                                                  *)
LEMMA FewListed ==
  ASSUME life \in Lives, Rotating, NEW c \in 1..(life.rotations + 1), NEW S \in SUBSET (1..(life.rotations + 1) \ {c})
  PROVE  Cardinality(S) <= MAX_PREVIOUS_SECRETS
<1> DEFINE n == life.rotations
<1>1. n \in 1..MAX_PREVIOUS_SECRETS
  BY RotationAssumption DEF Rotating
<1> DEFINE all == 1..(n + 1)
<1>2. IsFiniteSet(all) /\ Cardinality(all) = n + 1
  <2>1. n \in Nat /\ n + 1 \in Int /\ 1 \in Int /\ ~(1 > n + 1) /\ (n + 1) - 1 + 1 = n + 1
    BY <1>1 DEF MAX_PREVIOUS_SECRETS
  <2> HIDE DEF n
  <2> QED BY <2>1, FS_Interval
<1>3. IsFiniteSet(all \ {c}) /\ Cardinality(all \ {c}) = n
  <2>1. c \in all /\ n \in Nat
    BY <1>1 DEF MAX_PREVIOUS_SECRETS
  <2>2. (n + 1) - 1 = n
    BY <2>1
  <2> HIDE DEF all, n
  <2>3. IsFiniteSet(all \ {c}) /\ Cardinality(all \ {c}) = Cardinality(all) - 1
    BY <1>2, <2>1, FS_RemoveElement
  <2> QED BY <1>2, <2>2, <2>3
<1>4. Cardinality(S) <= n
  <2>1. S \in SUBSET (all \ {c})
    OBVIOUS
  <2> HIDE DEF all, n
  <2>2. Cardinality(S) <= Cardinality(all \ {c})
    BY <1>3, <2>1, FS_Subset
  <2> QED BY <1>3, <2>2
<1>5. IsFiniteSet(S)
  BY <1>3, FS_Subset
<1>6. Cardinality(S) \in Nat
  BY <1>5, FS_CardinalityType
<1> QED BY <1>1, <1>4, <1>6 DEF MAX_PREVIOUS_SECRETS

(* What a version says of its secrets is a well-formed rotation.            *)
LEMMA RotationChecks ==
  ASSUME Atomic(MALFORMED), ABSENT # MALFORMED, life \in Lives, Rotating, NEW g, NEW c, Serving(g, c), Progress,
         NEW jwt, jwt.kid = g.jwt.kid, jwt.secret = g.jwt.secret, jwt.previous = g.jwt.previous,
         checkSecretEncoding(jwt.encoding), EncodingOf(jwt.encoding) = "utf8"
  PROVE  /\ jwt.kid # MALFORMED /\ jwt.previous # MALFORMED
         /\ jwt.secret # ABSENT /\ jwt.secret.chars > 0
         /\ checkHs256Rotation(jwt)
<1> DEFINE listed == previousSecrets(g.jwt)
<1>1. 1..(life.rotations + 1) \subseteq DOMAIN Incoming /\ life.rotations \in Nat
  BY RotationAssumption DEF Rotating, MAX_PREVIOUS_SECRETS
<1>2. c \in 1..(life.rotations + 1) /\ c \in DOMAIN Incoming
  BY <1>1 DEF Serving, Progress
<1>3. \A i \in DOMAIN Incoming :
        /\ Given(Kid(i)) /\ Incoming[i].secret \notin {ABSENT, MALFORMED}
        /\ Incoming[i].secret.chars > 0 /\ clearsEntropyFloor(Incoming[i].secret, "utf8")
        /\ \A j \in DOMAIN Incoming : Kid(i) = Kid(j) => i = j
  BY RotationAssumption
<1>4. /\ jwt.secret = Incoming[c].secret
      /\ jwt.kid = Kid(c) \/ (jwt.kid = ABSENT /\ DOMAIN listed = {})
      /\ jwt.previous = ABSENT \/ jwt.previous = [i \in DOMAIN listed |-> listed[i]]
      /\ DOMAIN listed \subseteq 1..(life.rotations + 1) \ {c}
      /\ \A i \in DOMAIN listed : listed[i] = Entry(i, listed[i].expiresAt) /\ listed[i].expiresAt \in Nat
  BY DEF Serving
<1>5. previousSecrets(jwt) = listed
  BY DEF previousSecrets
<1> HIDE DEF listed
<1>6. jwt.previous # MALFORMED
  <2>1. ASSUME jwt.previous = [i \in DOMAIN listed |-> listed[i]] PROVE jwt.previous # MALFORMED
    BY <2>1 DEF Atomic
  <2> QED BY <1>4, <2>1
<1>7. jwt.kid = ABSENT \/ Given(jwt.kid)
  BY <1>2, <1>3, <1>4
<1>8. jwt.kid # MALFORMED
  BY <1>7 DEF Given
<1>9. jwt.secret # ABSENT /\ jwt.secret.chars > 0 /\ clearsEntropyFloor(jwt.secret, "utf8")
  BY <1>2, <1>3, <1>4
<1>10. Cardinality(DOMAIN listed) <= MAX_PREVIOUS_SECRETS
  BY <1>2, <1>4, FewListed
<1>11. ASSUME NEW i \in DOMAIN listed
       PROVE  /\ checkEntry(listed[i], "utf8")
              /\ listed[i].kid # jwt.kid
              /\ \A j \in DOMAIN listed : listed[i].kid = listed[j].kid => i = j
  <2>1. \A j \in DOMAIN listed : j \in DOMAIN Incoming /\ j # c
    BY <1>1, <1>4
  <2>2. \A j \in DOMAIN listed :
          /\ listed[j].kid = Kid(j) /\ listed[j].secret = Incoming[j].secret
          /\ listed[j].expiresAt \notin {ABSENT, MALFORMED}
    <3> TAKE j \in DOMAIN listed
    <3>1. listed[j] = Entry(j, listed[j].expiresAt) /\ listed[j].expiresAt \in Nat
      BY <1>4
    <3>2. listed[j].kid = Kid(j) /\ listed[j].secret = Incoming[j].secret
      BY <3>1 DEF Entry
    <3> QED BY <3>1, <3>2, NumbersAreThere
  <2>3. checkEntry(listed[i], "utf8")
    BY <1>3, <2>1, <2>2 DEF checkEntry
  <2>4. listed[i].kid # jwt.kid
    BY <1>2, <1>3, <1>4, <2>1, <2>2
  <2>5. \A j \in DOMAIN listed : listed[i].kid = listed[j].kid => i = j
    BY <1>3, <2>1, <2>2
  <2> QED BY <2>3, <2>4, <2>5
<1>12. DOMAIN listed # {} => Given(jwt.kid)
  BY <1>2, <1>3, <1>4
<1>13. checkHs256Rotation(jwt)
  BY <1>5, <1>6, <1>7, <1>9, <1>10, <1>11, <1>12 DEF checkHs256Rotation
<1> QED BY <1>6, <1>8, <1>9, <1>13

(* A verifier starts with every version the procedure writes, at whichever  *)
(* boundary it reads it.                                                    *)
LEMMA ServingBoots ==
  ASSUME Atomic(ABSENT), Atomic(MALFORMED), life \in Lives, Rotating, NEW g, NEW c, Serving(g, c), Progress
  PROVE  Boots(g, life.fromFile)
<1> DEFINE b == life.config
           e == Effective(g, life.fromFile)
           d == Effective(b, life.fromFile)
           rewritten == {"kid", "secret", "previous"}
<1>1. /\ Written(b) /\ b.jwt # ABSENT /\ Rotates(d) /\ Boots(b, life.fromFile)
      /\ life.fromFile \in BOOLEAN
  BY LifeAssumption, RotationAssumption DEF Rotating
<1>2. Version(g)
  BY DEF Serving
<1>3. /\ Written(g) /\ g.jwt # ABSENT
      /\ \A field \in JwtFields \ rewritten : g.jwt[field] = b.jwt[field]
      /\ \A field \in ConfigFields \ {"jwt"} : g[field] = b[field]
  BY <1>2, VersionFields
<1>4. /\ e.jwt.kid = g.jwt.kid /\ e.jwt.secret = g.jwt.secret /\ e.jwt.previous = g.jwt.previous
      /\ e.jwt # ABSENT /\ d.jwt # ABSENT
  BY <1>1, <1>3, EffectiveIs DEF JwtFields
<1>5. \A field \in JwtFields \ rewritten : e.jwt[field] = d.jwt[field]
  <2>1. \A field \in JwtFields \ (rewritten \cup {"mode", "algorithm", "tokenType", "audienceClaim", "encoding"}) :
          e.jwt[field] = g.jwt[field] /\ d.jwt[field] = b.jwt[field]
    BY <1>1, <1>3, EffectiveIs
  <2>2. /\ g.jwt.mode = b.jwt.mode /\ g.jwt.algorithm = b.jwt.algorithm
        /\ g.jwt.tokenType = b.jwt.tokenType /\ g.jwt.audienceClaim = b.jwt.audienceClaim
        /\ g.jwt.encoding = b.jwt.encoding
    BY <1>3 DEF JwtFields
  <2>3. /\ e.jwt.mode = d.jwt.mode /\ e.jwt.algorithm = d.jwt.algorithm
        /\ e.jwt.tokenType = d.jwt.tokenType /\ e.jwt.audienceClaim = d.jwt.audienceClaim
        /\ e.jwt.encoding = d.jwt.encoding
    BY <1>1, <1>3, <2>2, EffectiveIs
  <2> HIDE DEF e, d, b
  <2> QED BY <1>3, <2>1, <2>3
<1>6. \A field \in ConfigFields \ {"jwt"} : e[field] = d[field]
  <2>1. \A field \in ConfigFields \ {"jwt"} : e[field] = g[field] /\ d[field] = b[field]
    BY <1>1, <1>3, EffectiveIs
  <2> HIDE DEF e, d, b
  <2> QED BY <1>3, <2>1
<1>7. createApp(d)
  BY <1>1 DEF Boots, Effective
<1> HIDE DEF e, d, b
<1>8. /\ e.jwt.stale = d.jwt.stale /\ e.jwt.mode = d.jwt.mode /\ e.jwt.algorithm = d.jwt.algorithm
      /\ e.jwt.encoding = d.jwt.encoding /\ e.jwt.issuer = d.jwt.issuer
      /\ e.jwt.audience = d.jwt.audience /\ e.jwt.audienceClaim = d.jwt.audienceClaim
      /\ e.jwt.tokenType = d.jwt.tokenType
  BY <1>5 DEF JwtFields
<1>9. /\ e.authenticator = d.authenticator /\ e.registered = d.registered
      /\ e.callerAuth = d.callerAuth /\ e.rules = d.rules /\ e.knob = d.knob
      /\ e.evaluationInResponse = d.evaluationInResponse
  BY <1>6 DEF ConfigFields
<1>10. d.jwt.algorithm = "HS256" /\ Default(d.jwt.mode, "verify") = "verify"
       /\ EncodingOf(d.jwt.encoding) = "utf8" /\ d.jwt.previous = ABSENT
  BY <1>1 DEF Rotates, Default
<1>11. authenticatorOf(d) = "jwt" /\ JwtTokenAuthenticatorFactory(d)
  BY <1>4, <1>7 DEF createApp, checkTokenAuthenticatorSelection
<1>12. ABSENT # MALFORMED /\ checkSecretEncoding(d.jwt.encoding)
  <2>1. KeyResolverFactory(d) /\ checkSecretEncoding(d.jwt.encoding)
    BY <1>10, <1>11 DEF JwtTokenAuthenticatorFactory
  <2>2. checkHs256Rotation(d.jwt)
    BY <1>10, <2>1 DEF KeyResolverFactory, Asymmetric
  <2>3. d.jwt.previous # MALFORMED
    BY <2>2 DEF checkHs256Rotation
  <2> QED BY <1>10, <2>1, <2>3
<1>13. /\ e.jwt.secret # ABSENT /\ e.jwt.secret.chars > 0 /\ checkHs256Rotation(e.jwt)
  BY <1>4, <1>8, <1>10, <1>12, RotationChecks
<1>14. KeyResolverFactory(e)
  BY <1>8, <1>10, <1>13 DEF KeyResolverFactory, Asymmetric
<1>15. \A names : Resolvable(e, names) = Resolvable(d, names)
  BY <1>9 DEF Resolvable
<1>16. JwtTokenAuthenticatorFactory(e)
  BY <1>8, <1>10, <1>11, <1>14, <1>15 DEF JwtTokenAuthenticatorFactory, assertVerifyRouterJwtConfig
<1>17. createApp(e)
  BY <1>4, <1>7, <1>9, <1>15, <1>16
     DEF createApp, checkTokenAuthenticatorSelection, authenticatorOf, createVerifyRouter
<1>18. CASE ~life.fromFile
  BY <1>17, <1>18 DEF Boots, e, Effective
<1>19. CASE life.fromFile
  <2>1. AppConfigSchema(b)
    BY <1>1, <1>19 DEF Boots
  <2>2. /\ g.jwt.stale = b.jwt.stale /\ g.jwt.mode = b.jwt.mode /\ g.jwt.algorithm = b.jwt.algorithm
        /\ g.jwt.encoding = b.jwt.encoding /\ g.jwt.issuer = b.jwt.issuer
        /\ g.jwt.audience = b.jwt.audience /\ g.jwt.audienceClaim = b.jwt.audienceClaim
        /\ g.jwt.tokenType = b.jwt.tokenType /\ g.jwt.jwksUri = b.jwt.jwksUri
    BY <1>3 DEF JwtFields
  <2>3. /\ g.authenticator = b.authenticator /\ g.callerAuth = b.callerAuth /\ g.knob = b.knob
        /\ g.evaluationInResponse = b.evaluationInResponse
    BY <1>3 DEF ConfigFields
  <2>4. d.jwt.algorithm = Default(b.jwt.algorithm, "HS256") /\ d.jwt.encoding = Default(b.jwt.encoding, "utf8")
    BY <1>1, <1>19, EffectiveIs DEF d
  <2>5. EncodingOf(g.jwt.encoding) = "utf8" /\ Default(b.jwt.algorithm, "HS256") = "HS256"
    BY <1>10, <2>2, <2>4 DEF Default, EncodingOf
  <2>6. authenticatorOf(b) = "jwt" /\ OAuthJwtSchema(b)
    BY <1>1, <2>1 DEF AppConfigSchema, checkTokenAuthenticatorSelection
  <2>7. /\ g.jwt.kid # MALFORMED /\ g.jwt.previous # MALFORMED
        /\ g.jwt.secret # ABSENT /\ g.jwt.secret.chars > 0 /\ checkHs256Rotation(g.jwt)
    BY <1>12, <2>2, <2>5, <2>6, RotationChecks DEF OAuthJwtSchema
  <2>8. VerifySchema(b.jwt) => VerifySchema(g.jwt)
    BY <2>2, <2>5, <2>7 DEF VerifySchema, Default, Asymmetric
  <2>9. \A names : Resolvable(g, names) = Resolvable(b, names)
    BY <2>3 DEF Resolvable
  <2>10. OAuthJwtSchema(g)
    BY <2>2, <2>6, <2>7, <2>8, <2>9 DEF OAuthJwtSchema
  <2>11. AppConfigSchema(g)
    BY <1>1, <1>3, <2>1, <2>3, <2>9, <2>10
       DEF AppConfigSchema, checkTokenAuthenticatorSelection, authenticatorOf
  <2> QED BY <1>17, <1>19, <2>11 DEF Boots, e, Effective
<1> QED BY <1>1, <1>18, <1>19

(* What a step of the rotation leaves alone.                                *)
LEMMA RotationStands ==
  ASSUME UNCHANGED <<life, config, file, now, issuer, step, retired>>
  PROVE  /\ Progress => Progress'
         /\ FileInv => FileInv'
         /\ ConfigInv => ConfigInv'
<1>1. Cur' = Cur /\ Begun' = Begun /\ Listed' = Listed
  BY DEF Cur, Begun, Listed
<1>2. \A g, c : Serving(g, c) => Serving(g, c)'
  BY DEF Serving, Version, Covered
<1>3. Progress => Progress'
  BY <1>1 DEF Progress
<1>4. Serving(file, Cur) => Serving(file, Cur)'
  BY <1>1 DEF Serving, Version, Covered
<1>5. FileInv => FileInv'
  BY <1>1, <1>4 DEF FileInv
<1>6. \A c : Serving(Begun, c) => Serving(Begun, c)'
  BY <1>1 DEF Serving, Version, Covered
<1>7. ConfigInv => ConfigInv'
  BY <1>1, <1>6 DEF ConfigInv
<1> QED BY <1>3, <1>5, <1>7

(* Every token keeps a secret it was minted with, while it was the issuer's.*)
LEMMA MintKeeps == ASSUME RotationInv, Mint PROVE RotationInv'
<1>1. Rotating /\ UNCHANGED <<life, config, file, now, issuer, step, retired>>
  BY DEF Mint
<1>2. life \in Lives /\ Progress /\ FileInv /\ ConfigInv /\ TokensInv
  BY <1>1 DEF RotationInv
<1>3. TokensInv'
  <2> SUFFICES ASSUME NEW t \in tokens'
               PROVE  \E j \in 1..issuer : \E kid \in {Kid(j), ABSENT} : \E iat \in 0..now :
                        /\ t = TokenOf(j, kid, iat) /\ now < iat + TTL
                        /\ retired[j] # NONE => iat <= retired[j]
    BY <1>1 DEF TokensInv, TokenOf
  <2>1. CASE t \in tokens
    BY <1>2, <2>1 DEF TokensInv
  <2>2. CASE t \notin tokens
    <3>1. PICK kid \in {Kid(issuer), ABSENT} : t = TokenOf(issuer, kid, now)
      BY <2>2 DEF Mint
    <3>2. issuer \in 1..issuer /\ now \in 0..now /\ now < now + TTL
      BY <1>2, LifeAssumption, RotationAssumption DEF Progress, Rotating
    <3>3. issuer \in DOMAIN Incoming /\ ~(issuer < Cur)
      BY <1>1, <1>2, RotationAssumption DEF Progress, Rotating, Cur, MAX_PREVIOUS_SECRETS
    <3>4. retired[issuer] = NONE
      BY <1>2, <3>3 DEF Progress
    <3> QED BY <3>1, <3>2, <3>4
  <2> QED BY <2>1, <2>2
<1> QED BY <1>1, <1>2, <1>3, RotationStands DEF RotationInv, Rotating

(* While time passes the issuer's secret stays live, by the operator's      *)
(* window, and the others by how long they were listed for.                 *)
LEMMA TickKeeps == ASSUME Atomic(ABSENT), Atomic(NONE), RotationInv, Tick PROVE RotationInv'
<1>1. /\ Rotating /\ UNCHANGED <<life, config, file, issuer, step, retired>>
      /\ now' = now + 1 /\ tokens' = {t \in tokens : t.exp > now + 1}
  BY DEF Tick
<1>2. life \in Lives /\ Progress /\ FileInv /\ ConfigInv /\ TokensInv /\ now \in Nat
  BY <1>1 DEF RotationInv, Progress
<1>3. Cur' = Cur /\ Begun' = Begun /\ Listed' = Listed
  BY <1>1 DEF Cur, Begun, Listed
<1>4. ASSUME NEW g, NEW c, Serving(g, c),
             LET listed == previousSecrets(g.jwt)
             IN issuer \in DOMAIN listed => listed[issuer].expiresAt > now + 1
      PROVE  Serving(g, c)'
  <2> DEFINE listed == previousSecrets(g.jwt)
  <2>1. ASSUME NEW i \in 1..issuer \ {c} PROVE Covered(listed, i)'
    <3>1. Covered(listed, i)
      BY <1>4 DEF Serving
    <3>2. TTL \in Nat
      BY LifeAssumption
    <3> HIDE DEF listed
    <3>3. CASE i \in DOMAIN listed /\ i = issuer
      BY <1>1, <1>4, <3>3 DEF Covered, listed
    <3>4. CASE ~(i \in DOMAIN listed /\ i = issuer)
      BY <1>1, <1>2, <3>1, <3>2, <3>4 DEF Covered
    <3> QED BY <3>3, <3>4
  <2> QED BY <1>1, <1>4, <2>1 DEF Serving, Version

<1>5. FileInv'
  <2>1. issuer \in DOMAIN Listed => Listed[issuer].expiresAt > now + 1
    <3>1. file # NONE
      <4>1. Written(file)
        BY <1>1, <1>2, VersionFields DEF FileInv, Serving
      <4> QED BY <4>1 DEF Written, Atomic
    <3> QED BY <3>1 DEF Tick, Listed
  <2>2. Serving(file, Cur)'
    BY <1>1, <1>2, <1>3, <1>4, <2>1 DEF FileInv, Listed
  <2> QED BY <1>1, <1>2, <1>3, <2>2 DEF FileInv
<1>6. ConfigInv'
  <2>1. PICK c \in 1..issuer : Serving(Begun, c)
    BY <1>2 DEF ConfigInv
  <2>2. previousSecrets(config.jwt) = previousSecrets(Begun.jwt)
    <3>1. Version(Begun)
      BY <2>1 DEF Serving
    <3>2. config.jwt.previous = Begun.jwt.previous
      BY <1>1, <1>2, <3>1, VersionIs DEF ConfigInv
    <3> QED BY <3>2 DEF previousSecrets
  <2>3. LET listed == previousSecrets(Begun.jwt)
        IN issuer \in DOMAIN listed => listed[issuer].expiresAt > now + 1
    BY <1>1, <1>2, <2>2 DEF Tick, ConfigInv
  <2>4. Serving(Begun, c)'
    BY <1>3, <1>4, <2>1, <2>3
  <2> QED BY <1>1, <1>2, <1>3, <2>4 DEF ConfigInv
<1>7. TokensInv'
  <2> SUFFICES ASSUME NEW t \in tokens'
               PROVE  \E j \in 1..issuer : \E kid \in {Kid(j), ABSENT} : \E iat \in 0..now + 1 :
                        /\ t = TokenOf(j, kid, iat) /\ now + 1 < iat + TTL
                        /\ retired[j] # NONE => iat <= retired[j]
    BY <1>1 DEF TokensInv, TokenOf
  <2>1. PICK j \in 1..issuer : \E kid \in {Kid(j), ABSENT} : \E iat \in 0..now :
          t = TokenOf(j, kid, iat) /\ now < iat + TTL /\ (retired[j] # NONE => iat <= retired[j])
    BY <1>1, <1>2 DEF TokensInv
  <2>2. PICK kid \in {Kid(j), ABSENT}, iat \in 0..now :
          t = TokenOf(j, kid, iat) /\ now < iat + TTL /\ (retired[j] # NONE => iat <= retired[j])
    BY <2>1
  <2>3. t.exp = iat + TTL /\ t.exp > now + 1 /\ iat \in 0..now + 1
    BY <1>1, <1>2, <2>2 DEF TokenOf
  <2>4. now + 1 < iat + TTL
    BY <1>2, <2>3, LifeAssumption
  <2> QED BY <2>2, <2>3, <2>4
<1>8. Progress'
  BY <1>1, <1>2, <1>3 DEF Progress
<1> QED BY <1>1, <1>2, <1>5, <1>6, <1>7, <1>8 DEF RotationInv, Rotating

(* What the procedure makes of a version is one.                            *)
LEMMA NextVersion ==
  ASSUME Atomic(ABSENT), life \in Lives, Rotating, NEW g, Version(g), NEW kid, NEW secret, NEW previous
  PROVE  LET h == Rewritten(g, kid, secret, previous) IN
         /\ Version(h)
         /\ h.jwt.kid = kid /\ h.jwt.secret = secret /\ h.jwt.previous = previous
<1> DEFINE b == life.config
           h == Rewritten(g, kid, secret, previous)
<1>1. Written(b) /\ b.jwt # ABSENT
  BY LifeAssumption, RotationAssumption DEF Rotating
<1>2. Written(g) /\ g.jwt # ABSENT
  BY VersionFields
<1>3. h.jwt.kid = kid /\ h.jwt.secret = secret /\ h.jwt.previous = previous
  BY <1>2, RewrittenIs
<1>4. g = Rewritten(b, g.jwt.kid, g.jwt.secret, g.jwt.previous)
  BY DEF Version
<1>5. h = Rewritten(b, kid, secret, previous)
  <2> DEFINE k == g.jwt.kid
             s == g.jwt.secret
             p == g.jwt.previous
  <2>1. g = Rewritten(b, k, s, p)
    BY <1>4
  <2> HIDE DEF k, s, p
  <2> QED BY <1>1, <2>1, RewrittenTwice
<1> HIDE DEF h
<1>6. Version(h)
  BY <1>3, <1>5 DEF Version
<1> QED BY <1>3, <1>6 DEF h

(* A staged secret is one more than is needed; what is cleared away with it *)
(* had expired, and the tokens it covered with it.                          *)
LEMMA StagingKeeps ==
  ASSUME Atomic(ABSENT), RotationInv, StageIncoming PROVE RotationInv'
<1>1. /\ Rotating /\ UNCHANGED <<life, config, now, issuer, tokens, retired>>
      /\ step = "settled" /\ step' = "staged" /\ issuer <= life.rotations
  BY DEF StageIncoming
<1>2. life \in Lives /\ Progress /\ FileInv /\ ConfigInv /\ TokensInv
  BY <1>1 DEF RotationInv
<1>3. PICK kept \in {DOMAIN Listed, {i \in DOMAIN Listed : Listed[i].expiresAt > now}} :
        file' = Rewritten(file, Kid(issuer), file.jwt.secret,
                          ListedWith(kept, issuer + 1, now + Staging))
  BY DEF StageIncoming
<1>4. PICK l : l = ListedWith(kept, issuer + 1, now + Staging)
  OBVIOUS
<1>5. Cur = issuer /\ Cur' = issuer /\ issuer \in Nat /\ now \in Nat /\ life.rotations \in Nat
      /\ issuer >= 1
  BY <1>1, <1>2, RotationAssumption DEF Cur, Progress, Rotating, MAX_PREVIOUS_SECRETS
<1>6. Serving(file, issuer)
  BY <1>2, <1>5 DEF FileInv
<1>7. kept \subseteq DOMAIN Listed /\ DOMAIN Listed \subseteq 1..issuer \ {issuer}
  BY <1>1, <1>2, <1>3, <1>6 DEF FileInv, Serving, Listed
<1>8. /\ l = [i \in DOMAIN l |-> l[i]] /\ DOMAIN l = kept \cup {issuer + 1}
      /\ l[issuer + 1] = Entry(issuer + 1, now + Staging) /\ l[issuer + 1].expiresAt = now + Staging
      /\ \A i \in kept : i # issuer + 1 /\ l[i] = Listed[i]
  <2>1. kept \in SUBSET DOMAIN Listed /\ \A i \in kept : i # issuer + 1
    BY <1>5, <1>7
  <2>2. /\ l = [i \in DOMAIN l |-> l[i]] /\ DOMAIN l = kept \cup {issuer + 1}
        /\ l[issuer + 1] = Entry(issuer + 1, now + Staging) /\ l[issuer + 1].expiresAt = now + Staging
        /\ \A i \in kept \ {issuer + 1} : l[i] = Listed[i]
    BY <1>4, <2>1 DEF ListedWith, Entry
  <2> QED BY <2>1, <2>2
<1>9. /\ file'.jwt.kid = Kid(issuer) /\ file'.jwt.secret = file.jwt.secret
      /\ file'.jwt.previous = l
  BY <1>1, <1>2, <1>3, <1>6, <1>4, NextVersion DEF Serving
<1>10. Version(file)'
  BY <1>1, <1>2, <1>3, <1>6, <1>4, NextVersion DEF Serving, Version
<1>11. l # ABSENT
  BY <1>8 DEF Atomic
<1>12. Listed' = l
  BY <1>9, <1>11 DEF Listed, previousSecrets
<1>13. \A i \in DOMAIN l : l[i] = Entry(i, l[i].expiresAt) /\ l[i].expiresAt \in Nat
  <2> TAKE i \in DOMAIN l
  <2>1. CASE i = issuer + 1
    BY <1>5, <1>8, <2>1, LifeAssumption
  <2>2. CASE i \in kept
    BY <1>6, <1>7, <1>8, <2>2 DEF Serving, Listed
  <2> QED BY <1>8, <2>1, <2>2
<1>14. ASSUME NEW i \in 1..issuer \ {issuer} PROVE Covered(l, i)'
  <2>1. Covered(Listed, i)
    BY <1>6 DEF Serving, Listed
  <2>2. CASE i \in kept
    BY <1>1, <1>7, <1>8, <2>1, <2>2 DEF Covered
  <2>3. CASE i \notin kept
    <3>1. i \in DOMAIN Listed => ~(Listed[i].expiresAt > now) /\ Listed[i].expiresAt \in Nat
      BY <1>3, <1>6, <2>3 DEF Serving, Listed
    <3>2. i # issuer /\ retired[i] \in Nat /\ retired[i] + TTL <= now
      BY <1>5, <2>1, <3>1, LifeAssumption DEF Covered
    <3> QED BY <1>1, <3>2 DEF Covered
  <2> QED BY <2>2, <2>3
<1>15. Serving(file, issuer)'
  <2>1. file'.jwt.secret = Incoming[issuer].secret /\ file'.jwt.kid = Kid(issuer)
    BY <1>6, <1>9 DEF Serving
  <2>2. DOMAIN l \subseteq 1..(life.rotations + 1) \ {issuer} /\ DOMAIN l \subseteq 1..(issuer + 1)
    BY <1>1, <1>5, <1>7, <1>8
  <2>3. previousSecrets(file'.jwt) = l /\ issuer \in 1..issuer
    BY <1>5, <1>9, <1>11 DEF previousSecrets
  <2> QED BY <1>1, <1>8, <1>9, <1>10, <1>13, <1>14, <2>1, <2>2, <2>3 DEF Serving, Kid
<1>16. FileInv'
  <2>1. DOMAIN l \subseteq 1..(issuer + 1)
    BY <1>5, <1>7, <1>8
  <2>2. \A i \in DOMAIN l : i < issuer => l[i].expiresAt <= retired[i] + TTL + Buffer
    BY <1>2, <1>5, <1>7, <1>8 DEF FileInv
  <2> QED BY <1>1, <1>5, <1>12, <1>15, <2>1, <2>2 DEF FileInv
<1>17. ConfigInv'
  <2>1. Begun' = Begun
    BY <1>1 DEF Begun
  <2>2. \A c : Serving(Begun, c) => Serving(Begun, c)'
    BY <1>1, <2>1 DEF Serving, Version, Covered
  <2> QED BY <1>1, <1>2, <2>1, <2>2 DEF ConfigInv
<1>18. TokensInv'
  BY <1>1, <1>2 DEF TokensInv
<1>19. Progress'
  BY <1>1, <1>2, <1>5 DEF Progress
<1> QED BY <1>1, <1>2, <1>16, <1>17, <1>18, <1>19 DEF RotationInv, Rotating

(* The issuer moves to a secret the running verifier lists, and nothing it  *)
(* listed before is the issuer's any more.                                  *)
LEMMA MovingKeeps ==
  ASSUME Atomic(ABSENT), Rotating, RotationInv, IssuerMoves PROVE RotationInv'
<1>1. /\ UNCHANGED <<life, config, file, now, tokens, retired>>
      /\ step = "staged" /\ step' = "moved" /\ issuer' = issuer + 1
      /\ config = Effective(file, life.fromFile)
      /\ issuer + 1 \in DOMAIN Listed /\ Listed[issuer + 1].expiresAt > now
  BY DEF IssuerMoves
<1>2. life \in Lives /\ Progress /\ FileInv /\ ConfigInv /\ TokensInv
  BY DEF RotationInv
<1>3. Cur = issuer /\ Cur' = issuer /\ issuer \in Nat /\ issuer >= 1
      /\ life.rotations \in Nat /\ issuer <= life.rotations /\ now \in Nat
  BY <1>1, <1>2, RotationAssumption DEF Cur, Progress, Rotating, MAX_PREVIOUS_SECRETS
<1>4. Serving(file, issuer) /\ Listed' = Listed
  BY <1>1, <1>2, <1>3 DEF FileInv, Listed
<1>5. PICK l, c : l = Listed /\ c = issuer
  OBVIOUS
<1>6. ASSUME NEW i \in 1..(c + 1) \ {c} PROVE Covered(l, i)'
  <2>1. CASE i = c + 1
    BY <1>1, <1>5, <2>1 DEF Covered
  <2>2. CASE i # c + 1
    <3>1. i \in 1..issuer \ {issuer} /\ i # issuer + 1
      BY <1>3, <1>5, <2>2
    <3>2. Covered(Listed, i)
      BY <1>4, <3>1 DEF Serving, Listed
    <3> QED BY <1>1, <1>5, <3>1, <3>2 DEF Covered
  <2> QED BY <2>1, <2>2
<1>7. Serving(file, c)'
  <2>1. previousSecrets(file.jwt) = l
    BY <1>5 DEF Listed
  <2>2. c \in 1..(c + 1) /\ DOMAIN l \subseteq 1..((c + 1) + 1)
    <3>1. DOMAIN l \subseteq 1..(c + 1)
      BY <1>4, <1>5, <2>1 DEF Serving
    <3> QED BY <1>3, <1>5, <3>1
  <2> QED BY <1>1, <1>4, <1>5, <1>6, <2>1, <2>2 DEF Serving, Version
<1>8. FileInv'
  <2>1. DOMAIN Listed \subseteq 1..(issuer + 1)
    BY <1>1, <1>2 DEF FileInv
  <2> QED BY <1>1, <1>2, <1>3, <1>4, <1>5, <1>7, <2>1 DEF FileInv
<1>9. ConfigInv'
  <2>1. Begun = file /\ Begun' = file'
    <3>1. Version(file)
      BY <1>4 DEF Serving
    <3>2. /\ config.jwt.kid = file.jwt.kid /\ config.jwt.secret = file.jwt.secret
          /\ config.jwt.previous = file.jwt.previous
      BY <1>1, <1>2, <3>1, VersionIs
    <3> QED BY <1>1, <3>1, <3>2 DEF Begun, Version
  <2>2. c \in 1..issuer'
    BY <1>1, <1>3, <1>5
  <2>3. Serving(Begun, c)'
    BY <1>7, <2>1
  <2> QED BY <1>1, <1>2, <2>1, <2>2, <2>3 DEF ConfigInv
<1>10. TokensInv'
  <2> SUFFICES ASSUME NEW t \in tokens
               PROVE  \E j \in 1..(issuer + 1) : \E kid \in {Kid(j), ABSENT} : \E iat \in 0..now :
                        /\ t = TokenOf(j, kid, iat) /\ now < iat + TTL
                        /\ retired[j] # NONE => iat <= retired[j]
    BY <1>1 DEF TokensInv, TokenOf
  <2>1. PICK j \in 1..issuer : \E kid \in {Kid(j), ABSENT} : \E iat \in 0..now :
          t = TokenOf(j, kid, iat) /\ now < iat + TTL /\ (retired[j] # NONE => iat <= retired[j])
    BY <1>2 DEF TokensInv
  <2>2. j \in 1..(issuer + 1)
    BY <1>3
  <2> QED BY <2>1, <2>2
<1>11. Progress'
  BY <1>1, <1>2, <1>3 DEF Progress
<1> QED BY <1>1, <1>2, <1>8, <1>9, <1>10, <1>11 DEF RotationInv

(* When the roles are swapped the old secret stays for as long as any token *)
(* signed with it can.                                                      *)
LEMMA SwappingKeeps ==
  ASSUME Atomic(ABSENT), Rotating, RotationInv, SwapRoles PROVE RotationInv'
<1>1. /\ UNCHANGED <<life, config, now, issuer, tokens>>
      /\ step = "moved" /\ step' = "settled" /\ retired' = [retired EXCEPT ![issuer - 1] = now]
      /\ file' = Rewritten(file, Kid(issuer), Incoming[issuer].secret,
                   ListedWith(DOMAIN Listed \ {issuer}, issuer - 1, now + TTL + Buffer))
  BY DEF SwapRoles
<1>2. life \in Lives /\ Progress /\ FileInv /\ ConfigInv /\ TokensInv
  BY DEF RotationInv
<1>3. Cur = issuer - 1 /\ Cur' = issuer /\ issuer \in Nat /\ issuer >= 2
      /\ life.rotations \in Nat /\ issuer <= life.rotations + 1 /\ now \in Nat
      /\ TTL \in Nat /\ Buffer \in Nat
  BY <1>1, <1>2, LifeAssumption, RotationAssumption DEF Cur, Progress, Rotating, MAX_PREVIOUS_SECRETS
<1>4. PICK l, c, old, until :
        /\ c = issuer /\ old = issuer - 1 /\ until = now + TTL + Buffer
        /\ l = ListedWith(DOMAIN Listed \ {issuer}, issuer - 1, now + TTL + Buffer)
  OBVIOUS
<1>5. Serving(file, old)
  BY <1>2, <1>3, <1>4 DEF FileInv
<1>6. DOMAIN Listed \subseteq 1..issuer \ {old} /\ DOMAIN Listed \subseteq 1..(life.rotations + 1)
  BY <1>1, <1>2, <1>5 DEF FileInv, Serving, Listed
<1>7. /\ l = [i \in DOMAIN l |-> l[i]] /\ DOMAIN l = (DOMAIN Listed \ {c}) \cup {old}
      /\ l[old] = Entry(old, until) /\ l[old].expiresAt = until
      /\ \A i \in DOMAIN Listed \ {c} : i # old /\ l[i] = Listed[i]
  <2>1. \A i \in DOMAIN Listed : i # old
    BY <1>6
  <2> QED BY <1>4, <2>1 DEF ListedWith, Entry
<1>8. /\ file'.jwt.kid = Kid(c) /\ file'.jwt.secret = Incoming[c].secret
      /\ file'.jwt.previous = l
  BY <1>1, <1>2, <1>4, <1>5, NextVersion DEF Serving
<1>9. Version(file)'
  BY <1>1, <1>2, <1>4, <1>5, NextVersion DEF Serving, Version
<1>10. l # ABSENT
  BY <1>7 DEF Atomic
<1>11. Listed' = l /\ previousSecrets(file'.jwt) = l
  BY <1>8, <1>10 DEF Listed, previousSecrets
<1>12. \A i \in DOMAIN l : l[i] = Entry(i, l[i].expiresAt) /\ l[i].expiresAt \in Nat
  <2> TAKE i \in DOMAIN l
  <2>1. CASE i = old
    BY <1>3, <1>4, <1>7, <2>1
  <2>2. CASE i \in DOMAIN Listed \ {c}
    BY <1>5, <1>7, <2>2 DEF Serving, Listed
  <2> QED BY <1>7, <2>1, <2>2
<1>13. /\ old \in DOMAIN Incoming /\ retired[old] = NONE /\ retired'[old] = now
       /\ \A i : i # old => retired'[i] = retired[i]
       /\ retired' = [i \in DOMAIN Incoming |-> retired'[i]]
  <2>1. old \in DOMAIN Incoming
    BY <1>2, <1>3, <1>4, RotationAssumption DEF Rotating
  <2>2. retired[old] = NONE
    BY <1>2, <1>3, <1>4, <2>1 DEF Progress
  <2> QED BY <1>1, <1>2, <1>4, <2>1, <2>2 DEF Progress
<1>14. ASSUME NEW i \in 1..c \ {c} PROVE Covered(l, i)'
  <2>1. CASE i = old
    BY <1>1, <1>3, <1>4, <1>7, <1>13, <2>1 DEF Covered
  <2>2. CASE i # old
    <3>1. i \in 1..issuer \ {old} /\ i # issuer
      BY <1>4, <2>2
    <3>2. Covered(Listed, i)
      BY <1>5, <3>1 DEF Serving, Listed
    <3> QED BY <1>1, <1>4, <1>7, <1>13, <2>2, <3>1, <3>2 DEF Covered
  <2> QED BY <2>1, <2>2
<1>15. Serving(file, c)'
  <2>1. DOMAIN l \subseteq 1..(life.rotations + 1) \ {c} /\ DOMAIN l \subseteq 1..(c + 1)
    <3> SUFFICES ASSUME NEW i \in DOMAIN l
                 PROVE  i \in 1..(life.rotations + 1) /\ i # c /\ i \in 1..(c + 1)
      OBVIOUS
    <3>1. i = old \/ (i \in 1..issuer /\ i # c)
      BY <1>6, <1>7
    <3>2. i \in 1..c /\ i # c
      BY <1>3, <1>4, <3>1
    <3>3. c \in Nat /\ c <= life.rotations + 1 /\ life.rotations \in Nat
      BY <1>3, <1>4
    <3> QED BY <3>2, <3>3
  <2>2. c \in 1..c
    BY <1>3, <1>4
  <2>3. Version(file)' /\ c \in 1..issuer' /\ (file.jwt.secret = Incoming[c].secret)'
    BY <1>1, <1>4, <1>8, <1>9, <2>2
  <2>4. (file.jwt.kid = Kid(c))'
    BY <1>8 DEF Kid
  <2>5. /\ (previousSecrets(file.jwt) = l)' /\ (file.jwt.previous = [i \in DOMAIN l |-> l[i]])'
        /\ \A i \in DOMAIN l : (l[i] = Entry(i, l[i].expiresAt) /\ l[i].expiresAt \in Nat)'
        /\ DOMAIN l \subseteq 1..(life'.rotations + 1) \ {c} /\ DOMAIN l \subseteq 1..(issuer' + 1)
    BY <1>1, <1>4, <1>7, <1>8, <1>11, <1>12, <2>1
  <2>6. \A i \in 1..issuer' \ {c} : Covered(l, i)'
    BY <1>1, <1>4, <1>14
  <2> HIDE DEF Version, Covered, Entry
  <2> QED BY <2>3, <2>4, <2>5, <2>6 DEF Serving
<1>16. FileInv'
  <2>1. DOMAIN l \subseteq 1..issuer
    BY <1>3, <1>4, <1>6, <1>7
  <2>2. \A i \in DOMAIN l : i < c => l[i].expiresAt <= retired'[i] + TTL + Buffer
    <3> SUFFICES ASSUME NEW i \in DOMAIN l, i < c PROVE l[i].expiresAt <= retired'[i] + TTL + Buffer
      OBVIOUS
    <3>1. CASE i = old
      BY <1>3, <1>4, <1>7, <1>13, <3>1
    <3>2. CASE i # old
      <4>1. i \in DOMAIN Listed /\ l[i] = Listed[i] /\ i < old
        BY <1>3, <1>4, <1>6, <1>7, <3>2
      <4> QED BY <1>2, <1>3, <1>4, <1>13, <3>2, <4>1 DEF FileInv
    <3> QED BY <3>1, <3>2
  <2> QED BY <1>1, <1>3, <1>4, <1>11, <1>15, <2>1, <2>2 DEF FileInv
<1>17. ConfigInv'
  <2>1. PICK d \in 1..issuer : Serving(Begun, d)
    BY <1>2 DEF ConfigInv
  <2>2. PICK g : g = Begun
    OBVIOUS
  <2>3. PICK m : m = previousSecrets(g.jwt)
    OBVIOUS
  <2>4. \A i \in 1..issuer \ {d} : Covered(m, i)
    BY <2>1, <2>2, <2>3 DEF Serving
  <2>5. ASSUME NEW i \in 1..issuer \ {d} PROVE Covered(m, i)'
    <3>1. Covered(m, i)
      BY <2>4
    <3>2. i # old
      <4>1. ASSUME i = old PROVE FALSE
        <5>1. i # issuer /\ retired[i] = NONE
          BY <1>3, <1>4, <1>13, <4>1
        <5>2. retired[i] \in Nat
          BY <3>1, <5>1 DEF Covered
        <5> QED BY <5>1, <5>2, NumbersAreThere
      <4> QED BY <4>1
    <3> QED BY <1>1, <1>13, <3>1, <3>2 DEF Covered
  <2>6. Serving(g, d)'
    BY <1>1, <2>1, <2>2, <2>3, <2>5 DEF Serving, Version
  <2>7. Begun' = g
    BY <1>1, <2>2 DEF Begun
  <2> QED BY <1>1, <1>2, <2>2, <2>6, <2>7 DEF ConfigInv
<1>18. TokensInv'
  <2> SUFFICES ASSUME NEW t \in tokens
               PROVE  \E j \in 1..issuer : \E kid \in {Kid(j), ABSENT} : \E iat \in 0..now :
                        /\ t = TokenOf(j, kid, iat) /\ now < iat + TTL
                        /\ retired'[j] # NONE => iat <= retired'[j]
    BY <1>1 DEF TokensInv, TokenOf
  <2>1. PICK j \in 1..issuer : \E kid \in {Kid(j), ABSENT} : \E iat \in 0..now :
          t = TokenOf(j, kid, iat) /\ now < iat + TTL /\ (retired[j] # NONE => iat <= retired[j])
    BY <1>2 DEF TokensInv
  <2>2. PICK kid \in {Kid(j), ABSENT}, iat \in 0..now :
          t = TokenOf(j, kid, iat) /\ now < iat + TTL /\ (retired[j] # NONE => iat <= retired[j])
    BY <2>1
  <2>3. retired'[j] # NONE => iat <= retired'[j]
    BY <1>3, <1>13, <2>2
  <2> QED BY <2>2, <2>3
<1>19. Progress'
  <2>1. ASSUME NEW i \in DOMAIN Incoming
        PROVE  IF i < issuer THEN retired'[i] \in Nat ELSE retired'[i] = NONE
    <3>1. i \in Int
      BY RotationAssumption
    <3>2. CASE i = old
      BY <1>3, <1>4, <1>13, <3>2
    <3>3. CASE i # old
      <4>1. retired'[i] = retired[i] /\ (i < issuer <=> i < Cur)
        BY <1>3, <1>4, <1>13, <3>1, <3>3
      <4> QED BY <1>2, <4>1 DEF Progress
    <3> QED BY <3>2, <3>3
  <2> QED BY <1>1, <1>2, <1>3, <1>13, <2>1 DEF Progress
<1> QED BY <1>1, <1>2, <1>16, <1>17, <1>18, <1>19 DEF RotationInv

(* A verifier started again serves with what the file says, and starts.     *)
LEMMA RestartingKeeps ==
  ASSUME Atomic(ABSENT), Atomic(MALFORMED), Atomic(NONE), RotationInv, Restart PROVE RotationInv'
<1>1. /\ Rotating /\ UNCHANGED <<life, file, now, issuer, step, tokens, retired>>
      /\ config' = StartedWith(file)
  BY DEF Restart, rotation
<1>2. life \in Lives /\ Progress /\ FileInv /\ TokensInv
  BY <1>1 DEF RotationInv
<1>3. Serving(file, Cur) /\ Version(file)
  BY <1>2 DEF FileInv, Serving
<1>4. config' = Effective(file, life.fromFile)
  BY <1>1, <1>2, <1>3, ServingBoots DEF StartedWith
<1>5. /\ config'.jwt.kid = file.jwt.kid /\ config'.jwt.secret = file.jwt.secret
      /\ config'.jwt.previous = file.jwt.previous
  BY <1>1, <1>2, <1>3, <1>4, VersionIs
<1>6. Begun' = file
  BY <1>1, <1>3, <1>5 DEF Begun, Version
<1>7. config' # NONE
  <2>1. Written(file) /\ file.jwt # ABSENT
    BY <1>1, <1>2, <1>3, VersionFields
  <2>2. Written(config')
    BY <1>4, <2>1, EffectiveIs
  <2> QED BY <2>2 DEF Written, Atomic
<1>8. Cur' = Cur /\ Cur \in 1..issuer /\ Listed' = Listed
  BY <1>1, <1>3 DEF Cur, Serving, Listed
<1>9. PICK g, c : g = file /\ c = Cur
  OBVIOUS
<1>10. Serving(g, c)'
  BY <1>1, <1>3, <1>9 DEF Serving, Version, Covered
<1>11. ConfigInv'
  BY <1>1, <1>4, <1>6, <1>7, <1>8, <1>9, <1>10 DEF ConfigInv
<1>12. FileInv'
  BY <1>1, <1>2, <1>8, <1>9, <1>10 DEF FileInv
<1>13. TokensInv' /\ Progress'
  BY <1>1, <1>2, <1>8 DEF TokensInv, Progress
<1> QED BY <1>1, <1>2, <1>11, <1>12, <1>13 DEF RotationInv

(* A rotation begins with a version that is the configuration as it was     *)
(* deployed.                                                                *)
LEMMA RotationBegins ==
  ASSUME Atomic(ABSENT), Atomic(NONE), ProcessInit PROVE RotationInv
<1> SUFFICES ASSUME Rotating PROVE life \in Lives /\ Progress /\ FileInv /\ ConfigInv /\ TokensInv
  BY DEF RotationInv
<1> DEFINE b == life.config
           d == Effective(b, life.fromFile)
<1>1. /\ life \in Lives /\ file = b /\ config = StartedWith(file) /\ now = 0
      /\ issuer = 1 /\ step = "settled" /\ tokens = {}
      /\ retired = [i \in DOMAIN Incoming |-> NONE]
  BY DEF ProcessInit
<1>2. /\ Written(b) /\ b.jwt # ABSENT /\ Boots(b, life.fromFile) /\ Rotates(d)
      /\ life.rotations \in 1..MAX_PREVIOUS_SECRETS
  BY <1>1, LifeAssumption, RotationAssumption DEF Rotating
<1>3. /\ d.jwt.kid = b.jwt.kid /\ d.jwt.secret = b.jwt.secret /\ d.jwt.previous = b.jwt.previous
      /\ Written(d)
  BY <1>2, EffectiveIs DEF JwtFields
<1>4. Version(b)
  <2> DEFINE h == Rewritten(b, b.jwt.kid, b.jwt.secret, b.jwt.previous)
  <2>1. /\ Written(h) /\ h.jwt # ABSENT
        /\ h.jwt.kid = b.jwt.kid /\ h.jwt.secret = b.jwt.secret /\ h.jwt.previous = b.jwt.previous
        /\ \A field \in JwtFields \ {"kid", "secret", "previous"} : h.jwt[field] = b.jwt[field]
        /\ \A field \in ConfigFields \ {"jwt"} : h[field] = b[field]
    BY <1>2, RewrittenIs
  <2> HIDE DEF h
  <2>2. h = b
    BY <1>2, <2>1, SameBlocks
  <2> QED BY <2>2 DEF Version, h
<1>5. b.jwt.secret = Incoming[1].secret /\ b.jwt.kid \in {ABSENT, Kid(1)} /\ b.jwt.previous = ABSENT
  BY <1>2, <1>3 DEF Rotates
<1>6. previousSecrets(b.jwt) = <<>> /\ DOMAIN <<>> = {}
  BY <1>5 DEF previousSecrets
<1>7. Serving(b, 1)
  BY <1>1, <1>4, <1>5, <1>6 DEF Serving
<1>8. Cur = 1 /\ Listed = <<>>
  BY <1>1, <1>6 DEF Cur, Listed
<1>9. FileInv
  BY <1>1, <1>6, <1>7, <1>8 DEF FileInv
<1>10. config = d
  BY <1>1, <1>2 DEF StartedWith
<1>11. config # NONE
  BY <1>3, <1>10 DEF Written, Atomic
<1>12. Begun = b
  BY <1>3, <1>4, <1>10 DEF Begun, Version
<1>13. ConfigInv
  BY <1>1, <1>7, <1>10, <1>11, <1>12 DEF ConfigInv
<1>14. Progress
  <2>1. \A i \in DOMAIN Incoming : ~(i < 1)
    BY RotationAssumption
  <2> QED BY <1>1, <1>2, <1>8, <2>1 DEF Progress, MAX_PREVIOUS_SECRETS
<1> QED BY <1>1, <1>9, <1>13, <1>14 DEF TokensInv

(* A step that is none of the rotation's leaves it alone.                   *)
LEMMA RotationKeeps ==
  ASSUME Atomic(ABSENT), Atomic(MALFORMED), Atomic(NONE), RotationInv, [ProcessNext]_allVars
  PROVE  RotationInv'
<1>1. ASSUME UNCHANGED <<life, config, file, now, issuer, step, tokens, retired>> PROVE RotationInv'
  <2>1. TokensInv => TokensInv'
    BY <1>1 DEF TokensInv
  <2> QED BY <1>1, <2>1, RotationStands DEF RotationInv, Rotating
<1>2. CASE Serves \/ Drains \/ DrainDeadline \/ CleansUp \/ Stops \/ UNCHANGED allVars
  <2>1. UNCHANGED <<life, config, file, now, issuer, step, tokens, retired>>
    BY <1>2 DEF Serves, CallArrives, Probed, CallerGate, ReadBody, ParseBody, AuthenticateCall,
                DecideCall, CallEnds, CallerLeaves, Closes, KeysTurn, OtherArrives, OtherEnds,
                Drains, DrainDeadline, CleansUp, Stops, own, world, rotation, allVars
  <2> QED BY <1>1, <2>1
<1>3. CASE Deploys
  <2>1. CASE Rotating
    BY <1>3, <2>1, MintKeeps, TickKeeps, StagingKeeps, MovingKeeps, SwappingKeeps, RestartingKeeps
       DEF Deploys
  <2>2. CASE ~Rotating
    <3>1. life' = life
      BY <1>3 DEF Deploys, Mint, Tick, StageIncoming, IssuerMoves, SwapRoles, Restart
    <3> QED BY <2>2, <3>1 DEF RotationInv, Rotating
  <2> QED BY <2>1, <2>2
<1> QED BY <1>2, <1>3 DEF ProcessNext

(* The rotation, whatever secrets, lifetimes and windows there are, however *)
(* the restarts fall and whatever the operator clears away: the invariant.  *)
THEOREM RotationInvariance ==
  ASSUME Atomic(ABSENT), Atomic(MALFORMED), Atomic(NONE) PROVE ProcessSpec => []RotationInv
<1>1. ProcessInit => RotationInv
  BY RotationBegins
<1>2. RotationInv /\ [ProcessNext]_allVars => RotationInv'
  BY RotationKeeps
<1> QED BY <1>1, <1>2, PTL DEF ProcessSpec

(* The documented rotation is outage-free (README.md:587-615): whenever it  *)
(* is that the verifier is started again, it starts, and it accepts every   *)
(* token the issuer has minted that has not expired.                        *)
THEOREM NoOutageHolds ==
  ASSUME Atomic(ABSENT), Atomic(MALFORMED), Atomic(NONE) PROVE ProcessSpec => []NoOutage
<1>1. RotationInv => NoOutage
  <2> SUFFICES ASSUME RotationInv, Rotating
               PROVE  config # NONE /\ \A t \in tokens : Verdict(config, Shown(t)) = "ok"
    BY DEF NoOutage, Shown
  <2>1. life \in Lives /\ Progress /\ ConfigInv /\ TokensInv
    BY DEF RotationInv
  <2>2. PICK c \in 1..issuer : Serving(Begun, c)
    BY <2>1 DEF ConfigInv
  <2> DEFINE listed == previousSecrets(Begun.jwt)
  <2>3. ASSUME NEW t \in tokens PROVE Verdict(config, Shown(t)) = "ok"
    <3>1. PICK j \in 1..issuer : \E kid \in {Kid(j), ABSENT} : \E iat \in 0..now :
            t = TokenOf(j, kid, iat) /\ now < iat + TTL /\ (retired[j] # NONE => iat <= retired[j])
      BY <2>1 DEF TokensInv
    <3>2. PICK kid \in {Kid(j), ABSENT}, iat \in 0..now :
            t = TokenOf(j, kid, iat) /\ now < iat + TTL /\ (retired[j] # NONE => iat <= retired[j])
      BY <3>1
    <3>3. j \in DOMAIN Incoming /\ now \in Nat /\ TTL \in Nat
      BY <2>1, LifeAssumption, RotationAssumption DEF Progress, Rotating, MAX_PREVIOUS_SECRETS
    <3>4. InForce(Begun, j)
      <4>1. CASE j = c
        BY <2>2, <4>1 DEF Serving, InForce
      <4>2. CASE j # c
        <5>1. Covered(listed, j)
          BY <2>2, <4>2 DEF Serving
        <5>2. j \in DOMAIN listed /\ listed[j].expiresAt > now
          <6>1. CASE j = issuer
            BY <5>1, <6>1 DEF Covered
          <6>2. CASE j # issuer
            <7>1. retired[j] \in Nat
              BY <5>1, <6>2 DEF Covered
            <7>2. iat <= retired[j]
              BY <3>2, <7>1, NumbersAreThere
            <7>3. ~(retired[j] + TTL <= now)
              BY <3>2, <3>3, <7>1, <7>2
            <7>4. j \in DOMAIN listed /\ listed[j].expiresAt >= retired[j] + TTL
              BY <5>1, <6>2, <7>3 DEF Covered
            <7>5. listed[j].expiresAt \in Nat
              BY <2>2, <7>4 DEF Serving
            <7> QED BY <3>3, <7>1, <7>3, <7>4, <7>5
          <6> QED BY <6>1, <6>2
        <5>3. listed[j] = Entry(j, listed[j].expiresAt) /\ Begun.jwt.kid # ABSENT
          <6>1. Begun.jwt.kid = Kid(c) /\ c \in DOMAIN Incoming
            BY <2>1, <2>2, <5>2, RotationAssumption DEF Serving, Progress, Rotating, MAX_PREVIOUS_SECRETS
          <6> QED BY <2>2, <5>2, <6>1, RotationAssumption DEF Serving, Given
        <5> QED BY <5>2, <5>3 DEF InForce
      <4> QED BY <4>1, <4>2
    <3>5. Version(Begun) /\ config = Effective(Begun, life.fromFile)
      BY <2>1, <2>2 DEF Serving, ConfigInv
    <3> QED BY <2>1, <3>2, <3>3, <3>4, <3>5, VersionServes
  <2> QED BY <2>1, <2>3 DEF ConfigInv
<1> QED BY <1>1, RotationInvariance, PTL

(* A retired secret dies with its window, at a verifier started since the   *)
(* roles were swapped, with no restart when the window closes, and the      *)
(* coming secret verifies nothing before it is staged (README.md:612).      *)
THEOREM RetiredDiesHolds ==
  ASSUME Atomic(ABSENT), Atomic(MALFORMED), Atomic(NONE) PROVE ProcessSpec => []RetiredDies
<1>1. RotationInv => RetiredDies
  <2> SUFFICES ASSUME RotationInv, Rotating, NEW i \in DOMAIN Incoming, NEW kid,
                      \/ /\ retired[i] # NONE /\ now >= retired[i] + TTL + Buffer
                         /\ config = Effective(file, life.fromFile)
                      \/ i > issuer + 1
               PROVE  Verdict(config, Shown(TokenOf(i, kid, now))) # "ok"
    BY DEF RetiredDies, Shown
  <2>1. life \in Lives /\ Progress /\ FileInv /\ ConfigInv
    BY DEF RotationInv
  <2>2. /\ 1..(life.rotations + 1) \subseteq DOMAIN Incoming /\ 1..issuer \subseteq DOMAIN Incoming
        /\ issuer \in Nat /\ now \in Nat /\ TTL \in Nat /\ Buffer \in Nat /\ i \in Nat
    BY <2>1, LifeAssumption, RotationAssumption DEF Progress, Rotating, MAX_PREVIOUS_SECRETS
  <2>3. CASE retired[i] # NONE /\ now >= retired[i] + TTL + Buffer /\ config = Effective(file, life.fromFile)
    <3>1. i < Cur /\ retired[i] \in Nat
      BY <2>1, <2>3 DEF Progress
    <3>2. Serving(file, Cur)
      BY <2>1 DEF FileInv
    <3>3. Version(file) /\ Cur \in DOMAIN Incoming /\ Cur # i /\ file.jwt.secret = Incoming[Cur].secret
      BY <2>2, <3>1, <3>2 DEF Serving
    <3>4. /\ DOMAIN Listed \subseteq DOMAIN Incoming
          /\ \A j \in DOMAIN Listed :
               Listed[j] = Entry(j, Listed[j].expiresAt) /\ Listed[j].expiresAt \in Nat
      BY <2>2, <3>2 DEF Serving, Listed
    <3>5. i \in DOMAIN Listed => ~(Listed[i].expiresAt > now)
      BY <2>1, <2>2, <2>3, <3>1, <3>4 DEF FileInv
    <3> QED BY <2>1, <2>3, <3>3, <3>4, <3>5, VersionRefuses DEF Listed
  <2>4. CASE i > issuer + 1
    <3>1. PICK c \in 1..issuer : Serving(Begun, c)
      BY <2>1 DEF ConfigInv
    <3> DEFINE listed == previousSecrets(Begun.jwt)
    <3>2. /\ Version(Begun) /\ c \in DOMAIN Incoming /\ c # i
          /\ Begun.jwt.secret = Incoming[c].secret
      BY <2>2, <2>4, <3>1 DEF Serving
    <3>3. /\ DOMAIN listed \subseteq DOMAIN Incoming
          /\ \A j \in DOMAIN listed :
               listed[j] = Entry(j, listed[j].expiresAt) /\ listed[j].expiresAt \in Nat
      BY <2>2, <3>1 DEF Serving
    <3>4. i \notin DOMAIN listed
      BY <2>2, <2>4, <3>1 DEF Serving
    <3>5. config = Effective(Begun, life.fromFile)
      BY <2>1 DEF ConfigInv
    <3> QED BY <2>1, <3>2, <3>3, <3>4, <3>5, VersionRefuses
  <2> QED BY <2>3, <2>4
<1> QED BY <1>1, RotationInvariance, PTL

-----------------------------------------------------------------------------
(* What a boot promises.  Every knob's default is within its own range, and *)
(* what a timer is given by default, a timer can hold.                      *)
LEMMA DefaultsInRange ==
  ASSUME NEW name \in DOMAIN NUMERIC_BOUNDS \ {"port"}
  PROVE  LET b == NUMERIC_BOUNDS[name] IN
         /\ b.fallback \in Nat /\ b.minimum \in {0, 1} /\ b.fallback >= b.minimum
         /\ b.maximum = MAX_TIMER_MS => b.fallback <= MAX_TIMER_MS
<1>1. ABSENT # MAX_TIMER_MS
  BY LifeAssumption, TimerAssumption
<1>2. \A n \in Nat : Timer(n).fallback = n /\ Timer(n).minimum = 1
  BY DEF Timer, Bound
<1>3. \A n \in Nat : /\ Count(n).fallback = n /\ Count(n).minimum = 1
                     /\ Count(n).maximum # MAX_TIMER_MS
  BY <1>1 DEF Count, Bound
<1>4. CASE name \in {"jwksTimeoutMs", "collectorTimeoutMs", "collectorDeadlineMs", "ruleTimeoutMs",
                     "evaluateDeadlineMs"}
  <2>1. NUMERIC_BOUNDS[name] \in {Timer(2000), Timer(5000)}
    BY <1>4 DEF NUMERIC_BOUNDS
  <2> QED BY <1>2, <2>1, TimerAssumption
<1>5. CASE name = "jwksCooldownMs"
  <2>1. NUMERIC_BOUNDS[name] = Bound(30000, 0, ABSENT)
    BY <1>5 DEF NUMERIC_BOUNDS
  <2> QED BY <1>1, <2>1 DEF Bound
<1>6. CASE name = "clockToleranceSeconds"
  <2>1. NUMERIC_BOUNDS[name] = Bound(0, 0, 300)
    BY <1>6 DEF NUMERIC_BOUNDS
  <2> QED BY <2>1, TimerAssumption DEF Bound
<1>7. CASE name \notin {"jwksTimeoutMs", "collectorTimeoutMs", "collectorDeadlineMs", "ruleTimeoutMs",
                        "evaluateDeadlineMs", "jwksCooldownMs", "clockToleranceSeconds"}
  <2>1. PICK n \in Nat : NUMERIC_BOUNDS[name] = Count(n) /\ n >= 1
    BY <1>7 DEF NUMERIC_BOUNDS
  <2> QED BY <1>3, <2>1
<1> QED BY <1>4, <1>5, <1>6, <1>7

(* What boots has every bound in its range, written or not: each is         *)
(* resolved by something createApp calls.                                   *)
LEMMA KnobsHold ==
  ASSUME NEW c, createApp(c), NamesMean(c),
         NEW name \in DOMAIN NUMERIC_BOUNDS \ ({"port"} \cup JwksKnobs)
  PROVE  LET n == resolveBound(c, name) IN
         /\ n # MALFORMED /\ n \in Nat /\ n >= (IF NUMERIC_BOUNDS[name].minimum = 0 THEN 0 ELSE 1)
         /\ NUMERIC_BOUNDS[name].maximum = MAX_TIMER_MS => n <= MAX_TIMER_MS
<1> DEFINE b == NUMERIC_BOUNDS[name]
           n == resolveBound(c, name)
<1>1. /\ b.fallback \in Nat /\ b.minimum \in {0, 1} /\ b.fallback >= b.minimum
      /\ b.maximum = MAX_TIMER_MS => b.fallback <= MAX_TIMER_MS
  BY DefaultsInRange
<1>2. CASE c.knob.name = name /\ c.knob.written # ABSENT
  <2>1. \E names : name \in names /\ Resolvable(c, names)
    <3>1. name \in JwtKnobs \cup RouterKnobs
                   \cup {"collectorTimeoutMs", "collectorDeadlineMs", "collectorConcurrency"}
      BY DEF NUMERIC_BOUNDS, JwksKnobs, JwtKnobs, RouterKnobs
    <3>2. CASE name \in JwtKnobs
      <4>1. c.jwt # ABSENT
        BY <1>2, <3>2 DEF NamesMean
      <4>2. JwtTokenAuthenticatorFactory(c)
        BY <4>1 DEF createApp, checkTokenAuthenticatorSelection
      <4> QED BY <3>2, <4>2 DEF JwtTokenAuthenticatorFactory
    <3>3. CASE name \in RouterKnobs
      BY <3>3 DEF createApp, createVerifyRouter
    <3>4. CASE name \in {"collectorTimeoutMs", "collectorDeadlineMs", "collectorConcurrency"}
      BY <3>4 DEF createApp
    <3> QED BY <3>1, <3>2, <3>3, <3>4
  <2>2. n = c.knob.written
    BY <1>2 DEF resolveBound
  <2>3. /\ n # MALFORMED /\ n >= b.minimum
        /\ b.maximum = ABSENT \/ n <= b.maximum
    BY <1>2, <2>1, <2>2 DEF Resolvable
  <2>4. n \in Int
    BY <1>2, <2>2, <2>3 DEF NamesMean
  <2>5. ABSENT # MAX_TIMER_MS
    BY LifeAssumption, TimerAssumption
  <2> HIDE DEF n, b
  <2>6. /\ n \in Nat /\ n >= (IF b.minimum = 0 THEN 0 ELSE 1)
        /\ b.maximum = MAX_TIMER_MS => n <= MAX_TIMER_MS
    <3>1. CASE b.minimum = 0
      BY <2>3, <2>4, <2>5, <3>1
    <3>2. CASE b.minimum = 1
      BY <2>3, <2>4, <2>5, <3>2
    <3> QED BY <1>1, <3>1, <3>2
  <2> QED BY <2>3, <2>6 DEF n, b
<1>3. CASE ~(c.knob.name = name /\ c.knob.written # ABSENT)
  <2>1. n = b.fallback
    BY <1>3 DEF resolveBound
  <2>2. n # MALFORMED
    BY <1>1, <2>1, NumbersAreThere
  <2> HIDE DEF n, b
  <2>3. /\ n \in Nat /\ n >= (IF b.minimum = 0 THEN 0 ELSE 1)
        /\ b.maximum = MAX_TIMER_MS => n <= MAX_TIMER_MS
    BY <1>1, <2>1
  <2> QED BY <2>2, <2>3 DEF n, b
<1> QED BY <1>2, <1>3

(* A gate that boots opens for a secret a caller can present.               *)
LEMMA GateOpens ==
  ASSUME NEW c, createApp(c), NamesMean(c)
  PROVE  \E presented \in Deliverable \cup {ABSENT} : CallerPasses(resolveCallerAuth(c), presented)
<1>1. callerAuthOk(c.callerAuth)
  BY DEF createApp
<1>2. CASE c.callerAuth = ABSENT
  BY <1>2 DEF resolveCallerAuth, CallerPasses
<1>3. CASE c.callerAuth # ABSENT
  <2>1. /\ c.callerAuth # MALFORMED
        /\ c.callerAuth.token = ABSENT \/ checkCallerAuthToken(c.callerAuth.token)
    BY <1>1, <1>3 DEF callerAuthOk
  <2>2. c.callerAuth.token \in Deliverable \cup {ABSENT}
    BY <1>3, <2>1 DEF NamesMean
  <2> QED BY <1>3, <2>2 DEF resolveCallerAuth, CallerPasses
<1> QED BY <1>2, <1>3

(* The token authenticator a boot builds, where it is the built-in one.     *)
Built(jwt) ==
  /\ jwt.mode \in {"verify", "insecure-decode"} /\ jwt.maxTokenAge \in Nat /\ jwt.tolerance \in Nat
  /\ jwt.mode = "verify" =>
       /\ "iss" \in jwt.issuer /\ "other" \notin jwt.issuer
       /\ "api" \in jwt.audience /\ "other" \notin jwt.audience
       /\ jwt.tokenType \in {"*", "at+jwt"}
       /\ jwt.algorithm = "HS256" =>
            /\ SecretKey(jwt.secret, EncodingOf(jwt.encoding))[1] # "nobody"
            /\ DOMAIN previousSecrets(jwt) # {} => jwt.kid # ABSENT
            /\ \A i \in DOMAIN previousSecrets(jwt) : previousSecrets(jwt)[i].kid # jwt.kid

(* What boots is built so.                                                  *)
LEMMA BootBuilds ==
  ASSUME NEW c, createApp(c), NamesMean(c), authenticatorOf(c) = "jwt"
  PROVE  Built(Authenticator(c))
<1> DEFINE jwt == Authenticator(c)
<1>1. c.jwt # ABSENT /\ JwtTokenAuthenticatorFactory(c)
  BY DEF createApp, checkTokenAuthenticatorSelection
<1>2. jwt.mode = Default(c.jwt.mode, "verify") /\ jwt.mode \in {"verify", "insecure-decode"}
  BY <1>1 DEF JwtTokenAuthenticatorFactory, Authenticator
<1>3. jwt.maxTokenAge \in Nat /\ jwt.tolerance \in Nat
  <2>1. {"maxTokenAgeSeconds", "clockToleranceSeconds"}
          \subseteq DOMAIN NUMERIC_BOUNDS \ ({"port"} \cup JwksKnobs)
    BY DEF NUMERIC_BOUNDS, JwksKnobs
  <2>2. /\ resolveBound(c, "maxTokenAgeSeconds") \in Nat
        /\ resolveBound(c, "clockToleranceSeconds") \in Nat
    BY <2>1, KnobsHold
  <2> QED BY <2>2 DEF Authenticator
<1>4. ASSUME jwt.mode = "verify"
      PROVE  /\ isPresent(c.jwt.issuer) /\ isPresent(c.jwt.audience) /\ Given(c.jwt.tokenType)
             /\ c.jwt.algorithm = "HS256" =>
                  c.jwt.secret # ABSENT /\ checkHs256Rotation(c.jwt)
  <2>1. assertVerifyRouterJwtConfig(c.jwt) /\ KeyResolverFactory(c)
    BY <1>1, <1>2, <1>4 DEF JwtTokenAuthenticatorFactory
  <2>2. c.jwt.algorithm = "HS256" => c.jwt.secret # ABSENT /\ checkHs256Rotation(c.jwt)
    BY <2>1 DEF KeyResolverFactory, Asymmetric
  <2> QED BY <2>1, <2>2 DEF assertVerifyRouterJwtConfig
<1>5. /\ jwt.issuer = c.jwt.issuer /\ jwt.audience = c.jwt.audience /\ jwt.tokenType = c.jwt.tokenType
      /\ jwt.algorithm = c.jwt.algorithm /\ jwt.secret = c.jwt.secret /\ jwt.kid = c.jwt.kid
      /\ previousSecrets(jwt) = previousSecrets(c.jwt)
  BY DEF Authenticator, previousSecrets
<1> HIDE DEF jwt
<1>6. ASSUME jwt.mode = "verify"
      PROVE  /\ "iss" \in jwt.issuer /\ "other" \notin jwt.issuer
             /\ "api" \in jwt.audience /\ "other" \notin jwt.audience
             /\ jwt.tokenType \in {"*", "at+jwt"}
  BY <1>1, <1>4, <1>5, <1>6 DEF NamesMean
<1>7. ASSUME jwt.mode = "verify", jwt.algorithm = "HS256"
      PROVE  /\ SecretKey(jwt.secret, EncodingOf(jwt.encoding))[1] # "nobody"
             /\ DOMAIN previousSecrets(jwt) # {} => jwt.kid # ABSENT
             /\ \A i \in DOMAIN previousSecrets(jwt) : previousSecrets(jwt)[i].kid # jwt.kid
  <2>1. c.jwt.secret # ABSENT /\ checkHs256Rotation(c.jwt)
    BY <1>4, <1>5, <1>7
  <2>2. jwt.secret.id # "nobody"
    BY <1>1, <1>5, <2>1 DEF NamesMean
  <2>3. SecretKey(jwt.secret, EncodingOf(jwt.encoding))[1] = jwt.secret.id
    BY DEF SecretKey
  <2>4. /\ DOMAIN previousSecrets(jwt) # {} => jwt.kid # ABSENT
        /\ \A i \in DOMAIN previousSecrets(jwt) : previousSecrets(jwt)[i].kid # jwt.kid
    BY <1>5, <2>1 DEF checkHs256Rotation, Given
  <2> QED BY <2>2, <2>3, <2>4
<1>8. Built(jwt)
  BY <1>2, <1>3, <1>6, <1>7 DEF Built
<1> QED BY <1>8 DEF jwt

(* It verifies a token of its own kid with its issuer's key, no other.      *)
LEMMA OwnKey ==
  ASSUME NEW jwt, Built(jwt), jwt.mode = "verify", NEW t, t.kid = jwt.kid, NEW moment
  PROVE  /\ KeysFor(jwt, t, moment, Published) = {IssuerKey(jwt)}
         /\ <<"nobody", "utf8">> # IssuerKey(jwt)
<1>1. CASE jwt.algorithm = "HS256"
  <2> DEFINE current == SecretKey(jwt.secret, EncodingOf(jwt.encoding))
             mine == [kid |-> jwt.kid, key |-> current, until |-> ABSENT]
             held == Hs256Keys(jwt)
             listed == previousSecrets(jwt)
  <2>1. IssuerKey(jwt) = current /\ current[1] # "nobody"
    BY <1>1 DEF IssuerKey, Built
  <2>2. CASE jwt.kid = ABSENT /\ DOMAIN listed = {}
    BY <1>1, <2>1, <2>2 DEF KeysFor
  <2>3. CASE ~(jwt.kid = ABSENT /\ DOMAIN listed = {})
    <3>1. jwt.kid # ABSENT /\ \A i \in DOMAIN listed : listed[i].kid # jwt.kid
      BY <1>1, <2>3 DEF Built
    <3>2. mine \in held /\ mine.kid = jwt.kid /\ mine.key = current /\ isLive(mine, moment)
      BY DEF Hs256Keys, isLive
    <3>3. \A e \in held : e.kid = jwt.kid => e = mine
      <4> SUFFICES ASSUME NEW e \in held, e.kid = jwt.kid, e # mine PROVE FALSE
        OBVIOUS
      <4>1. PICK i \in DOMAIN listed :
              e = [kid |-> listed[i].kid, key |-> SecretKey(listed[i].secret, EncodingOf(jwt.encoding)),
                   until |-> listed[i].expiresAt]
        BY DEF Hs256Keys
      <4> QED BY <3>1, <4>1
    <3> HIDE DEF held, mine, current
    <3>4. rotatingKeys(held, current, t, moment) = {current}
      BY <3>1, <3>2, <3>3 DEF rotatingKeys
    <3>5. KeysFor(jwt, t, moment, Published) = rotatingKeys(held, current, t, moment)
      BY <1>1, <2>3 DEF KeysFor, held, current
    <3> QED BY <2>1, <3>4, <3>5
  <2> QED BY <2>1, <2>2, <2>3
<1>2. CASE jwt.algorithm # "HS256"
  BY <1>2 DEF KeysFor, IssuerKey, Published
<1> QED BY <1>1, <1>2

(* Its verdict, while the provider answers, on a token that is one.         *)
LEMMA Judges ==
  ASSUME Atomic(ABSENT), NEW jwt, Built(jwt), NEW t, t # ABSENT, t.cnf = FALSE, NEW moment
  PROVE  authenticate(jwt, Shown(t), moment, "answered", Published) = "ok" <=>
           IF jwt.mode = "insecure-decode"
           THEN assertTimeClaims(t, jwt.maxTokenAge, jwt.tolerance, moment)
           ELSE t.alg = jwt.algorithm /\ Verified(jwt, t, KeysFor(jwt, t, moment, Published), moment)
<1>1. Shown(t) # ABSENT /\ Shown(t).scheme = "bearer" /\ Shown(t).token = t
  BY DEF Shown, Atomic
<1>2. ~isVerificationUnavailable(jwt, t, "answered")
  BY DEF isVerificationUnavailable
<1> QED BY <1>1, <1>2 DEF authenticate

(* An honest token is within its time, whatever the limits.                 *)
LEMMA HonestInTime ==
  ASSUME NEW jwt, Built(jwt), now \in Nat,
         NEW t, t.iat = now, t.exp = now + TTL, t.nbf = ABSENT
  PROVE  assertTimeClaims(t, jwt.maxTokenAge, jwt.tolerance, now)
<1>1. TTL \in Nat /\ TTL > 0 /\ now + TTL \in Nat
  BY LifeAssumption
<1>2. {now, now + TTL} \cap {ABSENT, MALFORMED} = {}
  BY <1>1, NumbersAreThere
<1>3. jwt.maxTokenAge \in Nat /\ jwt.tolerance \in Nat
  BY DEF Built
<1>4. now + TTL > now - jwt.tolerance /\ (now - now) - jwt.tolerance <= jwt.maxTokenAge
      /\ now - now >= -jwt.tolerance
  BY <1>1, <1>3
<1> QED BY <1>2, <1>4 DEF assertTimeClaims

(* What is the issuer's in all its claims is verified.                      *)
LEMMA HonestVerifies ==
  ASSUME NEW jwt, Built(jwt), jwt.mode = "verify", now \in Nat,
         NEW t, t.kid = jwt.kid, t.signer = IssuerKey(jwt), t.iss = "iss", t.alg = jwt.algorithm,
         t.typ = (IF jwt.tokenType = "*" THEN "JWT" ELSE "at+jwt"),
         t.aud.kind = "array", t.aud.has = {"api"}, t.azp.kind = "string", t.azp.has = {"api"},
         assertTimeClaims(t, jwt.maxTokenAge, jwt.tolerance, now)
  PROVE  Verified(jwt, t, KeysFor(jwt, t, now, Published), now)
<1>1. t.signer \in KeysFor(jwt, t, now, Published)
  BY OwnKey
<1>2. "iss" \in jwt.issuer /\ "api" \in jwt.audience /\ jwt.tokenType \in {"*", "at+jwt"}
  BY DEF Built
<1>3. joseAudienceMatches(t.aud, jwt.audience) /\ audienceMatches(t.azp, jwt.audience)
  BY <1>2 DEF joseAudienceMatches, audienceMatches
<1> QED BY <1>1, <1>2, <1>3 DEF Verified

(* What a token that is not the issuer's, or not of its deployment, lacks.  *)
LEMMA OthersFail ==
  ASSUME NEW jwt, Built(jwt), jwt.mode = "verify", now \in Nat, NEW t, t.kid = jwt.kid,
         \/ t.signer = <<"nobody", "utf8">>
         \/ t.iss = "other"
         \/ t.aud.has = {"other"} /\ t.azp.has = {"other"}
         \/ t.typ = "refresh" /\ jwt.tokenType # "*"
  PROVE  ~Verified(jwt, t, KeysFor(jwt, t, now, Published), now)
<1>1. /\ "other" \notin jwt.issuer /\ "other" \notin jwt.audience
      /\ jwt.tokenType \in {"*", "at+jwt"}
  BY DEF Built
<1>2. KeysFor(jwt, t, now, Published) = {IssuerKey(jwt)} /\ <<"nobody", "utf8">> # IssuerKey(jwt)
  BY OwnKey
<1>3. CASE t.signer = <<"nobody", "utf8">>
  BY <1>2, <1>3 DEF Verified
<1>4. CASE t.iss = "other"
  BY <1>1, <1>4 DEF Verified
<1>5. CASE t.aud.has = {"other"} /\ t.azp.has = {"other"}
  <2>1. ~joseAudienceMatches(t.aud, jwt.audience) /\ ~audienceMatches(t.azp, jwt.audience)
    BY <1>1, <1>5 DEF joseAudienceMatches, audienceMatches
  <2> QED BY <2>1 DEF Verified
<1>6. CASE t.typ = "refresh" /\ jwt.tokenType # "*"
  BY <1>1, <1>6 DEF Verified
<1> QED BY <1>3, <1>4, <1>5, <1>6

(* A token without an expiry, or older than a verifier allows, is refused   *)
(* whatever the mode.                                                       *)
LEMMA StaleFails ==
  ASSUME NEW jwt, Built(jwt), now \in Nat, NEW t,
         t.exp = ABSENT \/ t.iat = now - jwt.maxTokenAge - jwt.tolerance - 1
  PROVE  /\ ~assertTimeClaims(t, jwt.maxTokenAge, jwt.tolerance, now)
         /\ ~Verified(jwt, t, KeysFor(jwt, t, now, Published), now)
<1>1. jwt.maxTokenAge \in Nat /\ jwt.tolerance \in Nat
  BY DEF Built
<1>2. CASE t.exp = ABSENT
  BY <1>2 DEF assertTimeClaims, Verified
<1>3. CASE t.iat = now - jwt.maxTokenAge - jwt.tolerance - 1
  <2>1. ~((now - t.iat) - jwt.tolerance <= jwt.maxTokenAge)
    BY <1>1, <1>3
  <2> QED BY <2>1 DEF assertTimeClaims, Verified
<1> QED BY <1>2, <1>3

(* The claims an honest token carries.                                      *)
LEMMA HonestIs ==
  ASSUME NEW jwt
  PROVE  LET t == HonestToken(jwt) IN
         /\ t.cnf = FALSE /\ t.iat = now /\ t.exp = now + TTL /\ t.nbf = ABSENT
         /\ t.iss = "iss" /\ t.alg = jwt.algorithm /\ t.kid = jwt.kid /\ t.signer = IssuerKey(jwt)
         /\ t.typ = (IF jwt.tokenType = "*" THEN "JWT" ELSE "at+jwt")
         /\ t.aud = [kind |-> "array", has |-> {"api"}]
         /\ t.azp = [kind |-> "string", has |-> {"api"}]
         /\ {"signer", "typ", "iss", "iat", "exp", "aud", "azp"} \subseteq DOMAIN t
         /\ t = [field \in DOMAIN t |-> t[field]]
<1> DEFINE t == HonestToken(jwt)
<1>1. /\ t.cnf = FALSE /\ t.iat = now /\ t.exp = now + TTL /\ t.nbf = ABSENT
      /\ t.iss = "iss" /\ t.alg = jwt.algorithm /\ t.kid = jwt.kid /\ t.signer = IssuerKey(jwt)
      /\ t.aud = [kind |-> "array", has |-> {"api"}]
      /\ t.azp = [kind |-> "string", has |-> {"api"}]
  BY DEF HonestToken
<1>2. t.typ = (IF jwt.tokenType = "*" THEN "JWT" ELSE "at+jwt")
  BY DEF HonestToken
<1>3. {"signer", "typ", "iss", "iat", "exp", "aud", "azp"} \subseteq DOMAIN t
  BY DEF HonestToken
<1>4. t = [field \in DOMAIN t |-> t[field]]
  BY DEF HonestToken
<1> QED BY <1>1, <1>2, <1>3, <1>4

(* What boots gives the service it promises.                                *)
LEMMA BootServes ==
  ASSUME Atomic(ABSENT), now \in Nat, config # NONE, createApp(config), NamesMean(config)
  PROVE  BootMeansService
<1>1. \E presented \in Deliverable \cup {ABSENT} :
        CallerPasses(resolveCallerAuth(config), presented)
  BY GateOpens
<1>2. ASSUME NEW name \in DOMAIN NUMERIC_BOUNDS \ ({"port"} \cup JwksKnobs)
      PROVE  LET n == resolveBound(config, name) IN
             /\ n # MALFORMED /\ n >= (IF NUMERIC_BOUNDS[name].minimum = 0 THEN 0 ELSE 1)
             /\ NUMERIC_BOUNDS[name].maximum = MAX_TIMER_MS => n <= MAX_TIMER_MS
  BY KnobsHold
<1> DEFINE jwt == Authenticator(config)
           issuing == IF jwt.mode = "verify" THEN jwt
                      ELSE [jwt EXCEPT !.algorithm = "RS256", !.jwksUri = "https"]
           honest == HonestToken(issuing)
           aged == now - resolveBound(config, "maxTokenAgeSeconds")
                       - resolveBound(config, "clockToleranceSeconds") - 1
<1>3. ASSUME authenticatorOf(config) = "jwt", keysUp
      PROVE  /\ Accepts(honest)
             /\ jwt.mode # "insecure-decode" =>
                  /\ ~Accepts([honest EXCEPT !.signer = <<"nobody", "utf8">>])
                  /\ ~Accepts([honest EXCEPT !.iss = "other"])
                  /\ ~Accepts([honest EXCEPT !.aud.has = {"other"}, !.azp.has = {"other"}])
                  /\ jwt.tokenType # "*" => ~Accepts([honest EXCEPT !.typ = "refresh"])
             /\ ~Accepts([honest EXCEPT !.exp = ABSENT])
             /\ ~Accepts([honest EXCEPT !.iat = aged])
  <2>1. Built(jwt)
    BY <1>3, BootBuilds
  <2>2. jwt.maxTokenAge = resolveBound(config, "maxTokenAgeSeconds")
        /\ jwt.tolerance = resolveBound(config, "clockToleranceSeconds")
    BY DEF Authenticator
  <2> DEFINE verdict(t) == authenticate(jwt, Shown(t), now, "answered", Published)
  <2>3. \A t : Accepts(t) <=> verdict(t) = "ok"
    BY <1>3 DEF Accepts, Verdict, Shown
  <2>4. jwt.mode \in {"verify", "insecure-decode"}
    BY <2>1 DEF Built
  <2> HIDE DEF jwt, verdict
  <2>5. \A t : t # ABSENT /\ t.cnf = FALSE =>
          (verdict(t) = "ok" <=>
             IF jwt.mode = "insecure-decode"
             THEN assertTimeClaims(t, jwt.maxTokenAge, jwt.tolerance, now)
             ELSE t.alg = jwt.algorithm /\ Verified(jwt, t, KeysFor(jwt, t, now, Published), now))
    BY <2>1, Judges DEF verdict
  <2>6. /\ honest.cnf = FALSE /\ honest.iat = now /\ honest.exp = now + TTL /\ honest.nbf = ABSENT
        /\ honest.iss = "iss" /\ honest.alg = issuing.algorithm /\ honest.kid = issuing.kid
        /\ honest.signer = IssuerKey(issuing)
        /\ honest.typ = (IF issuing.tokenType = "*" THEN "JWT" ELSE "at+jwt")
        /\ honest.aud = [kind |-> "array", has |-> {"api"}]
        /\ honest.azp = [kind |-> "string", has |-> {"api"}]
        /\ {"signer", "typ", "iss", "iat", "exp", "aud", "azp"} \subseteq DOMAIN honest
        /\ honest = [field \in DOMAIN honest |-> honest[field]]
    <3> HIDE DEF issuing
    <3> QED BY HonestIs
  <2>7. jwt.mode = "verify" => issuing = jwt
    OBVIOUS
  <2> HIDE DEF issuing, honest
  <2>8. Accepts(honest)
    <3>1. honest # ABSENT
      BY <2>6 DEF Atomic
    <3>2. assertTimeClaims(honest, jwt.maxTokenAge, jwt.tolerance, now)
      BY <2>1, <2>6, HonestInTime
    <3>3. CASE jwt.mode = "insecure-decode"
      BY <2>3, <2>5, <2>6, <3>1, <3>2, <3>3
    <3>4. CASE jwt.mode = "verify"
      <4>1. Verified(jwt, honest, KeysFor(jwt, honest, now, Published), now)
        BY <2>1, <2>6, <2>7, <3>2, <3>4, HonestVerifies
      <4> QED BY <2>3, <2>5, <2>6, <2>7, <3>1, <3>4, <4>1
    <3> QED BY <2>4, <3>3, <3>4
  <2>9. ASSUME NEW t, t = [field \in DOMAIN honest |-> t[field]], t.cnf = FALSE, Accepts(t)
        PROVE  IF jwt.mode = "insecure-decode"
               THEN assertTimeClaims(t, jwt.maxTokenAge, jwt.tolerance, now)
               ELSE t.alg = jwt.algorithm /\ Verified(jwt, t, KeysFor(jwt, t, now, Published), now)
    <3>1. t # ABSENT
      BY <2>9 DEF Atomic
    <3> QED BY <2>3, <2>5, <2>9, <3>1
  <2>10. ASSUME jwt.mode # "insecure-decode"
         PROVE  /\ ~Accepts([honest EXCEPT !.signer = <<"nobody", "utf8">>])
                /\ ~Accepts([honest EXCEPT !.iss = "other"])
                /\ ~Accepts([honest EXCEPT !.aud.has = {"other"}, !.azp.has = {"other"}])
                /\ jwt.tokenType # "*" => ~Accepts([honest EXCEPT !.typ = "refresh"])
    <3> DEFINE forged == [honest EXCEPT !.signer = <<"nobody", "utf8">>]
               foreign == [honest EXCEPT !.iss = "other"]
               elsewhere == [honest EXCEPT !.aud.has = {"other"}, !.azp.has = {"other"}]
               refresh == [honest EXCEPT !.typ = "refresh"]
    <3>1. /\ forged = [field \in DOMAIN honest |-> forged[field]]
          /\ forged.cnf = FALSE /\ forged.kid = honest.kid /\ forged.signer = <<"nobody", "utf8">>
      BY <2>6
    <3>2. /\ foreign = [field \in DOMAIN honest |-> foreign[field]]
          /\ foreign.cnf = FALSE /\ foreign.kid = honest.kid /\ foreign.iss = "other"
      BY <2>6
    <3>3. /\ elsewhere = [field \in DOMAIN honest |-> elsewhere[field]]
          /\ elsewhere.cnf = FALSE /\ elsewhere.kid = honest.kid
          /\ elsewhere.aud.has = {"other"} /\ elsewhere.azp.has = {"other"}
      <4> DEFINE aud == [honest.aud EXCEPT !.has = {"other"}]
                 azp == [honest.azp EXCEPT !.has = {"other"}]
                 half == [honest EXCEPT !.aud = aud]
                 whole == [half EXCEPT !.azp = azp]
      <4>1. elsewhere = whole
        BY <2>6
      <4>2. aud.has = {"other"} /\ azp.has = {"other"}
        BY <2>6
      <4> HIDE DEF aud, azp, elsewhere
      <4>3. /\ DOMAIN half = DOMAIN honest /\ half.aud = aud
            /\ half.cnf = FALSE /\ half.kid = honest.kid
        BY <2>6
      <4> HIDE DEF half
      <4>4. /\ whole = [field \in DOMAIN honest |-> whole[field]]
            /\ whole.cnf = FALSE /\ whole.kid = honest.kid
            /\ whole.aud = aud /\ whole.azp = azp
        BY <2>6, <4>3
      <4> QED BY <4>1, <4>2, <4>4, Zenon
    <3>4. /\ refresh = [field \in DOMAIN honest |-> refresh[field]]
          /\ refresh.cnf = FALSE /\ refresh.kid = honest.kid /\ refresh.typ = "refresh"
      BY <2>6
    <3>5. jwt.mode = "verify" /\ honest.kid = jwt.kid
      BY <2>4, <2>6, <2>7, <2>10
    <3> HIDE DEF forged, foreign, elsewhere, refresh
    <3>6. ~Accepts(forged)
      BY <2>1, <2>9, <3>1, <3>5, OthersFail
    <3>7. ~Accepts(foreign)
      BY <2>1, <2>9, <3>2, <3>5, OthersFail
    <3>8. ~Accepts(elsewhere)
      BY <2>1, <2>9, <3>3, <3>5, OthersFail
    <3>9. jwt.tokenType # "*" => ~Accepts(refresh)
      BY <2>1, <2>9, <3>4, <3>5, OthersFail
    <3> QED BY <3>6, <3>7, <3>8, <3>9 DEF forged, foreign, elsewhere, refresh
  <2>11. ~Accepts([honest EXCEPT !.exp = ABSENT]) /\ ~Accepts([honest EXCEPT !.iat = aged])
    <3> DEFINE endless == [honest EXCEPT !.exp = ABSENT]
               old == [honest EXCEPT !.iat = aged]
    <3>1. /\ endless = [field \in DOMAIN honest |-> endless[field]]
          /\ endless.cnf = FALSE /\ endless.exp = ABSENT
      BY <2>6
    <3>2. /\ old = [field \in DOMAIN honest |-> old[field]]
          /\ old.cnf = FALSE /\ old.iat = now - jwt.maxTokenAge - jwt.tolerance - 1
      BY <2>2, <2>6
    <3> HIDE DEF endless, old
    <3>3. ~Accepts(endless)
      BY <2>1, <2>4, <2>9, <3>1, StaleFails
    <3>4. ~Accepts(old)
      BY <2>1, <2>4, <2>9, <3>2, StaleFails
    <3> QED BY <3>3, <3>4 DEF endless, old
  <2> QED BY <2>8, <2>10, <2>11
<1> QED BY <1>1, <1>2, <1>3 DEF BootMeansService

(* The file stays one the operator can have written, through the rotation's *)
(* edits, and what runs is what a boundary accepted of it.                  *)
BootInv ==
  /\ now \in Nat /\ (step # "settled" => Rotating)
  /\ Written(file) /\ NamesMean(file)
  /\ config # NONE => createApp(config) /\ NamesMean(config)

(* What starts was accepted, defaults and all.                              *)
LEMMA StartedFits ==
  ASSUME Atomic(ABSENT), NEW c, Written(c), NamesMean(c), StartedWith(c) # NONE
  PROVE  createApp(StartedWith(c)) /\ NamesMean(StartedWith(c))
<1> DEFINE d == Effective(c, life.fromFile)
<1>1. StartedWith(c) = d /\ Boots(c, life.fromFile)
  BY DEF StartedWith
<1>2. createApp(d)
  BY <1>1 DEF Boots, Effective
<1>3. NamesMean(d)
  <2>1. CASE c.jwt = ABSENT
    BY <2>1 DEF Effective, Parsed
  <2>2. CASE c.jwt # ABSENT
    <3>1. /\ d.jwt # ABSENT /\ d.callerAuth = c.callerAuth /\ d.knob = c.knob
          /\ d.jwt.issuer = c.jwt.issuer /\ d.jwt.audience = c.jwt.audience
          /\ d.jwt.secret = c.jwt.secret
      BY <2>2, EffectiveIs DEF ConfigFields, JwtFields
    <3>2. \/ d.jwt.tokenType = c.jwt.tokenType
          \/ c.jwt.tokenType = ABSENT /\ d.jwt.tokenType = "at+jwt"
      <4>1. CASE ~life.fromFile
        BY <4>1 DEF Effective
      <4>2. CASE life.fromFile
        <5>1. d.jwt.tokenType = Default(c.jwt.tokenType, "at+jwt")
          BY <2>2, <4>2, EffectiveIs
        <5> HIDE DEF d
        <5> QED BY <5>1 DEF Default
      <4> QED BY <4>1, <4>2
    <3> HIDE DEF d
    <3> QED BY <2>2, <3>1, <3>2 DEF NamesMean, Given
  <2> QED BY <2>1, <2>2
<1> QED BY <1>1, <1>2, <1>3

(* An edit of the rotation keeps it so.                                     *)
LEMMA EditFits ==
  ASSUME Atomic(ABSENT), Written(file), NamesMean(file), file.jwt # ABSENT,
         NEW kid, NEW secret, secret.id # "nobody", NEW previous
  PROVE  Written(Rewritten(file, kid, secret, previous))
         /\ NamesMean(Rewritten(file, kid, secret, previous))
<1> DEFINE g == Rewritten(file, kid, secret, previous)
<1>1. /\ Written(g) /\ g.jwt # ABSENT /\ g.callerAuth = file.callerAuth /\ g.knob = file.knob
      /\ g.jwt.issuer = file.jwt.issuer /\ g.jwt.audience = file.jwt.audience
      /\ g.jwt.secret = secret /\ g.jwt.tokenType = file.jwt.tokenType
  BY RewrittenIs DEF ConfigFields, JwtFields
<1> HIDE DEF g
<1>2. NamesMean(g)
  BY <1>1 DEF NamesMean
<1> QED BY <1>1, <1>2 DEF g

(* No step of the deployment disturbs it.                                   *)
LEMMA BootKeeps ==
  ASSUME Atomic(ABSENT), BootInv, RotationInv, [ProcessNext]_allVars
  PROVE  BootInv'
<1>1. ASSUME UNCHANGED <<life, config, file, now, step>> PROVE BootInv'
  BY <1>1 DEF BootInv, Rotating
<1>2. CASE Serves \/ Drains \/ DrainDeadline \/ CleansUp \/ Stops \/ UNCHANGED allVars
  <2>1. UNCHANGED <<life, config, file, now, step>>
    BY <1>2 DEF Serves, CallArrives, Probed, CallerGate, ReadBody, ParseBody, AuthenticateCall,
                DecideCall, CallEnds, CallerLeaves, Closes, KeysTurn, OtherArrives, OtherEnds,
                Drains, DrainDeadline, CleansUp, Stops, own, world, rotation, allVars
  <2> QED BY <1>1, <2>1
<1>3. CASE Mint
  BY <1>1, <1>3 DEF Mint
<1>4. CASE Tick
  BY <1>4 DEF Tick, BootInv, Rotating
<1>5. ASSUME Rotating
      PROVE  file.jwt # ABSENT /\ issuer \in DOMAIN Incoming /\ file.jwt.secret.id # "nobody"
  <2>1. life \in Lives /\ Version(file) /\ Serving(file, Cur) /\ Progress
    BY <1>5 DEF RotationInv, FileInv, Serving
  <2>2. file.jwt # ABSENT
    BY <1>5, <2>1, VersionFields
  <2>3. issuer \in DOMAIN Incoming
    BY <1>5, <2>1, RotationAssumption DEF Progress, Rotating, MAX_PREVIOUS_SECRETS
  <2>4. Cur \in DOMAIN Incoming /\ file.jwt.secret = Incoming[Cur].secret
    BY <2>1, <2>3, RotationAssumption DEF Serving
  <2> QED BY <2>2, <2>3, <2>4, NamesAssumption
<1>6. CASE StageIncoming
  <2>1. Rotating
    BY <1>6 DEF StageIncoming
  <2>2. Written(file') /\ NamesMean(file')
    BY <1>5, <1>6, <2>1, EditFits DEF StageIncoming, BootInv
  <2> QED BY <1>6, <2>1, <2>2 DEF StageIncoming, BootInv, Rotating
<1>7. CASE IssuerMoves
  BY <1>7 DEF IssuerMoves, BootInv, Rotating
<1>8. CASE SwapRoles
  <2>1. Rotating
    BY <1>8 DEF SwapRoles, BootInv
  <2>2. Incoming[issuer].secret.id # "nobody"
    BY <1>5, <2>1, NamesAssumption
  <2>3. Written(file') /\ NamesMean(file')
    BY <1>5, <1>8, <2>1, <2>2, EditFits DEF SwapRoles, BootInv
  <2> QED BY <1>8, <2>1, <2>3 DEF SwapRoles, BootInv, Rotating
<1>9. CASE Restart
  <2>1. config' = StartedWith(file) /\ UNCHANGED <<life, file, now, step>>
    BY <1>9 DEF Restart, rotation
  <2>2. StartedWith(file) # NONE => createApp(StartedWith(file)) /\ NamesMean(StartedWith(file))
    BY StartedFits DEF BootInv
  <2> QED BY <2>1, <2>2 DEF BootInv, Rotating
<1> QED BY <1>2, <1>3, <1>4, <1>6, <1>7, <1>8, <1>9 DEF ProcessNext, Deploys

(* Whatever boots, at either boundary and after any edit of the rotation,   *)
(* serves: a caller can pass its gate, no budget is one that cancels        *)
(* everything, its issuer's own token verifies, and a token nobody vouches  *)
(* for, of another issuer, audience or kind, or without a lifetime, does    *)
(* not (AppConfigSchema, createApp, createJwtTokenAuthenticator).           *)
THEOREM BootMeansServiceHolds ==
  ASSUME Atomic(ABSENT), Atomic(MALFORMED), Atomic(NONE) PROVE ProcessSpec => []BootMeansService
<1>1. ProcessInit => BootInv
  <2> SUFFICES ASSUME ProcessInit PROVE BootInv
    OBVIOUS
  <2>1. /\ life \in Lives /\ file = life.config /\ config = StartedWith(file) /\ now = 0
        /\ step = "settled"
    BY DEF ProcessInit
  <2>2. Written(file) /\ NamesMean(file)
    BY <2>1, LifeAssumption, NamesAssumption
  <2> QED BY <2>1, <2>2, StartedFits DEF BootInv
<1>2. BootInv /\ RotationInv /\ [ProcessNext]_allVars => BootInv'
  BY BootKeeps
<1>3. BootInv => BootMeansService
  <2> SUFFICES ASSUME BootInv, config # NONE PROVE BootMeansService
    BY DEF BootMeansService
  <2> QED BY BootServes DEF BootInv
<1> QED BY <1>1, <1>2, <1>3, RotationInvariance, PTL DEF ProcessSpec

=============================================================================
