--------------------------- MODULE VerifierProcess ---------------------------
(***************************************************************************)
(* The standalone verifier over the life of a deployment: it starts with a *)
(* configuration (AppConfig), or refuses to; it passes requests through    *)
(* its gates in order (RequestGates, TokenCheck); it is shut down, whatever*)
(* is in flight (GracefulShutdown); and it is started again while the      *)
(* HS256 secret it shares with its issuer is rotated the documented way    *)
(* (README.md, "Rotating the HS256 secret").                               *)
(*                                                                         *)
(* One request is watched through the gates; the others are only in        *)
(* flight.  A life bounds what one behaviour spends: how many requests,    *)
(* watched requests and rotations it has, whether it is told to stop, and  *)
(* whether the shutdown has a cleanup (main.mts gives it none).            *)
(***************************************************************************)
EXTENDS GracefulShutdown, RequestGates

CONSTANTS
  Lives,      \* [config, fromFile, requests, calls, rotations, stops, cleanup]
  Requests,   \* the requests that may be watched
  Incoming,   \* the issuer's secrets in the order it uses them: [kid, secret]
  TTL,        \* the lifetime of the issuer's tokens
  Buffer,     \* what the operator adds to it when the old secret is retired
  Staging,    \* how far ahead a staged secret's expiresAt is set
  Horizon     \* bound on time

ASSUME LifeAssumption ==
  /\ TTL \in Nat \ {0} /\ Buffer \in Nat /\ Staging \in Nat /\ Horizon \in Nat
  /\ {ABSENT, MALFORMED, NONE} \cap Nat = {}
  /\ \A l \in Lives : Written(l.config) /\ (l.calls > 0 => l.rotations = 0)

(* What a rotation starts from: a verifier that serves with the issuer's    *)
(* first secret and lists no other, verifies what that issuer mints, and    *)
(* has secrets ahead it may be given, as many as it may list at once.       *)
Kid(i) == Incoming[i].kid

Rotates(c) ==
  /\ c.jwt.mode \in {ABSENT, "verify"} /\ c.jwt.algorithm = "HS256"
  /\ c.jwt.secret = Incoming[1].secret /\ EncodingOf(c.jwt.encoding) = "utf8"
  /\ c.jwt.kid \in {ABSENT, Kid(1)} /\ c.jwt.previous = ABSENT
  /\ "iss" \in c.jwt.issuer /\ "api" \in c.jwt.audience
  /\ c.jwt.audienceClaim \in {ABSENT, "aud"} /\ c.jwt.tokenType \in {"*", "at+jwt"}
  /\ resolveBound(c, "maxTokenAgeSeconds") \in Nat
  /\ resolveBound(c, "maxTokenAgeSeconds") >= TTL
  /\ resolveBound(c, "clockToleranceSeconds") \in Nat

ASSUME RotationAssumption ==
  /\ Len(Incoming) \in Nat /\ DOMAIN Incoming = 1..Len(Incoming)
  /\ \A i \in DOMAIN Incoming :
       /\ Given(Kid(i)) /\ Incoming[i].secret \notin {ABSENT, MALFORMED}
       /\ Incoming[i].secret.chars > 0 /\ clearsEntropyFloor(Incoming[i].secret, "utf8")
       /\ \A j \in DOMAIN Incoming :
            Kid(i) = Kid(j) \/ Incoming[i].secret.id = Incoming[j].secret.id => i = j
  /\ \A l \in Lives : l.rotations > 0 =>
       /\ l.rotations \in 1..MAX_PREVIOUS_SECRETS /\ l.rotations + 1 \in DOMAIN Incoming
       /\ l.fromFile \in BOOLEAN /\ Boots(l.config, l.fromFile) /\ l.config.jwt # ABSENT
       /\ Rotates(Effective(l.config, l.fromFile))

VARIABLES
  life,
  config,     \* what the running process was started with, NONE if it refused
  file,       \* the configuration the operator keeps
  now,
  keysUp,     \* the JWKS endpoint answers
  call,       \* the watched request, NONE before it comes
  issuer,     \* which of Incoming the issuer signs with
  step,       \* of the rotation: "settled", "staged" or "moved"
  tokens,     \* the issuer's tokens that have not expired
  retired     \* when each secret of Incoming was retired, NONE until then

own == <<life, config, file, now, keysUp, call, issuer, step, tokens, retired>>
allVars == <<vars, own>>

rotation == <<issuer, step, tokens, retired>>
world == <<life, config, file, now, keysUp, rotation>>

Up == config # NONE /\ Running

(* createApp, or the schema before it, refuses: no server listens.          *)
StartedWith(c) == IF Boots(c, life.fromFile) THEN Effective(c, life.fromFile) ELSE NONE

ProcessInit ==
  /\ Init
  /\ life \in Lives
  /\ hasCleanup \/ holds \/ listener = "down" => life.cleanup
  /\ file = life.config
  /\ config = StartedWith(file)
  /\ now = 0 /\ keysUp = TRUE /\ call = NONE
  /\ issuer = 1 /\ step = "settled" /\ tokens = {}
  /\ retired = [i \in DOMAIN Incoming |-> NONE]

-----------------------------------------------------------------------------
(* The watched request.  spent is what was done for it; open says whether   *)
(* its connection still is.                                                 *)
InFlight == call # NONE /\ call.at # "gone"
Open == InFlight /\ call.open

CallArrives ==
  /\ Up /\ call = NONE /\ life.calls > 0
  /\ \E r \in Requests :
       call' = [req |-> r, at |-> IF r.route = "/_healthcheck" THEN "probe" ELSE "gate",
                open |-> TRUE, spent |-> {}, answer |-> NONE, id |-> ABSENT]
  /\ RequestArrives
  /\ UNCHANGED world

At(place) == Up /\ InFlight /\ call.at = place

Answers(answer) == call' = [call EXCEPT !.at = "done", !.answer = answer]
Goes(place) == call' = [call EXCEPT !.at = place]

(* The liveness probe is mounted ahead of the gate.                         *)
Probed ==
  At("probe") /\ Answers(Answered(200, "ok")) /\ UNCHANGED <<vars, world>>

CallerGate ==
  /\ At("gate")
  /\ IF CallerPasses(resolveCallerAuth(config), call.req.caller) THEN Goes("body")
     ELSE Answers(Answered(401, "caller_unauthenticated"))
  /\ UNCHANGED <<vars, world>>

(* The router: the id goes on every response it writes, then the body is    *)
(* read, which a caller that left may have cut short.                       *)
ReadBody ==
  /\ At("body")
  /\ \E failure \in {bodyFailure(call.req.body, config)}
                       \cup (IF call.open THEN {} ELSE {"request.aborted"}) :
       call' = [call EXCEPT !.spent = @ \cup {"body"}, !.id = acceptRequestId(call.req.id),
                            !.at = IF failure = ABSENT THEN "parse" ELSE "done",
                            !.answer = IF failure = ABSENT THEN NONE
                                       ELSE bodyParserFailure(failure)]
  /\ UNCHANGED <<vars, world>>

(* Mutant of ParseBody: a request is parsed once its token is known.        *)
ParseBodyLate ==
  /\ At("parse")
  /\ Goes("auth")
  /\ UNCHANGED <<vars, world>>

ParseBody ==
  /\ At("parse")
  /\ LET verdict == parseBody(call.req.route, call.req.body.value, config)
     IN IF verdict = "ok" THEN Goes("auth")
        ELSE Answers(IF verdict = "invalid" THEN Answered(400, "invalid_request")
                     ELSE Answered(500, "internal_error"))
  /\ UNCHANGED <<vars, world>>

(* What the JWKS endpoint serves when it answers: the issuer's one key.     *)
Published == {<<"issuer", "jwks">>}

Verdict(c, header) ==
  authenticate(Authenticator(c), header, now, IF keysUp THEN "answered" ELSE "failed",
               IF keysUp THEN Published ELSE {})

AuthenticateCall ==
  /\ At("auth")
  /\ LET verdict == Verdict(config, call.req.header)
         spending == [call EXCEPT !.spent = @ \cup {"token"}]
     IN call' = IF verdict = "ok" THEN [spending EXCEPT !.at = "decide"]
                ELSE [spending EXCEPT !.at = "done", !.answer = authFailure(verdict)]
  /\ UNCHANGED <<vars, world>>

(* The decision, which the pipelines and the evaluator come to: a fault is  *)
(* a 500, and a caller that left may have aborted it: then nothing is       *)
(* answered.                                                                *)
DecideCall ==
  /\ At("decide")
  /\ \E answer \in
        {IF call.req.decision = "throws" THEN Answered(500, "internal_error")
         ELSE decided(call.req.route, call.req.decision)} \cup (IF call.open THEN {} ELSE {NONE}) :
       call' = [call EXCEPT !.at = "done", !.spent = @ \cup {"decision"}, !.answer = answer]
  /\ UNCHANGED <<vars, world>>

(* The connection ends with the answer, or the caller leaves before it.     *)
Closes(place) ==
  /\ Open
  /\ RequestEnds
  /\ call' = [call EXCEPT !.open = FALSE, !.at = place]
  /\ UNCHANGED world

CallEnds == At("done") /\ Closes("gone")
CallerLeaves == Up /\ Open /\ call.at # "done" /\ Closes(call.at)

KeysTurn ==
  /\ At("auth")
  /\ keysUp' = ~keysUp
  /\ UNCHANGED <<vars, life, config, file, now, call, rotation>>

-----------------------------------------------------------------------------
(* The other requests, and the shutdown: a connection it cuts closes the    *)
(* watched request's too.                                                   *)
OtherArrives == Up /\ served < life.requests /\ RequestArrives /\ UNCHANGED own

OtherEnds ==
  /\ Up /\ requests > (IF Open THEN 1 ELSE 0)
  /\ RequestEnds
  /\ UNCHANGED own

Drains ==
  /\ Up /\ life.stops /\ (Signal \/ SignalAgain \/ ServerCloses)
  /\ UNCHANGED own

DrainDeadline ==
  /\ Up /\ DeadlineFires
  /\ call' = IF Open THEN [call EXCEPT !.open = FALSE] ELSE call
  /\ UNCHANGED world

CleansUp == Up /\ (CleanupSettles \/ CleanupTimesOut) /\ UNCHANGED own
Stops == Up /\ (LoopEmpties \/ Exits) /\ UNCHANGED own

-----------------------------------------------------------------------------
(* The deployment: the issuer's tokens, the operator's edits, the restarts. *)
Rotating == life.rotations > 0

TokenOf(i, kid, iat) ==
  [alg |-> "HS256", kid |-> kid, signer |-> SecretKey(Incoming[i].secret, "utf8"),
   typ |-> "at+jwt", iss |-> "iss", cnf |-> FALSE, iat |-> iat, nbf |-> ABSENT,
   exp |-> iat + TTL, aud |-> [kind |-> "string", has |-> {"api"}],
   azp |-> [kind |-> "other", has |-> {}]]

(* The issuer stamps its kid into a token; another that mints for it does   *)
(* not.                                                                     *)
Mint ==
  /\ Rotating
  /\ tokens' = tokens \cup {TokenOf(issuer, kid, now) : kid \in {Kid(issuer), ABSENT}}
  /\ UNCHANGED <<vars, life, config, file, now, keysUp, call, issuer, step, retired>>

(* Time passes; the tokens that expired are dropped.  The operator keeps to *)
(* the window: the entry a verifier knows the issuer's secret by does not   *)
(* expire before the roles are swapped and the verifier is started again.   *)
Tick ==
  /\ Rotating /\ now < Horizon
  /\ \A c \in {file, config} \ {NONE} :
       LET listed == previousSecrets(c.jwt) IN
       issuer \in DOMAIN listed => listed[issuer].expiresAt > now + 1
  /\ now' = now + 1
  /\ tokens' = {t \in tokens : t.exp > now + 1}
  /\ UNCHANGED <<vars, life, config, file, keysUp, call, issuer, step, retired>>

(* The operator's list, of which some is kept and one entry written.  An    *)
(* entry has the place its secret has in Incoming.                          *)
Listed == previousSecrets(file.jwt)

Entry(i, until) == [kid |-> Kid(i), secret |-> Incoming[i].secret, expiresAt |-> until]

ListedWith(kept, place, until) ==
  [i \in kept \cup {place} |-> IF i = place THEN Entry(place, until) ELSE Listed[i]]

Rewritten(c, kid, secret, previous) ==
  [c EXCEPT !.jwt.kid = kid, !.jwt.secret = secret, !.jwt.previous = previous]

(* Step 2: the incoming secret is staged beside the current one; what has   *)
(* expired may be cleared away with it.                                     *)
StageIncoming ==
  /\ Rotating /\ step = "settled" /\ issuer <= life.rotations
  /\ \E kept \in {DOMAIN Listed, {i \in DOMAIN Listed : Listed[i].expiresAt > now}} :
       file' = Rewritten(file, Kid(issuer), file.jwt.secret,
                         ListedWith(kept, issuer + 1, now + Staging))
  /\ step' = "staged"
  /\ UNCHANGED <<vars, life, config, now, keysUp, call, issuer, tokens, retired>>

(* Step 3: the issuer moves, once the verifier runs with the staged secret. *)
IssuerMoves ==
  /\ step = "staged" /\ Up /\ config = Effective(file, life.fromFile)
  /\ issuer + 1 \in DOMAIN Listed /\ Listed[issuer + 1].expiresAt > now
  /\ issuer' = issuer + 1
  /\ step' = "moved"
  /\ UNCHANGED <<vars, life, config, file, now, keysUp, call, tokens, retired>>

(* Step 4: the roles are swapped; the old secret stays for a token lifetime.*)
SwapRoles ==
  /\ step = "moved"
  /\ file' = Rewritten(file, Kid(issuer), Incoming[issuer].secret,
                       ListedWith(DOMAIN Listed \ {issuer}, issuer - 1, now + TTL + Buffer))
  /\ retired' = [retired EXCEPT ![issuer - 1] = now]
  /\ step' = "settled"
  /\ UNCHANGED <<vars, life, config, now, keysUp, call, issuer, tokens>>

(* The process is started again with the file as it is, or refuses to.  A   *)
(* rotating life does not follow the drain: the keys are its question.      *)
Restart ==
  /\ Rotating
  /\ config' = StartedWith(file)
  /\ UNCHANGED <<vars, life, file, now, keysUp, call, rotation>>

-----------------------------------------------------------------------------
Serves ==
  \/ CallArrives \/ Probed \/ CallerGate \/ ReadBody \/ ParseBody
  \/ AuthenticateCall \/ DecideCall \/ CallEnds \/ CallerLeaves \/ KeysTurn
  \/ OtherArrives \/ OtherEnds

Deploys == Mint \/ Tick \/ StageIncoming \/ IssuerMoves \/ SwapRoles \/ Restart

ProcessNext == Serves \/ Drains \/ DrainDeadline \/ CleansUp \/ Stops \/ Deploys

ProcessFairness ==
  /\ WF_allVars(DrainDeadline)
  /\ WF_allVars(Up /\ ServerCloses /\ UNCHANGED own)
  /\ WF_allVars(Up /\ CleanupTimesOut /\ UNCHANGED own)
  /\ WF_allVars(Up /\ LoopEmpties /\ UNCHANGED own)
  /\ WF_allVars(Up /\ Exits /\ UNCHANGED own)

ProcessSpec == ProcessInit /\ [][ProcessNext]_allVars /\ ProcessFairness

-----------------------------------------------------------------------------
(* Nothing is spent on a request another gate refuses: no body is read for  *)
(* a caller the gate does not know, no token is verified and no key fetched *)
(* for a body that was never usable, and nothing is decided before a token  *)
(* is (verify.mts:438-447, "an unauthenticated caller cannot spend that").  *)
(* An allow is the answer to a request that passed them all, and nothing    *)
(* the caller wrote but a safe id comes back.                               *)
GatesInOrder ==
  call # NONE /\ config # NONE =>
    LET r == call.req
        known == CallerPasses(resolveCallerAuth(config), r.caller)
        usable == bodyFailure(r.body, config) = ABSENT
                    /\ parseBody(r.route, r.body.value, config) = "ok"
    IN /\ "body" \in call.spent => known
       /\ "token" \in call.spent => usable
       /\ "decision" \in call.spent => "token" \in call.spent
       /\ call.answer # NONE /\ call.answer.code = "allow" =>
            "decision" \in call.spent /\ r.decision = "allow"
       /\ call.id # ABSENT => call.id.safe
       /\ r.route = "/_healthcheck" => call.spent = {}

IssuerKey(jwt) ==
  IF jwt.algorithm = "HS256" THEN SecretKey(jwt.secret, EncodingOf(jwt.encoding))
  ELSE IF jwt.jwksUri \in {ABSENT, ""} THEN <<jwt.publicKey, "spki">>
  ELSE <<"issuer", "jwks">>

Genuine(t) ==
  /\ t.signer = IssuerKey(config.jwt) /\ t.alg = config.jwt.algorithm /\ t.iss = "iss" /\ t.typ = "at+jwt"
  /\ t.exp > now /\ (t.nbf = ABSENT \/ t.nbf <= now)

(* Every gate was passed by a request something is decided for, the token's *)
(* by one the issuer stands behind; and such a token is not called invalid  *)
(* while the issuer's keys cannot be fetched (tokenAuthenticator.mts:       *)
(* 361-377).                                                                *)
AnswersEarned ==
  /\ GatesInOrder
  /\ call # NONE /\ config # NONE =>
       LET header == call.req.header IN
       /\ "decision" \in call.spent => header # ABSENT /\ Genuine(header.token)
       /\ call.answer # NONE /\ call.answer.code = "invalid_token" => ~Genuine(header.token)

(* The rotation is outage-free: every token the issuer has minted, before,  *)
(* during and after a cutover and however the verifier's restarts fall,     *)
(* kid or no kid, verifies at a running verifier until it expires           *)
(* (README.md:587-615).  A verifier does start with every configuration the *)
(* procedure writes.                                                        *)
NoOutage ==
  Rotating =>
    /\ config # NONE
    /\ \A t \in tokens : Verdict(config, [scheme |-> "bearer", token |-> t]) = "ok"

(* A retired secret past its window mints nothing that verifies, whichever  *)
(* kid its holder writes, at a verifier started since the roles were        *)
(* swapped, and with no restart at the moment the window closes             *)
(* (README.md:612, builtinKeyResolversModule.mts:122-124).  Neither does    *)
(* the issuer's coming secret before it is staged.                          *)
RetiredDies ==
  Rotating /\ config # NONE =>
    \A i \in DOMAIN Incoming :
      \/ /\ retired[i] # NONE /\ now >= retired[i] + TTL + Buffer
         /\ config.jwt.kid # Kid(i)
         /\ config = Effective(file, life.fromFile)
      \/ i > issuer + 1
      => \A kid \in {Kid(j) : j \in DOMAIN Incoming} \cup {ABSENT} :
           Verdict(config, [scheme |-> "bearer", token |-> TokenOf(i, kid, now)]) # "ok"

(* A configuration that starts is one the verifier can serve with, at       *)
(* either boundary: some caller passes its gate, its own issuer's token     *)
(* verifies, no budget is one that cancels everything, and a token nobody   *)
(* vouches for is refused unless the configuration says the one word that   *)
(* accepts it (AppConfigSchema's mode, jwt/tokenAuthenticator.mts:254-272,  *)
(* config/callerAuth.mts:5-19).                                             *)
Deliverable == {"caller secret"}

(* What the names below stand for: the gate's secret is one a caller can    *)
(* present, and nobody, other and refresh are none of the deployment's.  A  *)
(* knob is a number if anything, and where there is no jwt block, none of   *)
(* that block's.                                                            *)
NamesMean(c) ==
  /\ c.callerAuth \notin {ABSENT, MALFORMED} /\ checkCallerAuthToken(c.callerAuth.token) =>
       c.callerAuth.token \in Deliverable
  /\ c.knob.written \notin {ABSENT, MALFORMED} => c.knob.written \in Int
  /\ IF c.jwt = ABSENT THEN c.knob.name \notin JwtKnobs \cup JwksKnobs
     ELSE /\ isPresent(c.jwt.issuer) => "iss" \in c.jwt.issuer /\ "other" \notin c.jwt.issuer
          /\ isPresent(c.jwt.audience) => "api" \in c.jwt.audience /\ "other" \notin c.jwt.audience
          /\ Given(c.jwt.tokenType) => c.jwt.tokenType \in {"*", "at+jwt"}
          /\ c.jwt.secret # ABSENT => c.jwt.secret.id # "nobody"

ASSUME NamesAssumption ==
  /\ \A l \in Lives : NamesMean(l.config)
  /\ \A i \in DOMAIN Incoming : Incoming[i].secret.id # "nobody"

HonestToken(jwt) ==
  [alg |-> jwt.algorithm, kid |-> jwt.kid,
   signer |-> IssuerKey(jwt),
   typ |-> IF jwt.tokenType = "*" THEN "JWT" ELSE "at+jwt", iss |-> "iss", cnf |-> FALSE,
   iat |-> now, nbf |-> ABSENT, exp |-> now + TTL,
   aud |-> [kind |-> "array", has |-> {"api"}], azp |-> [kind |-> "string", has |-> {"api"}]]

Accepts(t) == Verdict(config, [scheme |-> "bearer", token |-> t]) = "ok"

BootMeansService ==
  config # NONE =>
    /\ \E presented \in Deliverable \cup {ABSENT} :
         CallerPasses(resolveCallerAuth(config), presented)
    /\ \A name \in DOMAIN NUMERIC_BOUNDS \ ({"port"} \cup JwksKnobs) :
         LET n == resolveBound(config, name) IN
         /\ n # MALFORMED /\ n >= (IF NUMERIC_BOUNDS[name].minimum = 0 THEN 0 ELSE 1)
         /\ NUMERIC_BOUNDS[name].maximum = MAX_TIMER_MS => n <= MAX_TIMER_MS
    /\ authenticatorOf(config) = "jwt" /\ keysUp =>
         LET jwt == Authenticator(config)
             honest == HonestToken(IF jwt.mode = "verify" THEN jwt
                                   ELSE [jwt EXCEPT !.algorithm = "RS256", !.jwksUri = "https"])
         IN /\ Accepts(honest)
            /\ jwt.mode # "insecure-decode" =>
                 /\ ~Accepts([honest EXCEPT !.signer = <<"nobody", "utf8">>])
                 /\ ~Accepts([honest EXCEPT !.iss = "other"])
                 /\ ~Accepts([honest EXCEPT !.aud.has = {"other"}, !.azp.has = {"other"}])
                 /\ jwt.tokenType # "*" => ~Accepts([honest EXCEPT !.typ = "refresh"])
            /\ ~Accepts([honest EXCEPT !.exp = ABSENT])
            /\ ~Accepts([honest EXCEPT !.iat = now - resolveBound(config, "maxTokenAgeSeconds")
                                                 - resolveBound(config, "clockToleranceSeconds") - 1])
=============================================================================
