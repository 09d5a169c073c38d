------------------------------ MODULE AppConfig ------------------------------
(***************************************************************************)
(* What the verifier starts with: the two boundaries a configuration is    *)
(* read at (config/application.schema.mts for a configuration file,        *)
(* createApp in app.mts and what it calls for every configuration, a       *)
(* hand-built one included), and what the running process makes of it.     *)
(*                                                                         *)
(* A configuration writes each field as a value, ABSENT or MALFORMED; a    *)
(* list of names is the set of them, and one name is a set of one.  It     *)
(* writes at most one of the numeric knobs, the others take their default. *)
(***************************************************************************)
EXTENDS TokenCheck

CONSTANT MAX_TIMER_MS    \* what a timer can hold: 2^31 - 1, scaled down

(* A timer can hold every default.                                          *)
ASSUME TimerAssumption == MAX_TIMER_MS \in Nat /\ MAX_TIMER_MS >= 5000

(* The blocks a configuration is written of.                                *)
ConfigFields ==
  {"authenticator", "jwt", "registered", "callerAuth", "rules", "evaluationInResponse", "knob"}
JwtFields ==
  {"mode", "stale", "algorithm", "secret", "encoding", "kid", "previous", "jwksUri",
   "publicKey", "issuer", "audience", "audienceClaim", "tokenType"}

Written(c) ==
  /\ c = [field \in ConfigFields |-> c[field]]
  /\ c.jwt = ABSENT \/ c.jwt = [field \in JwtFields |-> c.jwt[field]]

Asymmetric == {"RS256", "ES256", "EdDSA"}
BuiltIn == {"HS256"} \cup Asymmetric

-----------------------------------------------------------------------------
(* config/bounds.mts.                                                       *)
Bound(fallback, minimum, maximum) ==
  [fallback |-> fallback, minimum |-> minimum, maximum |-> maximum]

Timer(fallback) == Bound(fallback, 1, MAX_TIMER_MS)
Count(fallback) == Bound(fallback, 1, ABSENT)

NUMERIC_BOUNDS ==
  [port |-> Bound(3000, 1, 65535),
   jwksTimeoutMs |-> Timer(5000),
   jwksCooldownMs |-> Bound(30000, 0, ABSENT),
   jwksCacheMaxAgeMs |-> Count(600000),
   maxTokenAgeSeconds |-> Count(86400),
   clockToleranceSeconds |-> Bound(0, 0, 300),
   maxBatchSize |-> Count(50),
   maxBodyBytes |-> Count(65536),
   maxResourceLength |-> Count(512),
   maxActionLength |-> Count(64),
   maxContextEntries |-> Count(64),
   maxContextValueLength |-> Count(1024),
   collectorTimeoutMs |-> Timer(2000),
   collectorDeadlineMs |-> Timer(5000),
   ruleTimeoutMs |-> Timer(2000),
   evaluateDeadlineMs |-> Timer(5000),
   collectorConcurrency |-> Count(8),
   batchConcurrency |-> Count(8)]

JwtKnobs == {"maxTokenAgeSeconds", "clockToleranceSeconds"}
JwksKnobs == {"jwksTimeoutMs", "jwksCooldownMs", "jwksCacheMaxAgeMs"}

(* resolveBound refuses none of these knobs.                                *)
Resolvable(c, names) ==
  c.knob.name \in names =>
    LET n == c.knob.written
        spec == NUMERIC_BOUNDS[c.knob.name]
    IN \/ n = ABSENT
       \/ n # MALFORMED /\ n >= spec.minimum
          /\ (spec.maximum = ABSENT \/ n <= spec.maximum)

resolveBound(c, name) ==
  IF c.knob.name = name /\ c.knob.written # ABSENT THEN c.knob.written
  ELSE NUMERIC_BOUNDS[name].fallback

-----------------------------------------------------------------------------
(* The checks both boundaries share.                                        *)
checkAudienceClaim(value) == value = ABSENT \/ Given(value)

checkJwksUri(uri) == uri \in {"https", "http on loopback"}

(* oauth.authenticator names who authenticates; oauth.jwt is there exactly  *)
(* for the built-in one.                                                    *)
authenticatorOf(c) == IF c.authenticator = ABSENT THEN "jwt" ELSE c.authenticator

checkTokenAuthenticatorSelection(c) ==
  /\ c.authenticator = ABSENT \/ Given(c.authenticator)
  /\ authenticatorOf(c) = "jwt" <=> c.jwt # ABSENT

(* A credential is refused unless a request can present it verbatim.        *)
checkCallerAuthToken(value) ==
  value \notin {ABSENT, MALFORMED, "", "blank", "padded", "control", "wide"}

checkCallerAuthHeader(value) == value \notin {MALFORMED, "", "not a field name"}

callerAuthOk(block) ==
  \/ block = ABSENT
  \/ /\ block # MALFORMED /\ checkCallerAuthHeader(block.header)
     /\ block.token = ABSENT \/ checkCallerAuthToken(block.token)

checkEvaluationInResponse(value) == value \in {ABSENT, "omit", "include"}

-----------------------------------------------------------------------------
(* AppConfigSchema.                                                         *)
isPresent(names) == names \notin {ABSENT, MALFORMED, {}} /\ "" \notin names

VerifySchema(jwt) ==
  LET algorithm == IF jwt.algorithm = ABSENT THEN "HS256" ELSE jwt.algorithm
  IN /\ isPresent(jwt.issuer) /\ isPresent(jwt.audience)
     /\ jwt.tokenType # ""
     /\ algorithm = "HS256" => /\ jwt.secret # ABSENT /\ jwt.secret.chars > 0
                               /\ checkHs256Rotation(jwt)
     /\ algorithm \in Asymmetric => /\ {jwt.jwksUri, jwt.publicKey} \ {ABSENT, ""} # {}
                                    /\ jwt.previous = ABSENT
     /\ jwt.jwksUri # ABSENT => checkJwksUri(jwt.jwksUri)

OAuthJwtSchema(c) ==
  /\ Resolvable(c, JwtKnobs \cup JwksKnobs)
  /\ ~c.jwt.stale
  /\ c.jwt.mode \in {ABSENT, "verify", "insecure-decode"}
  /\ MALFORMED \notin {c.jwt.algorithm, c.jwt.kid, c.jwt.previous, c.jwt.tokenType,
                       c.jwt.issuer, c.jwt.audience}
  /\ checkAudienceClaim(c.jwt.audienceClaim) /\ checkSecretEncoding(c.jwt.encoding)
  /\ c.jwt.mode # "insecure-decode" => VerifySchema(c.jwt)

AppConfigSchema(c) ==
  /\ Resolvable(c, (DOMAIN NUMERIC_BOUNDS) \ (JwtKnobs \cup JwksKnobs))
  /\ callerAuthOk(c.callerAuth)
  /\ checkTokenAuthenticatorSelection(c)
  /\ authenticatorOf(c) = "jwt" => OAuthJwtSchema(c)
  /\ checkEvaluationInResponse(c.evaluationInResponse)

(* The parsed configuration carries the defaults the operator relied on.    *)
Default(value, default) == IF value = ABSENT THEN default ELSE value

Defaults == [mode |-> "verify", algorithm |-> "HS256", tokenType |-> "at+jwt",
             audienceClaim |-> "aud", encoding |-> "utf8"]

Parsed(c) ==
  IF c.jwt = ABSENT THEN c
  ELSE [c EXCEPT !.jwt = [field \in DOMAIN c.jwt |->
                            IF field \in DOMAIN Defaults
                            THEN Default(c.jwt[field], Defaults[field]) ELSE c.jwt[field]]]

-----------------------------------------------------------------------------
(* createApp and what it calls, for every configuration.                    *)
KeyResolverFactory(c) ==
  LET jwt == c.jwt IN
  CASE jwt.algorithm = "HS256" ->
         /\ jwt.secret # ABSENT /\ jwt.secret.chars > 0
         /\ checkHs256Rotation(jwt)
    [] jwt.algorithm \in Asymmetric ->
         IF jwt.jwksUri \notin {ABSENT, ""}
         THEN checkJwksUri(jwt.jwksUri) /\ Resolvable(c, JwksKnobs)
         ELSE jwt.publicKey \notin {ABSENT, ""}
    [] OTHER -> FALSE    \* no factory registered under that name

(* Mutant of assertVerifyRouterJwtConfig: a list will do for a token type.  *)
assertVerifyRouterJwtConfigLoose(jwt) ==
  /\ isPresent(jwt.issuer) /\ isPresent(jwt.audience)
  /\ jwt.tokenType \notin {ABSENT, ""}

assertVerifyRouterJwtConfig(jwt) ==
  /\ isPresent(jwt.issuer) /\ isPresent(jwt.audience)
  /\ Given(jwt.tokenType)

JwtTokenAuthenticatorFactory(c) ==
  LET mode == Default(c.jwt.mode, "verify")
  IN /\ ~c.jwt.stale
     /\ Resolvable(c, JwtKnobs)
     /\ checkAudienceClaim(c.jwt.audienceClaim)
     /\ checkSecretEncoding(c.jwt.encoding)
     /\ mode \in {"verify", "insecure-decode"}
     /\ mode = "verify" => /\ assertVerifyRouterJwtConfig(c.jwt)
                           /\ Given(c.jwt.algorithm)
                           /\ KeyResolverFactory(c)

(* createVerifyRouter's own checks.                                         *)
RouterKnobs ==
  {"maxBatchSize", "batchConcurrency", "maxBodyBytes", "ruleTimeoutMs", "evaluateDeadlineMs",
   "maxResourceLength", "maxActionLength", "maxContextEntries", "maxContextValueLength"}

createVerifyRouter(c) ==
  Resolvable(c, RouterKnobs) /\ checkEvaluationInResponse(c.evaluationInResponse)

createApp(c) ==
  /\ Resolvable(c, {"collectorTimeoutMs", "collectorDeadlineMs", "collectorConcurrency"})
  /\ c.rules # <<>> /\ \A i \in DOMAIN c.rules : c.rules[i] = "starts"
  /\ checkTokenAuthenticatorSelection(c)
  /\ authenticatorOf(c) \in {"jwt"} \cup c.registered
  /\ authenticatorOf(c) = "jwt" => JwtTokenAuthenticatorFactory(c)
  /\ callerAuthOk(c.callerAuth)
  /\ createVerifyRouter(c)

(* What runs: a file is parsed first, a hand-built configuration is not.    *)
Boots(c, fromFile) == IF fromFile THEN AppConfigSchema(c) /\ createApp(Parsed(c)) ELSE createApp(c)
Effective(c, fromFile) == IF fromFile THEN Parsed(c) ELSE c

(* The caller gate it mounts; a block without a token mounts none.          *)
resolveCallerAuth(c) ==
  IF c.callerAuth = ABSENT THEN ABSENT ELSE c.callerAuth.token

(* What the authenticator was built with.                                   *)
Authenticator(c) ==
  [mode |-> Default(c.jwt.mode, "verify"), algorithm |-> c.jwt.algorithm, kid |-> c.jwt.kid,
   secret |-> c.jwt.secret, encoding |-> c.jwt.encoding, previous |-> c.jwt.previous,
   jwksUri |-> c.jwt.jwksUri, publicKey |-> c.jwt.publicKey, issuer |-> c.jwt.issuer,
   audience |-> c.jwt.audience, audienceClaim |-> c.jwt.audienceClaim,
   tokenType |-> c.jwt.tokenType,
   maxTokenAge |-> resolveBound(c, "maxTokenAgeSeconds"),
   tolerance |-> resolveBound(c, "clockToleranceSeconds")]
=============================================================================
