-------------------------- MODULE MCVerifierProcess --------------------------
(* Four kinds of life: one for each configuration, started at either        *)
(* boundary; a shutdown with three requests in flight; one request watched  *)
(* through the gates, under each kind of authenticator; two rotations of    *)
(* the HS256 secret.                                                        *)
EXTENDS VerifierProcess

Secret(id) == [id |-> id, form |-> "hex", chars |-> 64]
MCIncoming == <<[kid |-> "v0", secret |-> Secret("s0")], [kid |-> "v1", secret |-> Secret("s1")],
                [kid |-> "v2", secret |-> Secret("s2")]>>

Previous(kid, secret, until) == <<[kid |-> kid, secret |-> secret, expiresAt |-> until]>>
One == Previous("v1", Secret("s1"), 9)
Weak == [id |-> "w", form |-> "hex", chars |-> 32]
Short64 == [id |-> "b", form |-> "base64", chars |-> 40]

Jwt ==
  [mode |-> "verify", stale |-> FALSE, algorithm |-> "HS256", secret |-> Secret("s0"),
   encoding |-> ABSENT, kid |-> "v0", previous |-> ABSENT, jwksUri |-> ABSENT,
   publicKey |-> ABSENT, issuer |-> {"iss"}, audience |-> {"api"}, audienceClaim |-> ABSENT,
   tokenType |-> "at+jwt"]
Jwks == [Jwt EXCEPT !.algorithm = "RS256", !.secret = ABSENT, !.jwksUri = "https"]
Bases == {Jwt, Jwks, [Jwks EXCEPT !.jwksUri = ABSENT, !.publicKey = "pem"],
          [Jwt EXCEPT !.mode = "insecure-decode"]}

Jwts == UNION {
  Bases, {[Jwt EXCEPT !.algorithm = ABSENT, !.mode = ABSENT], [Jwks EXCEPT !.algorithm = "PS256"]},
  {[b EXCEPT !.mode = m] : b \in Bases, m \in {ABSENT, "none"}},
  {[b EXCEPT !.stale = TRUE] : b \in Bases},
  {[b EXCEPT !.issuer = i] : b \in Bases, i \in {ABSENT, MALFORMED, {}, {""}, {"iss", ""}, {"iss", "i2"}}},
  {[b EXCEPT !.audience = a] : b \in Bases, a \in {ABSENT, {}, {"api", "b"}}},
  {[b EXCEPT !.tokenType = t] : b \in Bases, t \in {ABSENT, MALFORMED, "", "*"}},
  {[b EXCEPT !.audienceClaim = a] : b \in Bases, a \in {MALFORMED, "", "aud", "azp"}},
  {[b EXCEPT !.encoding = e] : b \in Bases, e \in {"hex", "base64", "latin1", MALFORMED}},
  {[b EXCEPT !.kid = k] : b \in Bases, k \in {ABSENT, ""}},
  {[b EXCEPT !.jwksUri = u] : b \in Bases, u \in {"", "http", "http on loopback", "relative"}},
  {[Jwt EXCEPT !.secret = s, !.encoding = e] :
     s \in {ABSENT, Weak, Short64, [Weak EXCEPT !.chars = 0], [Weak EXCEPT !.form = "text"]},
     e \in {ABSENT, "hex", "base64"}},
  {[b EXCEPT !.previous = p, !.kid = k] : b \in {Jwt, Jwks}, k \in {ABSENT, "v0"},
     p \in {MALFORMED, <<>>, One, Previous("v0", Secret("s1"), 9), Previous("v1", Weak, 9),
            Previous("v1", Secret("s1"), MALFORMED), Previous("", Secret("s1"), 9), One \o One,
            One \o Previous("v2", Secret("s2"), 9),
            One \o Previous("v2", Secret("s2"), 9) \o Previous("v3", Secret("s3"), 9)
                \o Previous("v4", Secret("s4"), 9)}} }

Config ==
  [authenticator |-> ABSENT, jwt |-> Jwt, registered |-> {}, callerAuth |-> ABSENT,
   rules |-> <<"starts">>, evaluationInResponse |-> ABSENT,
   knob |-> [name |-> "port", written |-> ABSENT]]

Gate(token) == [header |-> ABSENT, token |-> token]
Gated == [Config EXCEPT !.callerAuth = Gate("caller secret")]
MCConfigs == UNION {
  {[Config EXCEPT !.jwt = j] : j \in Jwts},
  {[Config EXCEPT !.authenticator = a, !.jwt = j, !.registered = r] :
     a \in {MALFORMED, "", "jwt", "introspection"}, j \in {ABSENT, Jwt}, r \in {{}, {"introspection"}}},
  {[Config EXCEPT !.callerAuth = b] :
     b \in {MALFORMED, [header |-> "not a field name", token |-> ABSENT]}
             \cup {Gate(t) : t \in {ABSENT, MALFORMED, "", "blank", "padded", "control", "wide",
                                     "caller secret"}}},
  {[Config EXCEPT !.rules = r] : r \in {<<>>, <<"starts", "refuses">>}},
  {[Config EXCEPT !.evaluationInResponse = e] : e \in {"include", "inclde"}},
  {[Config EXCEPT !.knob = [name |-> k, written |-> w], !.jwt = j] :
     k \in DOMAIN NUMERIC_BOUNDS, w \in {MALFORMED, 0, 1, 301, MAX_TIMER_MS, MAX_TIMER_MS + 1},
     j \in {Jwt, Jwks}} }

Life(c) ==
  [config |-> c, fromFile |-> TRUE, requests |-> 0, calls |-> 0, rotations |-> 0,
   stops |-> TRUE, cleanup |-> FALSE]
Served == {Gated, [Gated EXCEPT !.jwt = Jwks],
           [Config EXCEPT !.jwt = Jwks, !.knob = [name |-> "maxBatchSize", written |-> 1]]}
MCLives == UNION {
  {[Life(c) EXCEPT !.fromFile = f, !.stops = FALSE] : c \in MCConfigs, f \in BOOLEAN},
  {[Life(Config) EXCEPT !.requests = 4, !.cleanup = TRUE]},
  {[Life(c) EXCEPT !.calls = 1] : c \in Served},
  {[Life([Config EXCEPT !.jwt.kid = k]) EXCEPT !.rotations = 2, !.stops = FALSE] : k \in {ABSENT, "v0"}} }

-----------------------------------------------------------------------------
Text(n) == [chars |-> n, space |-> FALSE]
Item == [unknown |-> {}, resource |-> Text(9), action |-> Text(4), context |-> ABSENT,
         parsed |-> "ok"]
Items == {MALFORMED, Item, [Item EXCEPT !.unknown = {"subject"}],
          [Item EXCEPT !.resource = Text(513)], [Item EXCEPT !.action.space = TRUE],
          [Item EXCEPT !.context = [entries |-> 65, longest |-> 9]],
          [Item EXCEPT !.parsed = "invalid"], [Item EXCEPT !.parsed = "fault"]}
Batches == {MALFORMED} \cup {[unknown |-> {}, decisions |-> d] :
             d \in {ABSENT, <<>>, <<Item>>, <<Item, Item>>,
                    <<[Item EXCEPT !.action = ABSENT], [Item EXCEPT !.parsed = "fault"]>>}}

Body(value) == [failure |-> ABSENT, bytes |-> 100, value |-> value]
Failures == {[Body(Item) EXCEPT !.failure = f] :
               f \in {"entity.parse.failed", "charset.unsupported", "stream.not.readable"}}
            \cup {[Body(Item) EXCEPT !.bytes = 65537]}

Token(key) ==
  [alg |-> "RS256", kid |-> "k", signer |-> key, typ |-> "at+jwt", iss |-> "iss", cnf |-> FALSE,
   iat |-> 0, nbf |-> ABSENT, exp |-> TTL, aud |-> [kind |-> "string", has |-> {"api"}],
   azp |-> [kind |-> "other", has |-> {}]]
Bearer(t) == [scheme |-> "bearer", token |-> t]
Headers == {ABSENT, [scheme |-> "basic", token |-> ABSENT], Bearer(ABSENT),
            Bearer([Token(<<"x", "y">>) EXCEPT !.alg = "none"]), Bearer(Token(<<"x", "y">>)),
            Bearer([Token(<<"issuer", "jwks">>) EXCEPT !.exp = 0]),
            Bearer([Token(<<"issuer", "jwks">>) EXCEPT !.nbf = 5])}
Shared == Bearer([Token(<<"s0", "utf8">>) EXCEPT !.alg = "HS256", !.kid = ABSENT])
Good == Bearer(Token(<<"issuer", "jwks">>))

Call ==
  [route |-> "/verify", caller |-> "caller secret", id |-> [chars |-> 8, safe |-> TRUE],
   body |-> Body(Item), header |-> Good, decision |-> "allow"]
MCRequests == UNION {
  {Call, [Call EXCEPT !.route = "/_healthcheck"], [Call EXCEPT !.route = "/_healthcheck", !.caller = ABSENT]},
  {[Call EXCEPT !.decision = d, !.id = i] :
     d \in {"allow", "deny", "throws"}, i \in {ABSENT, [chars |-> 129, safe |-> TRUE]}},
  {[Call EXCEPT !.caller = c, !.id.safe = FALSE] : c \in {ABSENT, "wrong"}},
  {[Call EXCEPT !.body = b] : b \in Failures \cup {Body(i) : i \in Items}},
  {[Call EXCEPT !.header = h] : h \in Headers \cup {Shared}},
  {[Call EXCEPT !.header = Bearer(ABSENT), !.body = Body(MALFORMED)]},
  {[Call EXCEPT !.route = "/verify/batch", !.body = Body(b), !.decision = d] :
     b \in Batches, d \in {"deny", "throws"}} }
==============================================================================
