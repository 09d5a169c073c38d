----------------------------- MODULE TokenCheck -----------------------------
(***************************************************************************)
(* The bearer-JWT authenticator of packages/server: the HS256 secrets a    *)
(* rotation leaves overlapping (config/hs256Rotation.mts), the key each    *)
(* token is verified with (jwt/builtinKeyResolversModule.mts), and the     *)
(* verdict on an Authorization header (jwt/tokenAuthenticator.mts).  Every *)
(* operator is a function of the configuration, the header and the time.   *)
(*                                                                         *)
(* A secret is its identity and what its text can be read as; a key is the *)
(* bytes one reading gives, so that one text read two ways is two keys.    *)
(* What jose does of a verification is modelled by what it is asked for.   *)
(***************************************************************************)
EXTENDS Integers, Sequences, FiniteSets, FiniteSetsExt

CONSTANTS
  ABSENT,       \* a key, claim or header that is not there
  MALFORMED     \* one that is there and is not of its type

Encodings == {"utf8", "hex", "base64"}

MIN_SECRET_ENTROPY_BYTES == 32
MAX_PREVIOUS_SECRETS == 3

-----------------------------------------------------------------------------
(* Secrets.  form says which alphabet the text is in: hex text is base64    *)
(* text too, when its length allows.                                        *)
hexByteLength(s) ==
  IF s.form = "hex" /\ s.chars > 0 /\ s.chars % 2 = 0 THEN {s.chars \div 2} ELSE {}

base64ByteLength(s) ==
  IF s.form \in {"hex", "base64"} /\ s.chars > 0 /\ s.chars % 4 # 1
  THEN {(s.chars * 3) \div 4} ELSE {}

(* The smallest plausible reading of the text.                              *)
measureSecretEntropyBytes(s) ==
  Min({s.chars} \cup hexByteLength(s) \cup base64ByteLength(s))

(* The byte lengths a secret decodes to under a reading: none or one.       *)
decodeSecret(s, encoding) ==
  CASE encoding = "utf8" -> {s.chars}
    [] encoding = "hex" -> hexByteLength(s)
    [] encoding = "base64" -> IF s.chars % 4 = 0 THEN base64ByteLength(s) ELSE {}

SecretKey(s, encoding) == <<s.id, encoding>>

checkSecretEncoding(value) == value \in Encodings \cup {ABSENT}

EncodingOf(value) == IF value = ABSENT THEN "utf8" ELSE value

clearsEntropyFloor(s, encoding) ==
  IF encoding = "utf8"
  THEN measureSecretEntropyBytes(s) >= MIN_SECRET_ENTROPY_BYTES
  ELSE \E bytes \in decodeSecret(s, encoding) : bytes >= MIN_SECRET_ENTROPY_BYTES

Given(value) == value \notin {ABSENT, MALFORMED, ""}

(* One entry of previousSecrets, once the encoding is known to be one.      *)
checkEntry(e, encoding) ==
  /\ Given(e.kid)
  /\ e.secret.chars > 0 /\ clearsEntropyFloor(e.secret, encoding)
  /\ e.expiresAt \notin {ABSENT, MALFORMED}

(* Every secret accepted besides the current one, by place; what place each *)
(* has is of no account.                                                    *)
previousSecrets(jwt) == IF jwt.previous = ABSENT THEN <<>> ELSE jwt.previous

(* The rotation block is well formed, at either boundary.                   *)
checkHs256Rotation(jwt) ==
  LET encoding == EncodingOf(jwt.encoding)
      previous == previousSecrets(jwt)
  IN /\ checkSecretEncoding(jwt.encoding)
     /\ jwt.kid = ABSENT \/ Given(jwt.kid)
     /\ jwt.secret = ABSENT \/ clearsEntropyFloor(jwt.secret, encoding)
     /\ jwt.previous # MALFORMED
     /\ Cardinality(DOMAIN previous) <= MAX_PREVIOUS_SECRETS
     /\ \A i \in DOMAIN previous :
          /\ checkEntry(previous[i], encoding)
          /\ previous[i].kid # jwt.kid
          /\ \A j \in DOMAIN previous : previous[i].kid = previous[j].kid => i = j
     /\ DOMAIN previous # {} => Given(jwt.kid)

-----------------------------------------------------------------------------
(* The key a token is verified with.                                        *)
Hs256Keys(jwt) ==
  LET encoding == EncodingOf(jwt.encoding)
      previous == previousSecrets(jwt)
  IN {[kid |-> jwt.kid, key |-> SecretKey(jwt.secret, encoding), until |-> ABSENT]}
       \cup {[kid |-> previous[i].kid, key |-> SecretKey(previous[i].secret, encoding),
              until |-> previous[i].expiresAt] : i \in DOMAIN previous}

(* Mutant of isLive: the window closes a moment late.                       *)
isLiveStill(entry, now) == entry.until = ABSENT \/ entry.until + 1 > now

isLive(entry, now) == entry.until = ABSENT \/ entry.until > now

(* Mutant of rotatingKeys: the current secret is the one that is tried.     *)
rotatingKeysByKidAlone(keys, current, token, now) ==
  IF token.kid = ABSENT THEN {current}
  ELSE {e.key : e \in {k \in keys : k.kid = token.kid /\ isLive(k, now)}}

(* createRotatingKeyResolver: the keys the resolver may hand to jose; none  *)
(* when it throws JWKSNoMatchingKey.                                        *)
rotatingKeys(keys, current, token, now) ==
  LET live == {k \in keys : isLive(k, now)}
      signed == {k \in live : k.key = token.signer}
  IN IF token.kid # ABSENT THEN {k.key : k \in {e \in live : e.kid = token.kid}}
     ELSE IF signed # {} THEN {token.signer}
     ELSE {current}

(* What the algorithm's resolver was built from at boot.  A JWKS is asked   *)
(* per token: published is what the issuer serves now, or none.             *)
KeysFor(jwt, token, now, published) ==
  IF jwt.algorithm = "HS256"
  THEN LET current == SecretKey(jwt.secret, EncodingOf(jwt.encoding))
       IN IF jwt.kid = ABSENT /\ DOMAIN previousSecrets(jwt) = {} THEN {current}
          ELSE rotatingKeys(Hs256Keys(jwt), current, token, now)
  ELSE IF jwt.jwksUri \notin {ABSENT, ""} THEN published
  ELSE {<<jwt.publicKey, "spki">>}

-----------------------------------------------------------------------------
(* Claims.  A claim's value is what it holds and how it is spelled.         *)
audienceMatches(claim, accepted) ==
  claim.kind \in {"string", "array"} /\ claim.has \cap accepted # {}

(* jose's own rule for aud tolerates an array with a non-string in it.      *)
joseAudienceMatches(claim, accepted) ==
  claim.kind \in {"string", "array", "mixed"} /\ claim.has \cap accepted # {}

(* What the token says of its own lifetime, in either mode.                 *)
assertTimeClaims(t, maxTokenAge, tolerance, now) ==
  /\ {t.iat, t.exp} \cap {ABSENT, MALFORMED} = {}
  /\ t.nbf = ABSENT \/ (t.nbf # MALFORMED /\ t.nbf <= now + tolerance)
  /\ t.exp > now - tolerance
  /\ (now - t.iat) - tolerance <= maxTokenAge
  /\ now - t.iat >= -tolerance

(* jwtVerify with the options it is given, once it has a key.               *)
Verified(jwt, t, keys, now) ==
  /\ t.signer \in keys
  /\ t.iss \in jwt.issuer
  /\ jwt.tokenType = "*" \/ t.typ = jwt.tokenType
  /\ IF jwt.audienceClaim \in {ABSENT, "aud"}
     THEN joseAudienceMatches(t.aud, jwt.audience)
     ELSE audienceMatches(t.azp, jwt.audience)
  /\ assertTimeClaims(t, jwt.maxTokenAge, jwt.tolerance, now)

(* The keys could not be asked for at all: a fetch that failed.  A token of *)
(* another algorithm is refused before a key is asked for.                  *)
isVerificationUnavailable(jwt, t, fetch) ==
  /\ jwt.algorithm # "HS256" /\ jwt.jwksUri \notin {ABSENT, ""}
  /\ t.alg = jwt.algorithm
  /\ fetch = "failed"

(* The built-in authenticator: "ok", or the code of its refusal.            *)
authenticate(jwt, header, now, fetch, published) ==
  IF header = ABSENT THEN "missing_token"
  ELSE IF header.scheme # "bearer" THEN "unsupported_scheme"
  ELSE IF header.token = ABSENT THEN "missing_token"
  ELSE LET t == header.token
           accepted ==
             /\ t.cnf = FALSE
             /\ IF jwt.mode = "insecure-decode"
                THEN assertTimeClaims(t, jwt.maxTokenAge, jwt.tolerance, now)
                ELSE /\ t.alg = jwt.algorithm
                     /\ Verified(jwt, t, KeysFor(jwt, t, now, published), now)
       IN IF jwt.mode # "insecure-decode" /\ isVerificationUnavailable(jwt, t, fetch)
          THEN "verification_unavailable"
          ELSE IF accepted THEN "ok" ELSE "invalid_token"
=============================================================================
