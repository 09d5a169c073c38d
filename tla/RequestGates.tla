---------------------------- MODULE RequestGates ----------------------------
(***************************************************************************)
(* What a decision request is refused for before anything is decided       *)
(* (routes/verify.mts, http/callerAuth.mts, http/requestId.mts): the body  *)
(* parser's failures, the shape and the bounds of a request or of a batch, *)
(* the resource parser's verdict, and the status each refusal carries.     *)
(*                                                                         *)
(* A string is its length and whether it has a space in it; a context is   *)
(* the entries of its whole tree and its longest string.                   *)
(***************************************************************************)
EXTENDS AppConfig

ASSUME GatesAssumption == ABSENT # "request.aborted"

Answered(status, code) == [status |-> status, code |-> code]

(* createCallerAuthMiddleware: absent and wrong are refused alike.          *)
CallerPasses(gate, presented) == gate = ABSENT \/ presented = gate

(* acceptRequestId: the id carried, refused ones being as absent ones.      *)
MAX_REQUEST_ID_LENGTH == 128

acceptRequestId(id) ==
  IF id # ABSENT /\ id.chars \in 1..MAX_REQUEST_ID_LENGTH /\ id.safe THEN id ELSE ABSENT

-----------------------------------------------------------------------------
(* The body.                                                                *)
bodyParserFailure(type) ==
  CASE type = "entity.too.large" -> Answered(413, "payload_too_large")
    [] type \in {"entity.parse.failed", "request.aborted"} -> Answered(400, "invalid_request")
    [] type \in {"encoding.unsupported", "charset.unsupported"} ->
         Answered(415, "unsupported_media_type")
    [] OTHER -> Answered(500, "internal_error")

(* express.json with the configured limit, and what it does not map.        *)
bodyFailure(body, c) ==
  IF body.failure # ABSENT THEN body.failure
  ELSE IF body.bytes > resolveBound(c, "maxBodyBytes") THEN "entity.too.large" ELSE ABSENT

checkIdentifier(text, maxLength) ==
  /\ text \notin {ABSENT, MALFORMED}
  /\ text.chars \in 1..maxLength /\ ~text.space

checkContext(context, c) ==
  \/ context = ABSENT
  \/ /\ context # MALFORMED
     /\ context.entries <= resolveBound(c, "maxContextEntries")
     /\ context.longest <= resolveBound(c, "maxContextValueLength")

(* "ok", "invalid" for a 400, "fault" for a parser that threw anything but  *)
(* a ResourceParseError.                                                    *)
parseDecisionRequest(e, c) ==
  IF /\ e # MALFORMED
     /\ e.unknown = {}
     /\ checkIdentifier(e.resource, resolveBound(c, "maxResourceLength"))
     /\ checkIdentifier(e.action, resolveBound(c, "maxActionLength"))
     /\ checkContext(e.context, c)
  THEN e.parsed ELSE "invalid"

(* A batch, whole: the first entry that is not usable decides.              *)
parseBatch(b, c) ==
  IF /\ b # MALFORMED /\ b.unknown = {}
     /\ b.decisions \notin {ABSENT, MALFORMED}
     /\ Len(b.decisions) \in 1..resolveBound(c, "maxBatchSize")
  THEN LET bad == {i \in DOMAIN b.decisions : parseDecisionRequest(b.decisions[i], c) # "ok"}
       IN IF bad = {} THEN "ok" ELSE parseDecisionRequest(b.decisions[Min(bad)], c)
  ELSE "invalid"

parseBody(route, value, c) ==
  IF route = "/verify" THEN parseDecisionRequest(value, c) ELSE parseBatch(value, c)

-----------------------------------------------------------------------------
(* The answers.                                                             *)
authFailure(code) ==
  Answered(IF code = "verification_unavailable" THEN 503 ELSE 401, code)

(* A batch says whether it was decided, not what it decided.                *)
decided(route, decision) ==
  Answered(IF route = "/verify" /\ decision = "deny" THEN 403 ELSE 200, decision)
=============================================================================
