---------------------------- MODULE CedarDecision ----------------------------
(***************************************************************************)
(* One Cedar rule, from the collector that is created at boot to what it   *)
(* answers and reports (packages/cedar/src/CedarPolicyRuleCollector.mts),  *)
(* over the engines it may be given: cedar-wasm, which evaluates what it   *)
(* compiled, cedar-agent over http, which evaluates whatever set it holds, *)
(* and an engine registered by a deployment, written to the port's type or *)
(* not quite.                                                              *)
(*                                                                         *)
(* That the agent's set is read back is AgentReadBack's; here it never is. *)
(***************************************************************************)
EXTENDS CedarMapping, SequencesExt

CONSTANTS
  Layouts,    \* what policyDir may hold: file name -> its policies, in order
  Foreign,    \* name -> a set that other processes push to the agent
  AttrMaps,   \* the attribute maps the rule may be asked with
  Collectors, \* collector entries, with the engine each one names
  Replies,    \* the ways an agent's reply to a call may come, and be cut
  BadTypes,   \* resource types that are no Cedar type path
  NONE

(* The revision is a digest of the files' names and texts, so it names the  *)
(* set this verifier loaded and no other.                                   *)
Loaded == "loaded"

ASSUME DecisionAssumption == NONE \notin DOMAIN Foreign /\ Loaded \notin DOMAIN Foreign

VARIABLES
  rule,  \* NONE, "refused", or the collector's entry with its policies
  holds, \* the name of the set the agent holds
  call,  \* NONE, or the authorization call that is out
  told   \* NONE, or what the rule answered and reported

vars == <<rule, holds, call, told>>

-----------------------------------------------------------------------------
(* The engines: what each declares, and what it then loads.                 *)

Wasm == [name |-> "wasm", async |-> FALSE, confirms |-> TRUE, loadsAsync |-> FALSE]
Http == [name |-> "http", async |-> TRUE, confirms |-> FALSE, loadsAsync |-> TRUE]
Custom(async) == [name |-> "custom", async |-> async, confirms |-> TRUE, loadsAsync |-> TRUE]

Available == {Wasm, Http} \cup {Custom(async) : async \in BOOLEAN}

(* A policy reads of a role or of the context; only an entity is in another.*)
WellTyped(policy) ==
  /\ policy.role \in {"principal", "action", "resource", "context"}
  /\ policy.role = "context" => policy.reads # "in"

ASSUME CollectorsAssumption ==
  /\ \A e \in Collectors : e.layout \in Layouts /\ e.registered \subseteq Available
  /\ \A layout \in Layouts : \A f \in DOMAIN layout : \A i \in DOMAIN layout[f] :
       WellTyped(layout[f][i])
  /\ \A a \in AttrMaps : Keys \subseteq DOMAIN a

-----------------------------------------------------------------------------
(* The policy set (policySource.mts).  A name is a sequence: a file's, and  *)
(* the number a policy of several has.                                      *)

PolicyIdsOf(name, count) ==
  IF count = 1 THEN <<name>> ELSE [i \in 1..count |-> Append(name, i)]

Named(layout) ==
  UNION {{[id |-> PolicyIdsOf(f, Len(layout[f]))[i], policy |-> layout[f][i], of |-> <<f, i>>] :
            i \in DOMAIN layout[f]} : f \in DOMAIN layout}

(* A file without a name, or two policies of one name, are refused.         *)
Nameable(layout) ==
  /\ \A f \in DOMAIN layout : f = <<>> => layout[f] = <<>>
  /\ \A p, q \in Named(layout) : p.id = q.id => p = q

PolicySet(layout) ==
  [id \in {p.id : p \in Named(layout)} |->
     (CHOOSE p \in Named(layout) : p.id = id).policy]

Set(name) == IF name = Loaded THEN PolicySet(rule.layout) ELSE Foreign[name]

-----------------------------------------------------------------------------
(* create.                                                                  *)

(* resolveCedarEngine: in-process first, when config names none.            *)
Selected(entry) ==
  LET known == {e.name : e \in entry.registered}
      name == CASE entry.engine # NONE -> entry.engine
                [] "wasm" \in known -> "wasm"
                [] "http" \in known -> "http"
                [] OTHER -> NONE
  IN IF name \in known THEN CHOOSE e \in entry.registered : e.name = name ELSE NONE

(* resolveEndpoint: config before the environment; a base URL, and plain    *)
(* http only on the loopback.                                               *)
Reachable(entry) ==
  LET url == IF entry.endpoint # NONE THEN entry.endpoint ELSE entry.env IN
  url # NONE /\ url.base /\ (url.tls \/ url.loopback)

(* resolveMaxAnswerBytes, resolveReadBackIntervalMs: absent, or in range.   *)
InRange(bound) == bound \in {"absent", "in range"}

(* loadPolicySource: policyDir or policies.                                 *)
SourceChosen(entry) == Cardinality(entry.sources) = 1

(* requestHeaders: a token that cannot be sent is no token.                 *)
Sendable(token) == token \in {"none", "sendable"}

(* What each engine's load refuses: http pushes one policy per file.        *)
Loads(engine, entry) ==
  /\ Nameable(entry.layout)
  /\ engine.name = "http" =>
       /\ Reachable(entry) /\ Sendable(entry.token)
       /\ InRange(entry.maxAnswerBytes) /\ InRange(entry.readBackIntervalMs)
       /\ \A f \in DOMAIN entry.layout : Len(entry.layout[f]) <= 1

(* Mutant of Accepted: abstaining is refused nowhere.                       *)
AcceptedAbstaining(entry, engine) ==
  /\ engine # NONE
  /\ SourceChosen(entry)
  /\ entry.require => engine.confirms
  /\ Loads(engine, entry)
  /\ engine.loadsAsync = engine.async

(* The two checks of what the engine declares come before load, which has   *)
(* effects; that it declared the truth is checked after it.                 *)
Accepted(entry, engine) ==
  /\ engine # NONE
  /\ SourceChosen(entry)
  /\ ~(engine.async /\ entry.abstain)
  /\ entry.require => engine.confirms
  /\ Loads(engine, entry)
  /\ engine.loadsAsync = engine.async

Create(entry) ==
  /\ rule = NONE
  /\ LET engine == Selected(entry) IN
     rule' = IF Accepted(entry, engine)
             THEN [refused |-> FALSE, engine |-> engine, layout |-> entry.layout,
                   abstain |-> entry.abstain, require |-> entry.require,
                   sharing |-> entry.sharing]
             ELSE Refused
  /\ UNCHANGED <<holds, call, told>>

-----------------------------------------------------------------------------
(* What an engine answers.                                                  *)

(* CedarDecision, as an engine written to the port gives it.                *)
Answer(allow, reason, errors) ==
  [allow |-> allow, reason |-> reason, errors |-> errors,
   foreign |-> FALSE, lists |-> TRUE, revision |-> NONE]

Evaluated(engine) == IF engine.name = "wasm" THEN Loaded ELSE holds

(* agentPolicyId: an agent holds each policy under its load's mark, and     *)
(* names it so, as determining or as in error.                              *)
Marked(ids, mark) == {<<id, mark>> : id \in ids}
Unreadable == <<"unreadable">>  \* an item that is no policy id
Nameless == <<"no policy">>     \* an error of the entities, of no policy's

(* erroringPolicy, ownDecision: one item that is not this load's, and the   *)
(* answer is not either, and names nothing of it.                           *)
OwnDecision(answer) ==
  LET own == Marked(DOMAIN Set(Loaded), Loaded) IN
  IF answer.reason \cup (answer.errors \ {Nameless}) \subseteq own
  THEN [answer EXCEPT !.reason = {item[1] : item \in @}]
  ELSE [answer EXCEPT !.reason = {}, !.foreign = TRUE]

Says2xx(reply) == reply.status = "2xx"  \* a redirect is not followed

(* answerText, boundedText: the whole body, and within the bound.           *)
AnswerText(reply) == reply.whole /\ reply.within

(* readDecision: allow or deny, and both lists there, for "no errors" is    *)
(* never inferred from a field that is not.                                 *)
ReadDecision(reply) == reply.decision \in {"allow", "deny"} /\ reply.lists

Decides(reply) == Says2xx(reply) /\ AnswerText(reply) /\ ReadDecision(reply)

(* policyIds: an item that cannot be read stays, as no policy of anyone's.  *)
PolicyIds(ids, mark, reply) ==
  IF reply.readable \/ ids = {} THEN Marked(ids, mark) ELSE {Unreadable}

(* cedar-agent on the set it holds; one kind of error names no policy.      *)
AgentAnswers(request) ==
  LET cedar == Evaluate(Set(holds), request) IN
  {Answer(cedar.allow, PolicyIds(cedar.reason, holds, reply), PolicyIds(cedar.errors, holds, reply)) :
      reply \in {r \in Replies : Decides(r)}}
  \cup {Answer(FALSE, {}, {Nameless})}

(* custom: the same agent behind a wrapper that drops the mark of a foreign *)
(* answer, and may name the revision it was evaluated against, or hand on   *)
(* lists that are not lists.                                                *)
Wrapped(answer, lists, revision) ==
  [answer EXCEPT !.foreign = FALSE, !.lists = lists, !.revision = revision]

Answers(engine, request) ==
  CASE engine.name = "wasm" ->
         LET cedar == Evaluate(Set(Loaded), request)
         IN {[Answer(cedar.allow, cedar.reason, cedar.errors) EXCEPT !.revision = Loaded]}
    [] engine.name = "http" -> {OwnDecision(a) : a \in AgentAnswers(request)}
    [] OTHER -> {Wrapped(OwnDecision(a), l, r) :
                    a \in AgentAnswers(request), l \in BOOLEAN, r \in {NONE, holds}}

(* entityUidLiteral, or cedar-wasm's parser: not a type, not a request.     *)
Typed(request) == request.resource[1] \notin BadTypes

-----------------------------------------------------------------------------
(* buildRule.                                                               *)

Failed == [passed |-> FALSE, status |-> "failed", revision |-> NONE, policies |-> {}]
NotInvoked == [Failed EXCEPT !.status = "not_invoked"]

(* interpret, up to the errors: answers that are none of the loaded set's.  *)
NoDecision(answer) ==
  \/ answer.revision \notin {NONE, Loaded}
  \/ answer.foreign
  \/ ~answer.lists
  \/ answer.allow /\ answer.reason = {}
  \/ rule.require /\ answer.revision = NONE

Interpreted(answer) ==
  IF NoDecision(answer) THEN Failed
  ELSE IF answer.errors # {} THEN [Failed EXCEPT !.revision = answer.revision]
  ELSE [passed |-> answer.allow \/ (answer.reason = {} /\ rule.abstain),
        status |-> "completed", revision |-> answer.revision, policies |-> answer.reason]

(* What the rule says, of which request, on which set's evaluation.         *)
Told(verdict, attrs, from) ==
  [passed |-> verdict.passed, status |-> verdict.status, revision |-> verdict.revision,
   policies |-> verdict.policies, attrs |-> attrs, from |-> from]

Created == rule # NONE /\ ~rule.refused

(* verify, or decide up to its call.                                        *)
Ask(attrs) ==
  /\ Created /\ call = NONE /\ told = NONE
  /\ LET request == Request(rule.sharing, attrs) IN
     IF request.refused
     THEN /\ told' = Told(NotInvoked, attrs, NONE)
          /\ UNCHANGED call
     ELSE IF rule.engine.async
     THEN call' = attrs /\ UNCHANGED told
     ELSE /\ \/ /\ Typed(request)
                /\ \E answer \in Answers(rule.engine, request) :
                     told' = Told(Interpreted(answer), attrs, Evaluated(rule.engine))
             \/ ~Typed(request) /\ told' = Told(Failed, attrs, NONE)
          /\ UNCHANGED call
  /\ UNCHANGED <<rule, holds>>

(* The set the agent holds when it evaluates is the one that answers.       *)
Answered ==
  /\ call # NONE
  /\ LET request == Request(rule.sharing, call) IN
     /\ Typed(request)
     /\ \E answer \in Answers(rule.engine, request) :
          told' = Told(Interpreted(answer), call, holds)
  /\ call' = NONE
  /\ UNCHANGED <<rule, holds>>

(* The call rejects: not sent, unreachable, or a reply that is no decision. *)
CallFails ==
  /\ call # NONE
  /\ \/ ~Typed(Request(rule.sharing, call))
     \/ \E r \in Replies : ~Decides(r)
  /\ told' = Told(Failed, call, NONE)
  /\ call' = NONE
  /\ UNCHANGED <<rule, holds>>

(* The signal aborts, and the rule throws its reason: no answer at all.     *)
Aborted ==
  /\ call # NONE
  /\ told' = Told([Failed EXCEPT !.status = "thrown"], call, NONE)
  /\ call' = NONE
  /\ UNCHANGED <<rule, holds>>

(* The agent restarts empty, or another process pushes a set of its own.    *)
SetReplaced ==
  /\ told = NONE
  /\ holds' \in (DOMAIN Foreign) \ {holds}
  /\ UNCHANGED <<rule, call, told>>

Init == rule = NONE /\ holds = Loaded /\ call = NONE /\ told = NONE

Next ==
  \/ \E entry \in Collectors : Create(entry)
  \/ \E attrs \in AttrMaps : Ask(attrs)
  \/ Answered \/ CallFails \/ Aborted \/ SetReplaced

Spec == Init /\ [][Next]_vars

-----------------------------------------------------------------------------
Passed == told # NONE /\ told.passed

(* A pass, and every policy a report names, is the answer of the set this   *)
(* verifier loaded, with each name one policy's: not of an agent that lost  *)
(* or replaced it while the call was out, through whichever engine.  Of     *)
(* others' sets, those pushed under a mark of their own: what a holder of   *)
(* the token writes under this load's ids is told apart by no answer, only  *)
(* by the read-back (CedarPolicyRuleCollector.mts:570-640,                  *)
(* httpEngine.mts:366-371).                                                 *)
OwnSetDecides ==
  told # NONE /\ (told.passed \/ told.policies # {}) =>
    /\ told.from = Loaded
    /\ \A id \in told.policies :
         Cardinality({p \in Named(rule.layout) : p.id = id}) = 1

(* Spoiled by one value: at k, something malformed stands for what a holds. *)
Spoiled(attrs, k, a) ==
  /\ \/ attrs[k] = Unusable
     \/ /\ Kind(attrs[k]) = "list" /\ Unusable \in attrs[k][2]
        /\ Kind(a[k]) = "list" /\ attrs[k][2] \ {Unusable} \subseteq a[k][2]
  /\ a[k] # attrs[k]
  /\ \A j \in DOMAIN a \ {k} : a[j] = attrs[j]

(* Spoiling one value of the attributes evades no forbid: what a malformed  *)
(* input leaves out never passes a request that the well-formed input has   *)
(* a loaded policy forbid (mapping.mts:163-177, CedarPolicyRuleCollector    *)
(* .mts:644).                                                               *)
ForbidsNotEvaded ==
  Passed =>
    LET set == PolicySet(rule.layout) IN
    \A k \in DOMAIN told.attrs : \A a \in AttrMaps :
      LET well == Request(rule.sharing, a) IN
      Spoiled(told.attrs, k, a) /\ ~well.refused =>
        \A id \in DOMAIN set : set[id].effect = "forbid" => ~Applies(well, set[id])

(* A request that names one entity twice tells Cedar nothing through one    *)
(* role that the other did not say: a name the principal's mapping left out *)
(* is not filled in by the resource's, under "strict" nothing at all is     *)
(* added, and nothing ever describes the action (mapping.mts:54-83).  What  *)
(* keeps it is the comparison of the two descriptions, absence included     *)
(* (mergeConflict, strictDifference): absorb alone fills an omission in.    *)
RolesKeptApart ==
  told # NONE =>
    LET request == Request(rule.sharing, told.attrs)
        subject == Says(Principal, told.attrs)
        gives(uid, n) == At(request.entities[uid].gives, n, Absent)
    IN ~request.refused =>
         /\ \A n \in DOMAIN Principal.attributes :
              gives(request.principal, n) = subject.gives[n]
         /\ rule.sharing = "strict" =>
              /\ \A n \in DOMAIN Resource.attributes \ DOMAIN Principal.attributes :
                   gives(request.principal, n) = Absent
              /\ Memberships(request.entities[request.principal]) = Memberships(subject)
         /\ request.action \in DOMAIN request.entities =>
              /\ \A n \in DOMAIN Resource.attributes : gives(request.action, n) = Absent
              /\ Memberships(request.entities[request.action]) = {}
=============================================================================
