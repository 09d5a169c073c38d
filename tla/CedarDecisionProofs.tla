------------------------- MODULE CedarDecisionProofs -------------------------
(***************************************************************************)
(* What CedarDecision keeps for every mapping that boot accepts, every     *)
(* policy set, engine, agent's reply and attribute map: a request's roles  *)
(* stay apart, what passes is an answer of the set this verifier loaded,   *)
(* and a malformed attribute evades no forbid.                             *)
(***************************************************************************)
EXTENDS CedarDecision, FiniteSetTheorems, TLAPS

-----------------------------------------------------------------------------
(* The request, role by role.                                               *)

Subject(attrs) == Says(Principal, attrs)
Object(attrs) == Says(Resource, attrs)
PrincipalOf(attrs) == <<PrincipalType, attrs["user"][2]>>
ActionOf(attrs) == <<ActionType, attrs["action"][2]>>
ResourceOf(attrs) ==
  <<attrs["type"][2], IF attrs["id"] = Absent THEN IdWhenAbsent ELSE attrs["id"][2]>>
HeldOf(attrs) == IF ResourceOf(attrs) = PrincipalOf(attrs) THEN Subject(attrs) ELSE Nothing
EntitiesOf(attrs) ==
  [e \in {PrincipalOf(attrs), ResourceOf(attrs)} |->
     IF e = ResourceOf(attrs) THEN Absorbed(HeldOf(attrs), Object(attrs)) ELSE Subject(attrs)]

(* Why a request is not refused, and what it then is.                       *)
LEMMA RequestIs ==
  ASSUME NEW sharing, NEW attrs, ~Request(sharing, attrs).refused
  PROVE  /\ Request(sharing, attrs) =
              [refused |-> FALSE, principal |-> PrincipalOf(attrs), action |-> ActionOf(attrs),
               resource |-> ResourceOf(attrs), entities |-> EntitiesOf(attrs),
               context |-> ContextOf(attrs)]
         /\ \A k \in {"user", "action", "type"} : NonEmptyText(attrs[k])
         /\ OptionalText(attrs["id"])
         /\ ~ParentsMalformed(Principal, attrs) /\ ~ParentsMalformed(Resource, attrs)
         /\ ResourceOf(attrs) \in {PrincipalOf(attrs), ActionOf(attrs)} =>
              Reconciled(sharing, ResourceOf(attrs) = PrincipalOf(attrs), HeldOf(attrs), Object(attrs))
<1> DEFINE built == [refused |-> FALSE, principal |-> PrincipalOf(attrs),
                     action |-> ActionOf(attrs), resource |-> ResourceOf(attrs),
                     entities |-> EntitiesOf(attrs), context |-> ContextOf(attrs)]
           unusable == \/ \E k \in {"user", "action", "type"} : ~NonEmptyText(attrs[k])
                       \/ ~OptionalText(attrs["id"])
                       \/ ParentsMalformed(Principal, attrs) \/ ParentsMalformed(Resource, attrs)
           clashes == \/ /\ ResourceOf(attrs) \in {PrincipalOf(attrs), ActionOf(attrs)}
                         /\ ~Reconciled(sharing, ResourceOf(attrs) = PrincipalOf(attrs),
                                        HeldOf(attrs), Object(attrs))
                      \/ Cyclic(EntitiesOf(attrs))
<1>1. Request(sharing, attrs) = IF unusable THEN Refused ELSE IF clashes THEN Refused ELSE built
  BY DEF Request, PrincipalOf, ActionOf, ResourceOf, EntitiesOf, HeldOf, Subject, Object
<1>2. Refused.refused
  BY DEF Refused
<1>3. ~unusable /\ ~clashes
  <2> HIDE DEF unusable, clashes, built
  <2> QED BY <1>1, <1>2
<1>4. Request(sharing, attrs) = built
  <2> HIDE DEF unusable, clashes, built
  <2> QED BY <1>1, <1>3
<1> QED BY <1>3, <1>4

(* What the request says of each entity; the later role's word counts only  *)
(* where the earlier one is silent.                                         *)
LEMMA EntitiesAre ==
  ASSUME NEW attrs
  PROVE  /\ DOMAIN EntitiesOf(attrs) = {PrincipalOf(attrs), ResourceOf(attrs)}
         /\ EntitiesOf(attrs)[ResourceOf(attrs)] = Absorbed(HeldOf(attrs), Object(attrs))
         /\ ResourceOf(attrs) # PrincipalOf(attrs) =>
              EntitiesOf(attrs)[PrincipalOf(attrs)] = Subject(attrs) /\ HeldOf(attrs) = Nothing
         /\ ResourceOf(attrs) = PrincipalOf(attrs) => HeldOf(attrs) = Subject(attrs)
BY DEF EntitiesOf, HeldOf

(* What absorbing adds, name by name and type by type.                      *)
LEMMA AbsorbedIs ==
  ASSUME NEW held, NEW offered
  PROVE  LET both == Absorbed(held, offered) IN
         /\ DOMAIN both.gives = DOMAIN held.gives \cup DOMAIN offered.gives
         /\ DOMAIN both.parents = DOMAIN held.parents \cup DOMAIN offered.parents
         /\ \A n \in DOMAIN held.gives :
              both.gives[n] = IF held.gives[n] # Absent THEN held.gives[n]
                              ELSE At(offered.gives, n, Absent)
         /\ \A n \in DOMAIN offered.gives \ DOMAIN held.gives : both.gives[n] = offered.gives[n]
         /\ \A t \in DOMAIN both.parents :
              both.parents[t] = At(held.parents, t, {}) \cup At(offered.parents, t, {})
BY DEF Absorbed, At

(* Where the two agree on what both declare, the earlier role's description *)
(* stands as it is, its omissions included: this is what mergeConflict is   *)
(* for, since absorbing alone would fill them in.                           *)
LEMMA AgreeingAbsorbed ==
  ASSUME NEW held, NEW offered, Agrees(held, offered)
  PROVE  LET both == Absorbed(held, offered) IN
         /\ \A n \in DOMAIN held.gives : both.gives[n] = held.gives[n]
         /\ \A t \in DOMAIN held.parents : both.parents[t] = held.parents[t]
         /\ \A t \in DOMAIN offered.parents \ DOMAIN held.parents :
              both.parents[t] = offered.parents[t]
<1> DEFINE both == Absorbed(held, offered)
<1>1. ASSUME NEW n \in DOMAIN held.gives PROVE both.gives[n] = held.gives[n]
  <2>1. CASE held.gives[n] # Absent
    BY <2>1, AbsorbedIs
  <2>2. CASE held.gives[n] = Absent
    <3>1. At(offered.gives, n, Absent) = Absent
      BY <2>2 DEF At, Agrees
    <3> QED BY <2>2, <3>1, AbsorbedIs
  <2> QED BY <2>1, <2>2
<1>2. ASSUME NEW t \in DOMAIN held.parents PROVE both.parents[t] = held.parents[t]
  <2>1. both.parents[t] = At(held.parents, t, {}) \cup At(offered.parents, t, {})
    BY AbsorbedIs
  <2>2. At(held.parents, t, {}) = held.parents[t]
    BY DEF At
  <2>3. At(offered.parents, t, {}) \in {{}, held.parents[t]}
    BY DEF At, Agrees
  <2> QED BY <2>1, <2>2, <2>3
<1>3. ASSUME NEW t \in DOMAIN offered.parents \ DOMAIN held.parents
      PROVE  both.parents[t] = offered.parents[t]
  <2>1. both.parents[t] = At(held.parents, t, {}) \cup At(offered.parents, t, {})
    BY AbsorbedIs
  <2>2. At(held.parents, t, {}) = {} /\ At(offered.parents, t, {}) = offered.parents[t]
    BY DEF At
  <2> QED BY <2>1, <2>2
<1> QED BY <1>1, <1>2, <1>3

(* What the roles of a request that is built say of one entity agrees.      *)
LEMMA RolesAgree ==
  ASSUME NEW sharing, NEW attrs, ~Request(sharing, attrs).refused
  PROVE  Agrees(HeldOf(attrs), Object(attrs))
<1>1. CASE ResourceOf(attrs) = PrincipalOf(attrs)
  BY <1>1, RequestIs DEF Reconciled
<1>2. CASE ResourceOf(attrs) # PrincipalOf(attrs)
  <2>1. HeldOf(attrs) = Nothing
    BY <1>2, EntitiesAre
  <2>2. DOMAIN Nothing.gives = {} /\ DOMAIN Nothing.parents = {}
    BY DEF Nothing
  <2> QED BY <2>1, <2>2 DEF Agrees
<1> QED BY <1>1, <1>2

(* What a role's mapping declares.                                          *)
LEMMA SaysIs ==
  ASSUME NEW role, NEW attrs
  PROVE  /\ DOMAIN Says(role, attrs).gives = DOMAIN role.attributes
         /\ DOMAIN Says(role, attrs).parents = DOMAIN role.parents
         /\ \A n \in DOMAIN role.attributes :
              Says(role, attrs).gives[n] = Mapped(role.attributes[n], attrs)
BY DEF Says

(* Absorbing what adds nothing leaves the memberships what they were.       *)
LEMMA NothingAdded ==
  ASSUME NEW held, NEW offered, Agrees(held, offered), AddsNothing(held, offered)
  PROVE  Memberships(Absorbed(held, offered)) = Memberships(held)
<1> DEFINE both == Absorbed(held, offered)
<1>1. /\ DOMAIN both.parents = DOMAIN held.parents \cup DOMAIN offered.parents
      /\ \A t \in DOMAIN held.parents : both.parents[t] = held.parents[t]
      /\ \A t \in DOMAIN both.parents \ DOMAIN held.parents : both.parents[t] = {}
  BY AbsorbedIs, AgreeingAbsorbed DEF AddsNothing
<1> HIDE DEF both
<1>2. ASSUME NEW g PROVE g \in Memberships(both) <=> g \in Memberships(held)
  BY <1>1 DEF Memberships
<1> QED BY <1>2 DEF both

(* The principal is described by its own mapping and, under "strict", by    *)
(* nothing else; the action by none.                                        *)
LEMMA RolesApart ==
  ASSUME NEW sharing, NEW attrs, ~Request(sharing, attrs).refused
  PROVE  LET request == Request(sharing, attrs)
             subject == Says(Principal, attrs)
             gives(uid, n) == At(request.entities[uid].gives, n, Absent)
         IN /\ \A n \in DOMAIN Principal.attributes :
                 gives(request.principal, n) = subject.gives[n]
            /\ sharing = "strict" =>
                 /\ \A n \in DOMAIN Resource.attributes \ DOMAIN Principal.attributes :
                      gives(request.principal, n) = Absent
                 /\ Memberships(request.entities[request.principal]) = Memberships(subject)
            /\ request.action \in DOMAIN request.entities =>
                 /\ \A n \in DOMAIN Resource.attributes : gives(request.action, n) = Absent
                 /\ Memberships(request.entities[request.action]) = {}
<1> DEFINE p == PrincipalOf(attrs)
           r == ResourceOf(attrs)
           a == ActionOf(attrs)
           es == EntitiesOf(attrs)
           subject == Subject(attrs)
           object == Object(attrs)
           gives(uid, n) == At(es[uid].gives, n, Absent)
<1>1. /\ Request(sharing, attrs).principal = p /\ Request(sharing, attrs).action = a
      /\ Request(sharing, attrs).entities = es
      /\ r \in {p, a} => Reconciled(sharing, r = p, HeldOf(attrs), object)
  BY RequestIs
<1>2. /\ DOMAIN subject.gives = DOMAIN Principal.attributes
      /\ DOMAIN object.gives = DOMAIN Resource.attributes
  BY SaysIs DEF Subject, Object
<1>3. p # a
  BY MappingAssumption DEF Resolved, PrincipalOf, ActionOf
<1>4. CASE r = p
  <2>1. es[p] = Absorbed(subject, object) /\ DOMAIN es = {p}
    BY <1>4, EntitiesAre
  <2>2. Agrees(subject, object)
    BY <1>4, RolesAgree, EntitiesAre
  <2>3. \A n \in DOMAIN subject.gives : gives(p, n) = subject.gives[n]
    BY <2>1, <2>2, AbsorbedIs, AgreeingAbsorbed DEF At
  <2>4. ASSUME sharing = "strict" PROVE AddsNothing(subject, object)
    BY <1>1, <1>4, <2>4, EntitiesAre DEF Reconciled
  <2>5. ASSUME sharing = "strict", NEW n \in DOMAIN object.gives \ DOMAIN subject.gives
        PROVE  gives(p, n) = Absent
    BY <2>1, <2>4, <2>5, AbsorbedIs DEF AddsNothing, At
  <2>6. sharing = "strict" => Memberships(es[p]) = Memberships(subject)
    BY <2>1, <2>4, <2>2, NothingAdded
  <2> QED BY <1>1, <1>2, <1>3, <2>1, <2>3, <2>5, <2>6 DEF Subject
<1>5. CASE r # p
  <2>1. es[p] = subject /\ DOMAIN es = {p, r} /\ es[r] = Absorbed(Nothing, object)
    BY <1>5, EntitiesAre
  <2>2. ASSUME a \in DOMAIN es PROVE r = a /\ AddsNothing(Nothing, object)
    BY <1>1, <1>3, <1>5, <2>1, <2>2, EntitiesAre DEF Reconciled
  <2>3. ASSUME a \in DOMAIN es, NEW n \in DOMAIN object.gives PROVE gives(a, n) = Absent
    BY <2>1, <2>2, <2>3, AbsorbedIs DEF AddsNothing, Nothing, At
  <2>4. a \in DOMAIN es => Memberships(es[a]) = {}
    <3>1. Memberships(Nothing) = {}
      BY DEF Memberships, Nothing
    <3>2. Agrees(Nothing, object)
      BY <1>5, RolesAgree, EntitiesAre
    <3> QED BY <2>1, <2>2, <3>1, <3>2, NothingAdded
  <2>5. /\ \A n \in DOMAIN subject.gives : gives(p, n) = subject.gives[n]
        /\ \A n : n \notin DOMAIN subject.gives => gives(p, n) = Absent
    BY <2>1 DEF At
  <2> HIDE DEF gives
  <2>6. \A n \in DOMAIN Resource.attributes \ DOMAIN Principal.attributes : gives(p, n) = Absent
    BY <1>2, <2>5
  <2>7. Memberships(es[p]) = Memberships(subject)
    BY <2>1
  <2> QED BY <1>1, <1>2, <2>3, <2>4, <2>5, <2>6, <2>7 DEF Subject, gives
<1> QED BY <1>4, <1>5

-----------------------------------------------------------------------------
(* What one rule keeps, from its creation to what it tells.                 *)

(* No policy of the set errs on a request, and none forbids it.             *)
Quiet(set, request) ==
  \A id \in DOMAIN set :
    /\ ~Errs(request, set[id])
    /\ set[id].effect = "forbid" => ~Applies(request, set[id])

(* A verdict that passes, or names a policy, speaks of the loaded set; one  *)
(* that passes, of a request that set neither errs on nor forbids.          *)
Founded(verdict, request, from) ==
  LET set == PolicySet(rule.layout) IN
  /\ verdict.passed \/ verdict.policies # {} =>
       from = Loaded /\ verdict.policies \subseteq DOMAIN set
  /\ verdict.passed => ~request.refused /\ Quiet(set, request)

(* Only an engine that answers at once may abstain, and it is cedar-wasm.   *)
Chosen ==
  Created =>
    /\ rule.layout \in Layouts /\ Nameable(rule.layout)
    /\ rule.engine \in {Wasm, Http, Custom(TRUE)}
    /\ rule.engine # Wasm => ~rule.abstain

Calling ==
  call # NONE =>
    /\ Created /\ rule.engine # Wasm
    /\ call \in AttrMaps /\ ~Request(rule.sharing, call).refused

Telling ==
  told # NONE =>
    /\ Created
    /\ told.attrs \in AttrMaps
    /\ Founded(told, Request(rule.sharing, told.attrs), told.from)

CedarInv == Chosen /\ Calling /\ Telling

(* What Cedar says of a set: its diagnostics name policies of it, an allow  *)
(* has one that permits, and without a reason there is none that forbids.   *)
LEMMA EvaluateIs ==
  ASSUME NEW set, NEW request
  PROVE  LET cedar == Evaluate(set, request) IN
         /\ cedar.reason \subseteq DOMAIN set
         /\ cedar.errors = {id \in DOMAIN set : Errs(request, set[id])}
         /\ cedar.allow => cedar.reason # {}
         /\ cedar.allow \/ cedar.reason = {} =>
              \A id \in DOMAIN set : set[id].effect = "forbid" => ~Applies(request, set[id])
<1> DEFINE on(effect) == {id \in DOMAIN set : set[id].effect = effect /\ Applies(request, set[id])}
<1>1. PICK forbids, permits, wrong :
        /\ forbids = on("forbid") /\ permits = on("permit")
        /\ wrong = {id \in DOMAIN set : Errs(request, set[id])}
        /\ Evaluate(set, request) =
             [allow |-> forbids = {} /\ permits # {},
              reason |-> IF forbids # {} THEN forbids ELSE permits, errors |-> wrong]
  BY DEF Evaluate
<1>2. forbids \subseteq DOMAIN set /\ permits \subseteq DOMAIN set
  BY <1>1
<1>3. forbids = {} =>
        \A id \in DOMAIN set : set[id].effect = "forbid" => ~Applies(request, set[id])
  BY <1>1
<1> HIDE DEF on
<1>4. Evaluate(set, request).allow = (forbids = {} /\ permits # {})
  BY <1>1
<1>5. Evaluate(set, request).reason = IF forbids # {} THEN forbids ELSE permits
  BY <1>1
<1>6. Evaluate(set, request).errors = {id \in DOMAIN set : Errs(request, set[id])}
  BY <1>1
<1> QED BY <1>2, <1>3, <1>4, <1>5, <1>6

(* An answer that reads as this load's, and names a policy, was evaluated   *)
(* on this load's set: the mark is part of every id.                        *)
LEMMA MarkTells ==
  ASSUME NEW ids, NEW mark, NEW reply, NEW own, ids # {},
         PolicyIds(ids, mark, reply) \subseteq Marked(own, Loaded)
  PROVE  mark = Loaded
<1>1. PICK id \in ids : TRUE
  OBVIOUS
<1>2. Unreadable \notin Marked(own, Loaded)
  <2>1. \A o \in own : <<o, Loaded>> # Unreadable
    BY DEF Unreadable
  <2> QED BY <2>1 DEF Marked
<1>3. PolicyIds(ids, mark, reply) = Marked(ids, mark)
  BY <1>2 DEF PolicyIds
<1>4. <<id, mark>> \in Marked(own, Loaded)
  BY <1>1, <1>3 DEF Marked
<1> QED BY <1>4 DEF Marked

(* What the http engine makes of an answer: the names it hands on are of    *)
(* the loaded set, and it hands on none of an answer that is not.           *)
LEMMA OwnDecisionIs ==
  ASSUME NEW allow, NEW reason, NEW errors
  PROVE  LET own == OwnDecision(Answer(allow, reason, errors))
             set == Set(Loaded) IN
         /\ own.allow = allow /\ own.errors = errors
         /\ own.reason \subseteq DOMAIN set
         /\ own.reason # {} => reason # {} /\ reason \subseteq Marked(DOMAIN set, Loaded)
<1> DEFINE names == Marked(DOMAIN Set(Loaded), Loaded)
           answer == Answer(allow, reason, errors)
           ours == reason \cup (errors \ {Nameless}) \subseteq names
           told1 == {item[1] : item \in reason}
<1>1. OwnDecision(answer) = IF ours THEN [answer EXCEPT !.reason = told1]
                            ELSE [answer EXCEPT !.reason = {}, !.foreign = TRUE]
  BY DEF OwnDecision, Answer
<1>2. ASSUME ours PROVE told1 \subseteq DOMAIN Set(Loaded)
  BY <1>2 DEF Marked
<1>3. told1 # {} => reason # {}
  OBVIOUS
<1>4. ours => reason \subseteq names
  OBVIOUS
<1>5. answer = [allow |-> allow, reason |-> reason, errors |-> errors,
                foreign |-> FALSE, lists |-> TRUE, revision |-> NONE]
  BY DEF Answer
<1> HIDE DEF answer, ours, told1
<1>6. /\ OwnDecision(answer).allow = allow /\ OwnDecision(answer).errors = errors
      /\ OwnDecision(answer).reason = IF ours THEN told1 ELSE {}
  BY <1>1, <1>5
<1> QED BY <1>2, <1>3, <1>4, <1>6 DEF answer

(* An agent's answer, once it reads as the loaded set's and names a policy, *)
(* is that set's evaluation.                                                *)
LEMMA AgentIsOwn ==
  ASSUME NEW request, NEW answer \in AgentAnswers(request)
  PROVE  LET own == OwnDecision(answer) IN
         /\ own.reason \subseteq DOMAIN Set(Loaded)
         /\ own.reason # {} => holds = Loaded
         /\ own.reason # {} /\ own.allow /\ own.errors = {} => Quiet(Set(Loaded), request)
<1> DEFINE cedar == Evaluate(Set(holds), request)
<1>1. CASE answer = Answer(FALSE, {}, {Nameless})
  BY <1>1, OwnDecisionIs
<1>2. CASE \E reply \in Replies :
             answer = Answer(cedar.allow, PolicyIds(cedar.reason, holds, reply),
                             PolicyIds(cedar.errors, holds, reply))
  <2>1. PICK reply \in Replies :
          answer = Answer(cedar.allow, PolicyIds(cedar.reason, holds, reply),
                          PolicyIds(cedar.errors, holds, reply))
    BY <1>2
  <2> DEFINE reasons == PolicyIds(cedar.reason, holds, reply)
             wrong == PolicyIds(cedar.errors, holds, reply)
             own == OwnDecision(answer)
  <2>2. /\ own.allow = cedar.allow /\ own.errors = wrong
        /\ own.reason \subseteq DOMAIN Set(Loaded)
        /\ own.reason # {} => reasons # {} /\ reasons \subseteq Marked(DOMAIN Set(Loaded), Loaded)
    <3> HIDE DEF reasons, wrong, cedar
    <3> QED BY <2>1, OwnDecisionIs DEF reasons, wrong
  <2>3. ASSUME own.reason # {} PROVE holds = Loaded
    <3>1. cedar.reason # {}
      BY <2>2, <2>3 DEF PolicyIds, Marked
    <3> QED BY <2>2, <2>3, <3>1, MarkTells
  <2>4. wrong = {} => cedar.errors = {}
    <3>1. CASE cedar.errors # {} /\ wrong = Marked(cedar.errors, holds)
      BY <3>1 DEF Marked
    <3>2. CASE wrong = {Unreadable}
      BY <3>2
    <3> QED BY <3>1, <3>2 DEF PolicyIds
  <2>5. ASSUME own.reason # {}, own.allow, own.errors = {} PROVE Quiet(Set(Loaded), request)
    <3>1. cedar.allow /\ cedar.errors = {} /\ holds = Loaded
      BY <2>2, <2>3, <2>4, <2>5
    <3> QED BY <3>1, EvaluateIs DEF Quiet
  <2> QED BY <2>2, <2>3, <2>5
<1> QED BY <1>1, <1>2 DEF AgentAnswers

(* A wrapper hands on the decision and both its lists.                      *)
LEMMA WrappedKeeps ==
  ASSUME NEW request, NEW agent \in AgentAnswers(request), NEW lists, NEW revision
  PROVE  LET own == OwnDecision(agent)
             answer == Wrapped(own, lists, revision)
         IN answer.allow = own.allow /\ answer.reason = own.reason /\ answer.errors = own.errors
<1>1. PICK allow, reason, errors : agent = Answer(allow, reason, errors)
  BY DEF AgentAnswers
<1>2. DOMAIN OwnDecision(agent) = {"allow", "reason", "errors", "foreign", "lists", "revision"}
  BY <1>1 DEF OwnDecision, Answer
<1> QED BY <1>2 DEF Wrapped

(* Whatever the engine the rule was created with, what it answers is        *)
(* interpreted into a verdict of the set this verifier loaded.              *)
LEMMA AnswersAreOwn ==
  ASSUME Chosen, Created, NEW request, ~request.refused,
         NEW answer \in Answers(rule.engine, request)
  PROVE  Founded(Interpreted(answer), request, Evaluated(rule.engine))
<1> DEFINE set == PolicySet(rule.layout)
           verdict == Interpreted(answer)
<1>1. Set(Loaded) = set
  BY DEF Set
<1>2. /\ verdict.passed =>
           /\ ~NoDecision(answer) /\ answer.errors = {}
           /\ answer.allow \/ (answer.reason = {} /\ rule.abstain)
      /\ verdict.policies # {} => ~NoDecision(answer) /\ verdict.policies = answer.reason
  <2>1. /\ ~Failed.passed /\ Failed.policies = {}
        /\ ~[Failed EXCEPT !.revision = answer.revision].passed
        /\ [Failed EXCEPT !.revision = answer.revision].policies = {}
    BY DEF Failed
  <2> HIDE DEF Failed
  <2> QED BY <2>1 DEF Interpreted
<1>3. verdict.policies \subseteq answer.reason
  BY <1>2
<1>4. ~NoDecision(answer) /\ answer.allow => answer.reason # {}
  BY DEF NoDecision
<1>5. CASE rule.engine = Wasm
  <2> DEFINE cedar == Evaluate(set, request)
  <2>1. rule.engine.name = "wasm"
    BY <1>5 DEF Wasm
  <2>2. answer = [Answer(cedar.allow, cedar.reason, cedar.errors) EXCEPT !.revision = Loaded]
    BY <1>1, <2>1 DEF Answers
  <2>3. answer.allow = cedar.allow /\ answer.reason = cedar.reason /\ answer.errors = cedar.errors
    <3> HIDE DEF cedar
    <3> QED BY <2>2 DEF Answer
  <2>4. verdict.passed => Quiet(set, request)
    BY <1>2, <2>3, EvaluateIs DEF Quiet
  <2>5. verdict.policies \subseteq DOMAIN set
    BY <1>3, <2>3, EvaluateIs
  <2>6. Evaluated(rule.engine) = Loaded
    BY <2>1 DEF Evaluated
  <2> QED BY <2>4, <2>5, <2>6 DEF Founded
<1>6. ASSUME rule.engine.name # "wasm", ~rule.abstain, NEW agent \in AgentAnswers(request),
             answer.allow = OwnDecision(agent).allow,
             answer.reason = OwnDecision(agent).reason,
             answer.errors = OwnDecision(agent).errors
      PROVE  Founded(verdict, request, Evaluated(rule.engine))
  <2>1. Evaluated(rule.engine) = holds
    BY <1>6 DEF Evaluated
  <2>2. verdict.passed \/ verdict.policies # {} => answer.reason # {}
    BY <1>2, <1>4, <1>6
  <2>3. verdict.passed => answer.allow /\ answer.errors = {}
    BY <1>2, <1>6
  <2> QED BY <1>1, <1>3, <1>6, <2>1, <2>2, <2>3, AgentIsOwn DEF Founded
<1>7. CASE rule.engine = Http
  <2>1. rule.engine.name = "http" /\ rule.engine # Wasm
    BY <1>7 DEF Http, Wasm
  <2>2. PICK agent \in AgentAnswers(request) : answer = OwnDecision(agent)
    BY <2>1 DEF Answers
  <2> QED BY <1>6, <2>1, <2>2 DEF Chosen
<1>8. CASE rule.engine = Custom(TRUE)
  <2>1. rule.engine.name = "custom" /\ rule.engine # Wasm
    BY <1>8 DEF Custom, Wasm
  <2>2. PICK agent \in AgentAnswers(request), l \in BOOLEAN, r \in {NONE, holds} :
          answer = Wrapped(OwnDecision(agent), l, r)
    BY <2>1 DEF Answers
  <2>3. /\ answer.allow = OwnDecision(agent).allow /\ answer.reason = OwnDecision(agent).reason
        /\ answer.errors = OwnDecision(agent).errors
    BY <2>2, WrappedKeeps
  <2> QED BY <1>6, <2>1, <2>2, <2>3 DEF Chosen
<1> QED BY <1>5, <1>7, <1>8 DEF Chosen

(* The engine a collector is created with is one that was registered.       *)
LEMMA SelectedIs ==
  ASSUME NEW entry, Selected(entry) # NONE
  PROVE  Selected(entry) \in entry.registered
<1> DEFINE known == {e.name : e \in entry.registered}
           name == CASE entry.engine # NONE -> entry.engine
                     [] "wasm" \in known -> "wasm"
                     [] "http" \in known -> "http"
                     [] OTHER -> NONE
<1>1. Selected(entry) = IF name \in known THEN CHOOSE e \in entry.registered : e.name = name ELSE NONE
  BY DEF Selected
<1> HIDE DEF name
<1>2. \E e \in entry.registered : e.name = name
  BY <1>1
<1> QED BY <1>1, <1>2

(* What is told of a founded verdict is founded.                            *)
LEMMA TellingFounded ==
  ASSUME UNCHANGED rule, Created, NEW verdict, NEW attrs \in AttrMaps, NEW from,
         Founded(verdict, Request(rule.sharing, attrs), from),
         told' = Told(verdict, attrs, from)
  PROVE  Telling'
<1>1. /\ told'.passed = verdict.passed /\ told'.policies = verdict.policies
      /\ told'.attrs = attrs /\ told'.from = from
  BY DEF Told
<1>2. Created'
  BY DEF Created
<1>3. /\ verdict.passed \/ verdict.policies # {} =>
           from = Loaded /\ verdict.policies \subseteq DOMAIN PolicySet(rule.layout)
      /\ verdict.passed => /\ ~Request(rule.sharing, attrs).refused
                           /\ Quiet(PolicySet(rule.layout), Request(rule.sharing, attrs))
  BY DEF Founded
<1>4. Founded(told, Request(rule.sharing, told.attrs), told.from)'
  BY <1>1, <1>3 DEF Founded
<1> QED BY <1>1, <1>2, <1>4 DEF Telling

(* Where the rule has no answer, it says nothing that needs a foundation.   *)
LEMMA NothingToFound ==
  ASSUME NEW request, NEW from, NEW status
  PROVE  /\ Founded(Failed, request, from) /\ Founded(NotInvoked, request, from)
         /\ Founded([Failed EXCEPT !.status = status], request, from)
<1>1. /\ ~Failed.passed /\ Failed.policies = {}
      /\ ~NotInvoked.passed /\ NotInvoked.policies = {}
      /\ ~[Failed EXCEPT !.status = status].passed
      /\ [Failed EXCEPT !.status = status].policies = {}
  BY DEF Failed, NotInvoked
<1> QED BY <1>1 DEF Founded

(* The invariant holds of every collector's rule, in whatever state the     *)
(* agent is.                                                                *)
THEOREM CedarInvariance == Spec => []CedarInv
<1>1. Init => CedarInv
  BY DEF Init, CedarInv, Chosen, Calling, Telling, Created
<1>2. CedarInv /\ [Next]_vars => CedarInv'
  <2> SUFFICES ASSUME CedarInv, [Next]_vars PROVE CedarInv'
    OBVIOUS
  <2>1. UNCHANGED rule => Chosen'
    BY DEF CedarInv, Chosen, Created
  <2>2. UNCHANGED <<rule, call>> => Calling'
    BY DEF CedarInv, Calling, Created
  <2>3. UNCHANGED <<rule, told>> => Telling'
    BY DEF CedarInv, Telling, Founded, Created
  <2>4. call' = NONE => Calling'
    BY DEF Calling
  <2>5. ASSUME NEW entry \in Collectors, Create(entry) PROVE CedarInv'
    <3> DEFINE engine == Selected(entry)
    <3>1. call' = NONE /\ told' = NONE
      BY <2>5 DEF Create, CedarInv, Calling, Telling, Created
    <3>2. ASSUME Accepted(entry, engine) PROVE engine \in {Wasm, Http, Custom(TRUE)}
      <4>1. engine \in Available /\ engine.loadsAsync = engine.async
        BY <3>2, SelectedIs, CollectorsAssumption DEF Accepted
      <4>2. engine # Custom(FALSE)
        BY <4>1 DEF Custom
      <4> HIDE DEF engine
      <4> QED BY <4>1, <4>2 DEF Available
    <3>3. ASSUME Accepted(entry, engine) PROVE engine # Wasm => ~entry.abstain
      <4>1. engine # Wasm => engine.async
        BY <3>2, <3>3 DEF Http, Custom
      <4> QED BY <3>3, <4>1 DEF Accepted
    <3>4. Chosen'
      <4>1. CASE ~Accepted(entry, engine)
        BY <2>5, <4>1 DEF Create, Chosen, Created, Refused
      <4>2. CASE Accepted(entry, engine)
        <5>1. /\ rule'.layout = entry.layout /\ rule'.engine = engine
              /\ rule'.abstain = entry.abstain
          BY <2>5, <4>2 DEF Create
        <5>2. entry.layout \in Layouts /\ Nameable(entry.layout)
          BY <4>2, CollectorsAssumption DEF Accepted, Loads
        <5> QED BY <3>2, <3>3, <4>2, <5>1, <5>2 DEF Chosen
      <4> QED BY <4>1, <4>2
    <3> QED BY <2>4, <3>1, <3>4 DEF CedarInv, Telling
  <2>6. ASSUME NEW attrs \in AttrMaps, Ask(attrs) PROVE CedarInv'
    <3> DEFINE request == Request(rule.sharing, attrs)
    <3>1. Created /\ call = NONE /\ told = NONE /\ UNCHANGED rule
      BY <2>6 DEF Ask
    <3>2. CASE request.refused
      <4>1. told' = Told(NotInvoked, attrs, NONE) /\ UNCHANGED call
        BY <2>6, <3>2 DEF Ask
      <4>2. Telling'
        BY <3>1, <4>1, NothingToFound, TellingFounded
      <4> QED BY <2>1, <2>2, <3>1, <4>1, <4>2 DEF CedarInv
    <3>3. CASE ~request.refused /\ rule.engine.async
      <4>1. call' = attrs /\ UNCHANGED told
        BY <2>6, <3>3 DEF Ask
      <4>2. rule.engine # Wasm
        BY <3>3 DEF Wasm
      <4>3. Calling'
        BY <3>1, <3>3, <4>1, <4>2 DEF Calling, Created
      <4> QED BY <2>1, <2>3, <3>1, <4>1, <4>3 DEF CedarInv
    <3>4. CASE ~request.refused /\ ~rule.engine.async
      <4> HIDE DEF request
      <4>1. /\ \/ \E answer \in Answers(rule.engine, request) :
                    told' = Told(Interpreted(answer), attrs, Evaluated(rule.engine))
               \/ told' = Told(Failed, attrs, NONE)
            /\ UNCHANGED call
        BY <2>6, <3>4 DEF Ask, request
      <4>2. ASSUME NEW answer \in Answers(rule.engine, request),
                   told' = Told(Interpreted(answer), attrs, Evaluated(rule.engine))
            PROVE  Telling'
        <5>1. Founded(Interpreted(answer), request, Evaluated(rule.engine))
          BY <3>1, <3>4, AnswersAreOwn DEF CedarInv
        <5> QED BY <3>1, <4>2, <5>1, TellingFounded DEF request
      <4>3. Telling'
        BY <3>1, <4>1, <4>2, NothingToFound, TellingFounded DEF request
      <4> QED BY <2>1, <2>2, <3>1, <4>1, <4>3 DEF CedarInv
    <3> QED BY <3>2, <3>3, <3>4
  <2>7. ASSUME call # NONE, UNCHANGED rule, NEW verdict, NEW from,
               Founded(verdict, Request(rule.sharing, call), from),
               told' = Told(verdict, call, from), call' = NONE
        PROVE  CedarInv'
    <3>1. Created /\ call \in AttrMaps
      BY <2>7 DEF CedarInv, Calling
    <3>2. Telling'
      BY <2>7, <3>1, TellingFounded
    <3> QED BY <2>1, <2>4, <2>7, <3>2 DEF CedarInv
  <2>8. CASE Answered
    <3> DEFINE request == Request(rule.sharing, call)
    <3>1. PICK answer \in Answers(rule.engine, request) :
            told' = Told(Interpreted(answer), call, holds)
      BY <2>8 DEF Answered
    <3>2. Created /\ rule.engine # Wasm /\ ~request.refused
      BY <2>8 DEF Answered, CedarInv, Calling
    <3>3. Evaluated(rule.engine) = holds
      BY <3>2 DEF CedarInv, Chosen, Evaluated, Http, Custom
    <3>4. Founded(Interpreted(answer), request, holds)
      BY <3>1, <3>2, <3>3, AnswersAreOwn DEF CedarInv
    <3> QED BY <2>7, <2>8, <3>1, <3>4 DEF Answered
  <2>9. CASE CallFails
    BY <2>7, <2>9, NothingToFound DEF CallFails
  <2>10. CASE Aborted
    BY <2>7, <2>10, NothingToFound DEF Aborted
  <2>11. CASE SetReplaced \/ UNCHANGED vars
    BY <2>1, <2>2, <2>3, <2>11 DEF SetReplaced, vars, CedarInv
  <2> QED BY <2>5, <2>6, <2>8, <2>9, <2>10, <2>11 DEF Next
<1> QED BY <1>1, <1>2, PTL DEF Spec

(* In a layout that was named, an id names one policy.                      *)
LEMMA OneOfItsName ==
  ASSUME NEW layout, Nameable(layout), NEW id \in DOMAIN PolicySet(layout)
  PROVE  Cardinality({p \in Named(layout) : p.id = id}) = 1
<1>1. PICK p \in Named(layout) : p.id = id
  BY DEF PolicySet
<1>2. {q \in Named(layout) : q.id = id} = {p}
  BY <1>1 DEF Nameable
<1> QED BY <1>2, FS_Singleton

(* OwnSetDecides: a pass, and a policy named in a report, is an answer of   *)
(* the set this verifier loaded (CedarPolicyRuleCollector.mts:570-640).     *)
THEOREM OwnSetDecidesHolds == Spec => []OwnSetDecides
<1>1. CedarInv => OwnSetDecides
  <2> SUFFICES ASSUME CedarInv, told # NONE, told.passed \/ told.policies # {}
               PROVE  /\ told.from = Loaded
                      /\ \A id \in told.policies :
                           Cardinality({p \in Named(rule.layout) : p.id = id}) = 1
    BY DEF OwnSetDecides
  <2>1. told.from = Loaded /\ told.policies \subseteq DOMAIN PolicySet(rule.layout)
    BY DEF CedarInv, Telling, Founded
  <2>2. Nameable(rule.layout)
    BY DEF CedarInv, Telling, Chosen
  <2> QED BY <2>1, <2>2, OneOfItsName
<1> QED BY <1>1, CedarInvariance, PTL

(* RolesKeptApart: no role of a request describes another, for every        *)
(* mapping boot accepts and every attribute map (mapping.mts:54-83).        *)
THEOREM RolesKeptApartHolds == Spec => []RolesKeptApart
<1>1. RolesKeptApart
  BY RolesApart DEF RolesKeptApart
<1> QED BY <1>1, PTL

-----------------------------------------------------------------------------
(* What a spoiled value changes.                                            *)

(* Every attribute a request is built from is a key.                        *)
LEMMA KeysAre ==
  /\ {"user", "action", "type", "id"} \subseteq Keys
  /\ \A n \in DOMAIN Context : Context[n] \in Keys
  /\ \A role \in {Principal, Resource} :
       /\ \A n \in DOMAIN role.attributes : role.attributes[n].key \in Keys
       /\ \A t \in DOMAIN role.parents : role.parents[t] \in Keys
BY DEF Keys

(* A request that is built from a spoiled value was spoiled in none of its  *)
(* entities' names or parents.                                              *)
LEMMA SpoiledKey ==
  ASSUME NEW sharing, NEW attrs, NEW a, NEW k, Spoiled(attrs, k, a), Keys \subseteq DOMAIN a,
         ~Request(sharing, attrs).refused
  PROVE  /\ k \notin {"user", "action", "type", "id"}
         /\ \A role \in {Principal, Resource} : \A t \in DOMAIN role.parents : role.parents[t] # k
         /\ \A j \in Keys : j # k => a[j] = attrs[j]
         /\ Kind(attrs[k]) # "text" /\ CedarValue(attrs[k]) = Absent
<1>1. /\ \A j \in {"user", "action", "type"} : NonEmptyText(attrs[j])
      /\ OptionalText(attrs["id"])
      /\ ~ParentsMalformed(Principal, attrs) /\ ~ParentsMalformed(Resource, attrs)
  BY RequestIs
<1>2. Kind(Unusable) = "unusable"
  BY DEF Kind, Unusable
<1>3. \/ attrs[k] = Unusable /\ Kind(attrs[k]) = "unusable"
      \/ Kind(attrs[k]) = "list" /\ Unusable \in attrs[k][2]
  BY <1>2 DEF Spoiled
<1>4. k \notin {"user", "action", "type", "id"}
  BY <1>1, <1>3 DEF NonEmptyText, OptionalText
<1>5. ASSUME NEW role \in {Principal, Resource}, NEW t \in DOMAIN role.parents
      PROVE  role.parents[t] # k
  BY <1>1, <1>3 DEF ParentsMalformed
<1>6. \A j \in Keys : j # k => a[j] = attrs[j]
  BY DEF Spoiled
<1>7. Kind(attrs[k]) # "text" /\ CedarValue(attrs[k]) = Absent
  BY <1>3 DEF CedarValue
<1> QED BY <1>4, <1>5, <1>6, <1>7

(* One value is the same, or the spoiled request does not have it.          *)
LEMMA MappedSpoiled ==
  ASSUME NEW sharing, NEW attrs, NEW a, NEW k, Spoiled(attrs, k, a), Keys \subseteq DOMAIN a,
         ~Request(sharing, attrs).refused,
         NEW entry, entry.key \in Keys, Mapped(entry, attrs) # Absent
  PROVE  Mapped(entry, a) = Mapped(entry, attrs)
<1>1. /\ entry.key # k => a[entry.key] = attrs[entry.key]
      /\ Kind(attrs[k]) # "text" /\ CedarValue(attrs[k]) = Absent
  BY SpoiledKey
<1>2. CASE entry.key = k
  <2>1. Mapped(entry, attrs) = Absent
    BY <1>1, <1>2 DEF Mapped
  <2> QED BY <2>1
<1>3. CASE entry.key # k
  BY <1>1, <1>3 DEF Mapped
<1> QED BY <1>2, <1>3

(* Two attribute maps of which the first has nothing the second has not,    *)
(* nothing it has is other than there, and all memberships are the same.    *)
Within(less, more) ==
  /\ DOMAIN less.gives = DOMAIN more.gives
  /\ \A n \in DOMAIN less.gives : less.gives[n] # Absent => more.gives[n] = less.gives[n]
  /\ less.parents = more.parents

(* So it is for each role's mapping,                                        *)
LEMMA SaysSpoiled ==
  ASSUME NEW sharing, NEW attrs, NEW a, NEW k, Spoiled(attrs, k, a), Keys \subseteq DOMAIN a,
         ~Request(sharing, attrs).refused, NEW role \in {Principal, Resource}
  PROVE  Within(Says(role, attrs), Says(role, a))
<1>1. \A n \in DOMAIN role.attributes :
        Mapped(role.attributes[n], attrs) # Absent =>
          Mapped(role.attributes[n], a) = Mapped(role.attributes[n], attrs)
  BY KeysAre, MappedSpoiled
<1>2. \A t \in DOMAIN role.parents : a[role.parents[t]] = attrs[role.parents[t]]
  BY KeysAre, SpoiledKey
<1>3. Says(role, attrs).parents = Says(role, a).parents
  BY <1>2 DEF Says
<1>4. /\ \A n \in DOMAIN role.attributes :
           Says(role, attrs).gives[n] = Mapped(role.attributes[n], attrs)
      /\ \A n \in DOMAIN role.attributes : Says(role, a).gives[n] = Mapped(role.attributes[n], a)
      /\ DOMAIN Says(role, attrs).gives = DOMAIN role.attributes
      /\ DOMAIN Says(role, a).gives = DOMAIN role.attributes
  BY SaysIs
<1> QED BY <1>1, <1>3, <1>4 DEF Within

(* and for what the absorbing makes of two of them,                         *)
LEMMA AbsorbedWithin ==
  ASSUME NEW held, NEW offered, NEW held2, NEW offered2,
         Within(held, held2), Within(offered, offered2), Agrees(held, offered)
  PROVE  Within(Absorbed(held, offered), Absorbed(held2, offered2))
<1> DEFINE both == Absorbed(held, offered)
           both2 == Absorbed(held2, offered2)
<1>1. both.parents = both2.parents
  BY DEF Within, Absorbed, At
<1>2. /\ DOMAIN both.gives = DOMAIN held.gives \cup DOMAIN offered.gives
      /\ DOMAIN both2.gives = DOMAIN held.gives \cup DOMAIN offered.gives
  BY AbsorbedIs DEF Within
<1>3. ASSUME NEW n \in DOMAIN held.gives, both.gives[n] # Absent
      PROVE  both2.gives[n] = both.gives[n]
  <2>1. held.gives[n] = both.gives[n]
    BY AgreeingAbsorbed
  <2>2. held2.gives[n] = held.gives[n] /\ n \in DOMAIN held2.gives
    BY <1>3, <2>1 DEF Within
  <2> QED BY <1>3, <2>1, <2>2, AbsorbedIs
<1>4. ASSUME NEW n \in DOMAIN offered.gives \ DOMAIN held.gives, both.gives[n] # Absent
      PROVE  both2.gives[n] = both.gives[n]
  BY <1>4, AbsorbedIs DEF Within
<1> HIDE DEF both, both2
<1>5. Within(both, both2)
  BY <1>1, <1>2, <1>3, <1>4 DEF Within
<1> QED BY <1>5 DEF both, both2

(* and so for every entity of the request.                                  *)
LEMMA EntitiesSpoiled ==
  ASSUME NEW sharing, NEW attrs, NEW a, NEW k, Spoiled(attrs, k, a), Keys \subseteq DOMAIN a,
         ~Request(sharing, attrs).refused
  PROVE  /\ PrincipalOf(a) = PrincipalOf(attrs) /\ ActionOf(a) = ActionOf(attrs)
         /\ ResourceOf(a) = ResourceOf(attrs)
         /\ DOMAIN EntitiesOf(a) = DOMAIN EntitiesOf(attrs)
         /\ \A e \in DOMAIN EntitiesOf(attrs) : Within(EntitiesOf(attrs)[e], EntitiesOf(a)[e])
<1>1. \A j \in {"user", "action", "type", "id"} : a[j] = attrs[j]
  BY KeysAre, SpoiledKey
<1>2. /\ PrincipalOf(a) = PrincipalOf(attrs) /\ ActionOf(a) = ActionOf(attrs)
      /\ ResourceOf(a) = ResourceOf(attrs)
  BY <1>1 DEF PrincipalOf, ActionOf, ResourceOf
<1>3. Within(Subject(attrs), Subject(a)) /\ Within(Object(attrs), Object(a))
  BY SaysSpoiled DEF Subject, Object
<1>4. Within(HeldOf(attrs), HeldOf(a))
  BY <1>2, <1>3 DEF HeldOf, Within
<1>5. Within(EntitiesOf(attrs)[ResourceOf(attrs)], EntitiesOf(a)[ResourceOf(attrs)])
  BY <1>2, <1>3, <1>4, EntitiesAre, AbsorbedWithin, RolesAgree
<1>6. ResourceOf(attrs) # PrincipalOf(attrs) =>
        Within(EntitiesOf(attrs)[PrincipalOf(attrs)], EntitiesOf(a)[PrincipalOf(attrs)])
  BY <1>2, <1>3, EntitiesAre
<1> QED BY <1>2, <1>5, <1>6, EntitiesAre

(* A policy that the spoiled request neither errs on nor satisfies is not   *)
(* satisfied by the well-formed one either.                                 *)
LEMMA SpoilingSatisfiesNothing ==
  ASSUME NEW sharing, NEW attrs, NEW a, NEW k, Spoiled(attrs, k, a), Keys \subseteq DOMAIN a,
         ~Request(sharing, attrs).refused, ~Request(sharing, a).refused,
         NEW policy, WellTyped(policy),
         ~Errs(Request(sharing, attrs), policy), ~Applies(Request(sharing, attrs), policy)
  PROVE  ~Applies(Request(sharing, a), policy)
<1> DEFINE spoiled == Request(sharing, attrs)
           well == Request(sharing, a)
<1>1. /\ spoiled.principal = well.principal /\ spoiled.action = well.action
      /\ spoiled.resource = well.resource
      /\ DOMAIN spoiled.entities = DOMAIN well.entities
      /\ \A e \in DOMAIN spoiled.entities : Within(spoiled.entities[e], well.entities[e])
  BY RequestIs, EntitiesSpoiled
<1>2. /\ DOMAIN spoiled.context = DOMAIN Context /\ DOMAIN well.context = DOMAIN Context
      /\ \A n \in DOMAIN Context : spoiled.context[n] # Absent =>
           well.context[n] = spoiled.context[n]
  <2>1. spoiled.context = ContextOf(attrs) /\ well.context = ContextOf(a)
    BY RequestIs
  <2>2. ASSUME NEW n \in DOMAIN Context, CedarValue(attrs[Context[n]]) # Absent
        PROVE  a[Context[n]] = attrs[Context[n]]
    BY <2>2, KeysAre, SpoiledKey
  <2> QED BY <2>1, <2>2 DEF ContextOf
<1> HIDE DEF spoiled, well
<1>3. policy.role \in {"principal", "action", "resource"} =>
        spoiled[policy.role] = well[policy.role]
  BY <1>1
<1>4. CASE policy.reads = "always"
  <2>1. Applies(spoiled, policy)
    BY <1>4 DEF Applies
  <2> QED BY <2>1 DEF spoiled
<1>5. CASE policy.reads = "in"
  <2>1. \A e \in DOMAIN spoiled.entities :
          Memberships(spoiled.entities[e]) = Memberships(well.entities[e])
    BY <1>1 DEF Within, Memberships
  <2>2. \A uid, group : In(spoiled, uid, group) = In(well, uid, group)
    BY <1>1, <2>1 DEF In
  <2>3. spoiled[policy.role] = well[policy.role]
    BY <1>3, <1>5 DEF WellTyped
  <2>4. Applies(spoiled, policy) = Applies(well, policy)
    BY <1>5, <2>2, <2>3 DEF Applies
  <2> QED BY <2>4 DEF spoiled, well
<1>6. CASE policy.reads \notin {"always", "in"}
  <2>1. Read(spoiled, policy) # Absent
    BY <1>6 DEF Errs, spoiled
  <2>2. /\ DOMAIN Holds(well, policy.role) = DOMAIN Holds(spoiled, policy.role)
        /\ \A n \in DOMAIN Holds(spoiled, policy.role) :
             Holds(spoiled, policy.role)[n] # Absent =>
               Holds(well, policy.role)[n] = Holds(spoiled, policy.role)[n]
    <3>1. CASE policy.role = "context"
      BY <1>2, <3>1 DEF Holds
    <3>2. CASE policy.role # "context" /\ spoiled[policy.role] \in DOMAIN spoiled.entities
      BY <1>1, <1>3, <3>2 DEF Holds, Within, WellTyped
    <3>3. CASE policy.role # "context" /\ spoiled[policy.role] \notin DOMAIN spoiled.entities
      BY <1>1, <1>3, <3>3 DEF Holds, WellTyped
    <3> QED BY <3>1, <3>2, <3>3
  <2>3. Read(well, policy) = Read(spoiled, policy)
    BY <2>1, <2>2 DEF Read, At
  <2>4. Applies(well, policy) = Applies(spoiled, policy)
    BY <1>6, <2>3 DEF Applies
  <2> QED BY <2>4 DEF spoiled, well
<1> QED BY <1>4, <1>5, <1>6

(* Every policy of a set is one of a file's.                                *)
LEMMA PoliciesWellTyped ==
  ASSUME NEW layout \in Layouts, NEW id \in DOMAIN PolicySet(layout)
  PROVE  WellTyped(PolicySet(layout)[id])
<1> DEFINE named == CHOOSE p \in Named(layout) : p.id = id
<1>1. \E p \in Named(layout) : p.id = id
  BY DEF PolicySet
<1>2. named \in Named(layout) /\ PolicySet(layout)[id] = named.policy
  BY <1>1 DEF PolicySet
<1>3. \A p \in Named(layout) : WellTyped(p.policy)
  BY CollectorsAssumption DEF Named
<1> QED BY <1>2, <1>3

(* ForbidsNotEvaded: what a malformed value leaves out passes no request    *)
(* that a loaded policy forbids once the value is well formed               *)
(* (mapping.mts:163-177, CedarPolicyRuleCollector.mts:644).                 *)
THEOREM ForbidsNotEvadedHolds == Spec => []ForbidsNotEvaded
<1>1. CedarInv => ForbidsNotEvaded
  <2> SUFFICES ASSUME CedarInv, Passed, NEW k \in DOMAIN told.attrs, NEW a \in AttrMaps,
                      Spoiled(told.attrs, k, a), ~Request(rule.sharing, a).refused,
                      NEW id \in DOMAIN PolicySet(rule.layout),
                      PolicySet(rule.layout)[id].effect = "forbid"
               PROVE  ~Applies(Request(rule.sharing, a), PolicySet(rule.layout)[id])
    BY DEF ForbidsNotEvaded
  <2>1. /\ ~Request(rule.sharing, told.attrs).refused
        /\ Quiet(PolicySet(rule.layout), Request(rule.sharing, told.attrs))
    BY DEF CedarInv, Telling, Founded, Passed
  <2>2. Keys \subseteq DOMAIN a
    BY CollectorsAssumption
  <2>3. WellTyped(PolicySet(rule.layout)[id])
    BY PoliciesWellTyped DEF CedarInv, Telling, Chosen, Passed
  <2> QED BY <2>1, <2>2, <2>3, SpoilingSatisfiesNothing DEF Quiet
<1> QED BY <1>1, CedarInvariance, PTL

=============================================================================
