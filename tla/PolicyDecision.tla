---------------------------- MODULE PolicyDecision ----------------------------
(***************************************************************************)
(* A deployment of the built-in collectors and rules, from the packages it *)
(* loads to the decision: packages reserve their attribute keys, in any    *)
(* order (core/keys.mts); the collectors are constructed, or refuse;       *)
(* a request's attributes are collected and merged, or conflict; its rules *)
(* are collected and go through the rule phase (RulePhase), where each     *)
(* answers what BuiltinPolicy says it does.                                *)
(*                                                                         *)
(* A rule phase may also be over any given list of rules, whose answers    *)
(* are then chosen as in RulePhase.                                        *)
(***************************************************************************)
EXTENDS RulePhase, BuiltinPolicy

CONSTANTS
  Deployments,  \* [packages, reversed, scopeClaim, permissions, roles, range, facts,
                \*  fromClaims, fromContext, scoped, permissionRule, ruleRange,
                \*  attrRules, onEmpty]
  Requests      \* [resource, action, subject, context]

ASSUME DeploymentsAssumption ==
  \A d \in Deployments :
    /\ d.onEmpty \in {"deny", "allow"}
    /\ Cardinality(DOMAIN d.attrRules) \in Nat
    /\ DOMAIN d.attrRules = 1..Cardinality(DOMAIN d.attrRules)
    /\ Len(d.fromClaims) \in Nat /\ DOMAIN d.fromClaims = 1..Len(d.fromClaims)
    /\ d.range # ABSENT =>
         \E p \in d.packages : p.owner # "core" /\ ATTR_DELEGATION_RANGE \in p.keys

(* What an attribute rule is configured with: names, an operator, literals, *)
(* of which a rule over no set has one.                                     *)
ASSUME AttrRulesAssumption ==
  \A d \in Deployments : \A i \in DOMAIN d.attrRules :
    LET r == d.attrRules[i] IN
    /\ r.rule \in PairRules \cup LiteralRules /\ r.op \in STRING
    /\ \A name \in {r.a, r.b} : name = ABSENT \/ name \in Seq(STRING)
    /\ \A v \in r.values : /\ v = [kind |-> v.kind, text |-> v.text, items |-> v.items]
                           /\ v.text \in Seq(STRING)
                           /\ v.kind \in {"string", "number", "boolean"} => v.items = <<>>
    /\ r.rule \notin SetRules => \A v, w \in r.values : v = w

(* The hash of a deployment's literal sets is a text, and tells them apart. *)
ASSUME HashAssumption ==
  LET sets == {r.values : r \in {r \in UNION {ToSet(d.attrRules) : d \in Deployments} :
                                   r.rule \in SetRules /\ Constructs(r)}}
  IN \A one, other \in sets :
       /\ computeValuesKey(one) \in Seq(STRING)
       /\ computeValuesKey(one) = computeValuesKey(other) =>
            {v.text : v \in one} = {v.text : v \in other}

ASSUME RequestsAssumption ==
  \A r \in Requests :
    /\ r = [resource |-> r.resource, action |-> r.action, subject |-> r.subject,
            context |-> r.context]
    /\ r.resource \in Seq(STRING) /\ r.action \in Seq(STRING)
    /\ \A name \in DOMAIN r.subject :
         IsList(r.subject[name]) =>
           LET items == r.subject[name].items
           IN Len(items) \in Nat /\ DOMAIN items = 1..Len(items)

VARIABLES
  stage,         \* "given"; or "loading", "refused", "ready", then "unparsed",
                 \* "conflict" or "collected"
  deployment,
  unloaded,      \* its packages still to load
  reservations,  \* key -> owner
  request,
  attributes,
  collected      \* the rules collected, as BuiltinPolicy has them

policy == <<stage, deployment, unloaded, reservations, request, attributes, collected>>
policyVars == <<vars, policy>>

CORE == "core"

PolicyInit ==
  /\ deployment \in Deployments \cup {NONE}
  /\ IF deployment = NONE THEN Init /\ stage = "given" /\ unloaded = {}
     ELSE /\ Starts(<<>>, deployment.onEmpty, "collecting")
          /\ stage = "loading" /\ unloaded = deployment.packages
  /\ reservations = Reserved(<<>>, CORE, CORE_ATTRIBUTE_KEYS)
  /\ request = NONE /\ attributes = <<>> /\ collected = <<>>

-----------------------------------------------------------------------------
(* An import runs a package's module body, which reserves its keys; two     *)
(* owners of one key, and it throws.                                        *)
LoadPackage ==
  /\ stage = "loading"
  /\ \E p \in unloaded :
       IF Contested(reservations, p.owner, p.keys)
       THEN stage' = "refused" /\ UNCHANGED <<reservations, unloaded>>
       ELSE /\ reservations' = Reserved(reservations, p.owner, p.keys)
            /\ unloaded' = unloaded \ {p}
            /\ UNCHANGED stage
  /\ UNCHANGED <<vars, deployment, request, attributes, collected>>

(* The collectors and the rules, once every package a configuration can     *)
(* name is loaded.                                                          *)
Construct ==
  /\ stage = "loading" /\ unloaded = {}
  /\ stage' = IF /\ parseAttributeMappings(deployment.fromContext, reservations, {})
                 /\ parseAttributeMappings(deployment.fromClaims, reservations, {CORE})
                 /\ \A i \in DOMAIN deployment.attrRules : Constructs(deployment.attrRules[i])
              THEN "ready" ELSE "refused"
  /\ UNCHANGED <<vars, deployment, unloaded, reservations, request, attributes, collected>>

(* The collectors configured, each with what it wrote.                      *)
If(configured, map) == IF configured THEN <<map>> ELSE <<>>

OwnedMaps(d, r, resource) ==
  If(d.range # ABSENT, DelegationRangeCollector(r.subject, d.range))
    \o If(d.facts, RequestFactsCollector(resource, r.action))

Maps(d, r, resource) ==
  LET maps == If(d.scopeClaim # ABSENT, PayloadScopeCollector(r.subject, d.scopeClaim))
                \o <<PayloadSubjectIdCollector(r.subject)>>
                \o If(d.permissions # ABSENT, StaticPermissionCollector(d.permissions))
                \o If(d.roles # ABSENT, StaticRoleCollector(d.roles))
                \o OwnedMaps(d, r, resource)
                \o If(d.fromClaims # <<>>, promoteMappings(d.fromClaims, r.subject))
                \o If(d.fromContext # <<>> /\ r.context # ABSENT,
                      promoteMappings(d.fromContext, r.context))
  IN IF d.reversed THEN Reverse(maps) ELSE maps

RulesFor(d, r, resource) ==
  (IF d.scoped = ABSENT THEN <<>>
   ELSE ResourceActionScopeRuleCollector(r.subject, resource, r.action, d.scoped))
  \o (IF d.permissionRule THEN ResourceActionPermissionRuleCollector(r.resource, r.action)
      ELSE <<>>)
  \o (IF d.ruleRange = ABSENT THEN <<>>
      ELSE DelegationRangeRuleCollector(r.subject, r.resource, r.action, d.ruleRange))
  \o [i \in DOMAIN d.attrRules |-> AttrRule(d.attrRules[i])]

CollectPolicy ==
  /\ stage = "ready"
  /\ \E r \in Requests :
       /\ request' = r
       /\ \/ parseResource(r.resource) = {} /\ stage' = "unparsed"
             /\ UNCHANGED <<attributes, collected, rules, ran, phase>>
          \/ \E resource \in parseResource(r.resource) :
               LET maps == Maps(deployment, r, resource)
               IN \/ /\ Conflicts(maps) /\ stage' = "conflict"
                     /\ UNCHANGED <<attributes, collected, rules, ran, phase>>
                  \/ /\ ~Conflicts(maps) /\ stage' = "collected"
                     /\ attributes' = merge(maps)
                     /\ collected' = RulesFor(deployment, r, resource)
                     /\ rules' = [i \in DOMAIN collected' |->
                                    [type |-> collected'[i].type, async |-> FALSE,
                                     restricts |-> collected'[i].restricts]]
                     /\ ran' = [i \in DOMAIN collected' |-> NONE]
                     /\ phase' = "start"
  /\ UNCHANGED <<onEmpty, at, now, began, due, caller, doubted, thrown, blamed,
                 deployment, unloaded, reservations>>

AskBuiltin ==
  /\ stage = "collected" /\ phase = "asking"
  /\ Settle(IF verify(collected[at], attributes) THEN "true" ELSE "false", "none")
  /\ UNCHANGED <<rules, onEmpty, now, began, due, caller, policy>>

BeginBuiltin == stage = "collected" /\ Begin /\ UNCHANGED policy
GivenPhase == stage = "given" /\ Next /\ UNCHANGED policy

-----------------------------------------------------------------------------
PolicyNext ==
  \/ GivenPhase
  \/ LoadPackage \/ Construct \/ CollectPolicy \/ BeginBuiltin \/ AskBuiltin

(* The evaluator's own steps run, time passes and a due timer fires; an     *)
(* asynchronous rule need never settle.                                     *)
PolicyFairness ==
  /\ WF_vars(stage = "given" /\ (Begin \/ AskSync \/ StartAsync) /\ UNCHANGED policy)
  /\ WF_vars(stage = "given" /\ TimerFires /\ UNCHANGED policy)
  /\ WF_vars(stage = "given" /\ Tick /\ UNCHANGED policy)
  /\ WF_vars(BeginBuiltin \/ AskBuiltin)

PolicySpec == PolicyInit /\ [][PolicyNext]_policyVars /\ PolicyFairness

-----------------------------------------------------------------------------
Resource == CHOOSE resource \in parseResource(request.resource) : TRUE

(* What a caller writes in its request body reaches a decision only under   *)
(* the keys the operator declared for it, none of them one a loaded package *)
(* reserved: every other attribute is what it is without a body, whatever   *)
(* lists the merge unites (core/keys.mts:68-96).  A package's own key holds *)
(* what its own collector wrote, no claim added                             *)
(* (collectors/PayloadClaimAttributeCollector.mts:49-58).                   *)
CallerCannotVouch ==
  stage = "collected" /\ phase = "start" =>
    LET silent == merge(Maps(deployment, [request EXCEPT !.context = ABSENT], Resource))
        owned == merge(OwnedMaps(deployment, request, Resource))
        declared == {Destination(deployment.fromContext[i]) : i \in DOMAIN deployment.fromContext}
    IN /\ \A key \in DOMAIN attributes \ (declared \ DOMAIN reservations) :
            Read(silent, key) = attributes[key]
       /\ \A key \in DOMAIN attributes \cap DOMAIN reservations :
            reservations[key] # CORE => Read(owned, key) = attributes[key]

(* A delegation only narrows, where nothing else reads it.  A token that    *)
(* carries a range, however badly it spells it, is allowed nothing outside  *)
(* it: an entry covers the request's resource and its action, element by    *)
(* element.  Nor anything the same token without the range would be denied  *)
(* (rules/WithinDelegationRange.mts:18-22, delegation/range.mts:92-99).     *)
Delegated(claim, type) ==
  /\ claim # ABSENT
  /\ claim.kind = "list" =>
       \E i \in DOMAIN claim.items : claim.items[i].kind # "object" \/ claim.items[i].text = type

Asked == Append(Elements(request.resource), <<request.action>>)

Covers(path) ==
  \E entry \in parseRangePath(path) :
    /\ Len(entry) <= Len(Asked)
    /\ \A i \in DOMAIN entry :
         entry[i][1] = Asked[i][1] /\ (Len(entry[i]) = 2 => entry[i] = Asked[i])

(* Nothing else reads the range's claim.                                    *)
RangeApart(d) ==
  /\ d.range.claim \notin {d.scopeClaim, Text("sub"), Text("client_id"), Text("azp")}
  /\ d.scoped # ABSENT => d.scoped.claim # d.range.claim
  /\ \A i \in DOMAIN d.fromClaims : d.fromClaims[i].from # d.range.claim

WouldAllow(list, attrs, empty) ==
  /\ empty = "allow" \/ \E i \in DOMAIN list : ~list[i].restricts
  /\ \A i \in DOMAIN list : \E j \in DOMAIN list :
       list[i].type = list[j].type /\ verify(list[j], attrs)

DelegationNarrows ==
  stage = "collected" /\ Allowed /\ deployment.range # ABSENT
    /\ deployment.range = deployment.ruleRange /\ RangeApart(deployment) =>
    LET range == deployment.range
        claim == Read(request.subject, range.claim)
        bare == [request EXCEPT !.subject =
                   [name \in DOMAIN @ \ {range.claim} |-> request.subject[name]]]
    IN Delegated(claim, range.type) =>
         /\ claim.kind = "list"
         /\ \E i \in DOMAIN claim.items :
              LET path == claim.items[i].items[1]
              IN claim.items[i].text = range.type /\ NonEmpty(path) /\ Covers(path.text)
         /\ WouldAllow(RulesFor(deployment, bare, Resource),
                       merge(Maps(deployment, bare, Resource)), onEmpty)

(* Two rules written apart are both held to: an allow has every attribute   *)
(* rule hold that no group was written for, however alike their names and   *)
(* literals make their types look (rules/_sharedValidation.mts:53-57,       *)
(* AttrLiteralEqual.mts, "silently weakening authorization").               *)
RulesStayApart ==
  stage = "collected" /\ Allowed =>
    LET written == ToSet(deployment.attrRules)
    IN \A r \in written :
         r.group = ABSENT /\ (\A other \in written : other.group # DerivedType(r)) =>
           AttrHolds(r, attributes)
=============================================================================
